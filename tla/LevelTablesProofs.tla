------------------------- MODULE LevelTablesProofs -------------------------
(***************************************************************************)
(* No two tables of a level from 1 overlap, a read finds the newest write  *)
(* it may see, and an iterator shows each key of its snapshot in turn,     *)
(* whatever writes, reads, memtables and compactions do.                   *)
(* That the levels are in line is not inductive by itself: a compaction    *)
(* writes long after it chose its inputs, and meanwhile memtables become   *)
(* tables.  Places says what its choice has left true:                     *)
(*                                                                         *)
(*   - Taken: whoever is on the level it writes to and not among its       *)
(*     inputs lies Beside all of them, so its outputs find room;           *)
(*   - Covered: between two of its inputs there is no key that none of     *)
(*     them meets, so a memtable whose keys lie among theirs overlaps one, *)
(*     and PickLevelForMemTableOutput leaves it above them.                *)
(*                                                                         *)
(* A compaction of CompactRange takes what the caller's range meets, which *)
(* may have gaps, and need not be Covered: a memtable can come to lie in a *)
(* gap, which the model notes as a hole.                                   *)
(*                                                                         *)
(* Found is the invariant of reads: of a user key newer entries are above  *)
(* older ones, from the memtables down (MemOrder, NewestAbove), and at     *)
(* each snapshot the newest write is kept, or it was a deletion and no     *)
(* older one is (Complete).  For what a compaction under way will drop and *)
(* move, Spared: what it leaves beside its inputs, and below a deletion    *)
(* that it drops, is newer.  That is so at first unless it parts a user    *)
(* key, and memtables that become tables meanwhile are newer still.        *)
(*                                                                         *)
(* Of the client's iterator IterInv says that its sources together are     *)
(* Complete at its snapshot, which they stay while the memtable grows, and *)
(* that it is On the entry to show for its cursor.  Each merge it makes    *)
(* Stands: in the direction it goes, no source is behind the current entry *)
(* nor has left out one in front.  The loops of DBIter end, because each   *)
(* turn takes an entry off what is still to come.                          *)
(*                                                                         *)
(* The lists that the model makes by recursion are reached with            *)
(* RecursionExists of SequenceLemmas: a function with the recursive        *)
(* equation exists, and then what holds of its values.                     *)
(***************************************************************************)
EXTENDS LevelTables, SequenceLemmas

-----------------------------------------------------------------------------
(* Elements selected one after the other *)

\* The functions that recursion defines; least is what is selected of each set.
Selects(f, S, least) ==
  f = [s \in SUBSET S |-> IF s = {} THEN <<>> ELSE <<least[s]>> \o f[s \ {least[s]}]]

Chooses(least, S) == \A s \in SUBSET S : s # {} => least[s] \in s

\* There is such a function.
LEMMA SelectsExists ==
    ASSUME NEW S, IsFiniteSet(S), NEW least, Chooses(least, S)
    PROVE  \E f : Selects(f, S, least)
<1> DEFINE D == SUBSET S
           V == Seq(S)
           m == [s \in D |-> Cardinality(s)]
           stop == {{}}
           next == [s \in D |-> s \ {least[s]}]
           b == [s \in stop |-> <<>>]
           F == [s \in D |-> [v \in V |-> <<least[s]>> \o v]]
<1>1. RecursionOn(D, V, m, stop, next, b, F)
  <2>1. m \in [D -> Nat]
    BY FS_Subset, FS_CardinalityType
  <2>2. \A s \in D : s \in stop => b[s] \in V
    OBVIOUS
  <2>3. ASSUME NEW s \in D, s \notin stop
        PROVE  next[s] \in D /\ m[next[s]] < m[s] /\ F[s] \in [V -> V]
    <3>1. least[s] \in s /\ least[s] \in S
      BY <2>3 DEF Chooses
    <3>2. IsFiniteSet(s)
      BY FS_Subset
    <3>3. Cardinality(s \ {least[s]}) < Cardinality(s)
      <4>1. Cardinality(s) \in Nat
        BY <3>2, FS_CardinalityType
      <4>2. Cardinality(s \ {least[s]}) = Cardinality(s) - 1
        BY <3>1, <3>2, FS_RemoveElement
      <4> QED
        BY <4>1, <4>2
    <3>4. \A v \in V : <<least[s]>> \o v \in V
      BY <3>1
    <3>5. next[s] = s \ {least[s]} /\ next[s] \in D
      OBVIOUS
    <3>6. m[next[s]] < m[s]
      BY <3>3, <3>5
    <3>7. F[s] \in [V -> V]
      BY <3>4
    <3> QED
      BY <3>5, <3>6, <3>7
  <2> HIDE DEF m, stop, next, b, F, V, D
  <2> QED
    BY <2>1, <2>2, <2>3 DEF RecursionOn
<1> HIDE DEF m, stop, next, b, F
<1>2. PICK f : Solves(f, D, V, stop, next, b, F)
  BY <1>1, RecursionExists
<1>3. \A s \in D : f[s] = IF s = {} THEN <<>> ELSE <<least[s]>> \o f[s \ {least[s]}]
  <2> SUFFICES ASSUME NEW s \in D PROVE f[s] = IF s = {} THEN <<>> ELSE <<least[s]>> \o f[s \ {least[s]}]
    OBVIOUS
  <2>1. CASE s = {}
    BY <1>2, <2>1 DEF Solves, stop, b
  <2>2. CASE s # {}
    <3>1. s \notin stop /\ next[s] = s \ {least[s]} /\ next[s] \in D
      BY <2>2 DEF stop, next
    <3>2. f[next[s]] \in V
      BY <1>2, <3>1 DEF Solves
    <3>3. F[s][f[next[s]]] = <<least[s]>> \o f[next[s]]
      BY <3>2 DEF F
    <3> QED
      BY <1>2, <2>2, <3>1, <3>3 DEF Solves
  <2> QED
    BY <2>1, <2>2
<1>4. f \in [D -> V]
  BY <1>2 DEF Solves
<1>5. f = [s \in D |-> IF s = {} THEN <<>> ELSE <<least[s]>> \o f[s \ {least[s]}]]
  BY <1>3, <1>4
<1> QED
  BY <1>5 DEF Selects
\* What such a function returns: each element of the set, once, and the one
\* selected of a set before the others of it.
InTurn(r, S, least) ==
  /\ r \in Seq(S) /\ Len(r) = Cardinality(S) /\ \A x \in S : \E i \in 1 .. Len(r) : r[i] = x
  /\ \A i \in 1 .. Len(r) : \E s \in SUBSET S :
       s # {} /\ r[i] = least[s] /\ \A j \in i + 1 .. Len(r) : r[j] \in s /\ r[j] # r[i]

\* By induction on the number of elements.
LEMMA SelectedInTurn ==
    ASSUME NEW S, IsFiniteSet(S), NEW least, Chooses(least, S), NEW f, Selects(f, S, least)
    PROVE  InTurn(f[S], S, least)
<1> DEFINE G == { s \in SUBSET S : InTurn(f[s], s, least) }
           N == { n \in Nat : \A s \in SUBSET S : Cardinality(s) = n => s \in G }
<1>0. \A s \in SUBSET S : f[s] = IF s = {} THEN <<>> ELSE <<least[s]>> \o f[s \ {least[s]}]
  BY DEF Selects
<1>1. 0 \in N
  <2> SUFFICES ASSUME NEW s \in SUBSET S, Cardinality(s) = 0 PROVE s \in G
    OBVIOUS
  <2>1. s = {} /\ f[s] = <<>>
    BY <1>0, FS_Subset, FS_EmptySet
  <2> DEFINE r == f[s]
  <2>2. r = <<>> /\ Len(r) = 0 /\ r \in Seq(s)
    BY <2>1
  <2> HIDE DEF r
  <2>3. InTurn(r, s, least)
    BY <2>1, <2>2 DEF InTurn
  <2> QED
    BY <2>3 DEF r
<1>2. ASSUME NEW n \in Nat, n \in N PROVE n + 1 \in N
  <2> SUFFICES ASSUME NEW s \in SUBSET S, Cardinality(s) = n + 1 PROVE s \in G
    OBVIOUS
  <2> DEFINE x == least[s]
             t == s \ {x}
             q == f[t]
             r == f[s]
  <2>0. IsFiniteSet(s) /\ Cardinality(s) # 0
    BY FS_Subset
  <2>1. s # {} /\ x \in s
    BY <2>0, FS_EmptySet DEF Chooses
  <2>2. t \in SUBSET S /\ Cardinality(t) = n
    <3>1. Cardinality(t) = Cardinality(s) - 1
      BY <2>0, <2>1, FS_RemoveElement
    <3> QED
      BY <3>1
  <2>3. InTurn(q, t, least)
    BY <1>2, <2>2
  <2>4. r = <<x>> \o q
    BY <1>0, <2>1
  <2>5. q \in Seq(t) /\ Len(q) = n
    BY <2>2, <2>3 DEF InTurn
  <2> HIDE DEF x, t, q, r
  <2>6. /\ r \in Seq(s) /\ Len(r) = n + 1 /\ r[1] = x
        /\ \A i \in 2 .. n + 1 : r[i] = q[i - 1] /\ i - 1 \in 1 .. n /\ r[i] \in t
    <3>1. q \in Seq(s)
      BY <2>5 DEF t
    <3> QED
      BY <2>1, <2>4, <2>5, <3>1
  <2>7. \A y \in s : \E i \in 1 .. n + 1 : r[i] = y
    <3> SUFFICES ASSUME NEW y \in s, y # x PROVE \E i \in 1 .. n + 1 : r[i] = y
      BY <2>6
    <3>1. PICK i \in 1 .. n : q[i] = y
      BY <2>3, <2>5 DEF InTurn, t
    <3>2. i + 1 \in 2 .. n + 1 /\ r[i + 1] = y
      BY <2>6, <3>1
    <3> QED
      BY <3>2
  <2>8. ASSUME NEW i \in 1 .. n + 1
        PROVE  \E u \in SUBSET s : u # {} /\ r[i] = least[u] /\ \A j \in i + 1 .. n + 1 : r[j] \in u /\ r[j] # r[i]
    <3>1. CASE i = 1
      BY <2>1, <2>6, <3>1 DEF x, t
    <3>2. CASE i # 1
      <4>1. i - 1 \in 1 .. n /\ r[i] = q[i - 1]
        BY <2>6, <3>2
      <4>2. PICK u \in SUBSET t : u # {} /\ q[i - 1] = least[u] /\ \A j \in i .. n : q[j] \in u /\ q[j] # q[i - 1]
        <5> DEFINE p == i - 1
        <5>1. p \in 1 .. Len(q) /\ p + 1 = i /\ Len(q) = n
          BY <2>5, <4>1
        <5> HIDE DEF p
        <5>2. PICK u \in SUBSET t : u # {} /\ q[p] = least[u] /\ \A j \in p + 1 .. n : q[j] \in u /\ q[j] # q[p]
          BY <2>3, <5>1 DEF InTurn
        <5>3. u # {} /\ q[p] = least[u] /\ \A j \in i .. n : q[j] \in u /\ q[j] # q[p]
          BY <5>1, <5>2
        <5> QED
          BY <5>3 DEF p
      <4>3. ASSUME NEW j \in i + 1 .. n + 1 PROVE r[j] \in u /\ r[j] # r[i]
        <5>1. j - 1 \in i .. n /\ j \in 2 .. n + 1
          BY <3>2
        <5>2. r[j] = q[j - 1]
          BY <2>6, <5>1
        <5>3. q[j - 1] \in u /\ q[j - 1] # q[i - 1]
          BY <4>2, <5>1
        <5> QED
          BY <4>1, <5>2, <5>3
      <4> QED
        BY <4>1, <4>2, <4>3 DEF t
    <3> QED
      BY <3>1, <3>2
  <2>9. InTurn(r, s, least)
    BY <2>6, <2>7, <2>8 DEF InTurn
  <2> QED
    BY <2>9 DEF r
<1>3. Nat \subseteq N
  <2> HIDE DEF N
  <2> QED
    BY <1>1, <1>2, StepInduction
<1>4. Cardinality(S) \in N
  BY <1>3, FS_CardinalityType
<1> QED
  BY <1>4

-----------------------------------------------------------------------------
(* Entries *)

\* Different ones have different keys or sequence numbers.
Entries(U) ==
  /\ \A e \in U : e.key \in Nat /\ e.seq \in Nat
  /\ \A d, e \in U : d.key = e.key /\ d.seq = e.seq => d = e

\* Before is a total order of them.
LEMMA BeforeOrder ==
    ASSUME NEW U, Entries(U)
    PROVE  /\ \A d \in U : ~Before(d, d)
           /\ \A d, e, f \in U : Before(d, e) /\ Before(e, f) => Before(d, f)
           /\ \A d, e \in U : d # e => Before(d, e) \/ Before(e, d)
  BY DEF Entries, Before

\* The numbers of a finite set have a largest.
LEMMA LargestOf ==
    ASSUME NEW S, IsFiniteSet(S), S # {}, NEW f \in [S -> Nat]
    PROVE  \E x \in S : \A y \in S : f[y] <= f[x]
<1> DEFINE T == { f[x] : x \in S }
<1>1. f \in Surjection(S, T)
  BY DEF Surjection
<1>2. IsFiniteSet(T)
  BY <1>1, FS_Surjection
<1>3. T \in SUBSET Int /\ T # {}
  OBVIOUS
<1>4. Max(T) \in T /\ \A y \in T : y <= Max(T)
  BY <1>2, <1>3, MaxIs
<1> HIDE DEF T
<1>5. PICK x \in S : f[x] = Max(T)
  BY <1>4 DEF T
<1> QED
  BY <1>4, <1>5 DEF T

\* And a smallest.
LEMMA SmallestOf ==
    ASSUME NEW S, S # {}, NEW f \in [S -> Nat]
    PROVE  \E x \in S : \A y \in S : f[x] <= f[y]
<1> DEFINE T == { f[x] : x \in S }
<1>1. T \in SUBSET Nat /\ T # {}
  OBVIOUS
<1>2. PICK k \in T : \A y \in T : k <= y
  BY <1>1, LeastElement
<1>3. PICK x \in S : f[x] = k
  BY <1>2
<1> QED
  BY <1>2, <1>3

\* A table has a first entry, before all others of it,
LEMMA FirstIs ==
    ASSUME NEW U, Entries(U), NEW S \in SUBSET U, IsFiniteSet(S), S # {}
    PROVE  First(S) \in S /\ \A d \in S : d = First(S) \/ Before(First(S), d)
<1>1. PICK x \in S : \A y \in S : x.key <= y.key
  <2> DEFINE f == [e \in S |-> e.key]
  <2>1. f \in [S -> Nat]
    BY DEF Entries
  <2>2. \E x \in S : \A y \in S : f[x] <= f[y]
    BY <2>1, SmallestOf
  <2> QED
    BY <2>2
<1> DEFINE T == { e \in S : e.key = x.key }
<1>2. PICK e \in T : \A y \in T : y.seq <= e.seq
  <2> DEFINE f == [d \in T |-> d.seq]
  <2>1. f \in [T -> Nat] /\ T # {} /\ IsFiniteSet(T)
    BY FS_Subset DEF Entries
  <2>2. \E d \in T : \A y \in T : f[y] <= f[d]
    BY <2>1, LargestOf
  <2> QED
    BY <2>2
<1>3. e \in S /\ \A d \in S : ~Before(d, e)
  <2> SUFFICES ASSUME NEW d \in S, Before(d, e) PROVE FALSE
    BY <1>2
  <2>1. d.key \in Nat /\ d.seq \in Nat /\ e.key \in Nat /\ e.seq \in Nat /\ x.key \in Nat
    BY <1>2 DEF Entries
  <2>2. e.key = x.key /\ x.key <= d.key
    BY <1>1, <1>2
  <2>3. d \in T
    BY <2>1, <2>2 DEF Before
  <2> QED
    BY <1>2, <2>1, <2>3 DEF Before
<1>4. First(S) \in S /\ \A d \in S : ~Before(d, First(S))
  BY <1>3 DEF First
<1> QED
  BY <1>4, BeforeOrder

\* and a last one, after all others.
LEMMA FinalIs ==
    ASSUME NEW U, Entries(U), NEW S \in SUBSET U, IsFiniteSet(S), S # {}
    PROVE  Final(S) \in S /\ \A d \in S : d = Final(S) \/ Before(d, Final(S))
<1>1. PICK x \in S : \A y \in S : y.key <= x.key
  <2> DEFINE f == [e \in S |-> e.key]
  <2>1. f \in [S -> Nat]
    BY DEF Entries
  <2>2. \E x \in S : \A y \in S : f[y] <= f[x]
    BY <2>1, LargestOf
  <2> QED
    BY <2>2
<1> DEFINE T == { e \in S : e.key = x.key }
<1>2. PICK e \in T : \A y \in T : e.seq <= y.seq
  <2> DEFINE f == [d \in T |-> d.seq]
  <2>1. f \in [T -> Nat] /\ T # {}
    BY DEF Entries
  <2>2. \E d \in T : \A y \in T : f[d] <= f[y]
    BY <2>1, SmallestOf
  <2> QED
    BY <2>2
<1>3. e \in S /\ \A d \in S : ~Before(e, d)
  <2> SUFFICES ASSUME NEW d \in S, Before(e, d) PROVE FALSE
    BY <1>2
  <2>1. d.key \in Nat /\ d.seq \in Nat /\ e.key \in Nat /\ e.seq \in Nat /\ x.key \in Nat
    BY <1>2 DEF Entries
  <2>2. e.key = x.key /\ d.key <= x.key
    BY <1>1, <1>2
  <2>3. d \in T
    BY <2>1, <2>2 DEF Before
  <2> QED
    BY <1>2, <2>1, <2>3 DEF Before
<1>4. Final(S) \in S /\ \A d \in S : ~Before(Final(S), d)
  BY <1>3 DEF Final
<1> QED
  BY <1>4, BeforeOrder

\* All entries of A come before those of B.
Apart(A, B) == \A a \in A, b \in B : Before(a, b)

\* What Version's checks compare is only the ends.
LEMMA ApartIs ==
    ASSUME NEW U, Entries(U), NEW A \in SUBSET U, NEW B \in SUBSET U, IsFiniteSet(A), IsFiniteSet(B), A # {}, B # {}
    PROVE  Before(Final(A), First(B)) <=> Apart(A, B)
<1>1. /\ Final(A) \in A /\ \A d \in A : d = Final(A) \/ Before(d, Final(A))
      /\ First(B) \in B /\ \A d \in B : d = First(B) \/ Before(First(B), d)
  BY FirstIs, FinalIs
<1>2. ASSUME Before(Final(A), First(B)), NEW a \in A, NEW b \in B PROVE Before(a, b)
  <2>1. Before(a, First(B))
    BY <1>1, <1>2, BeforeOrder
  <2> QED
    BY <2>1, <1>1, BeforeOrder
<1> QED
  BY <1>1, <1>2 DEF Apart

\* Entries in order.
LEMMA InOrderIs ==
    ASSUME NEW U, Entries(U), NEW S \in SUBSET U, IsFiniteSet(S)
    PROVE  /\ InOrder(S) \in Seq(S) /\ \A x \in S : \E i \in 1 .. Len(InOrder(S)) : InOrder(S)[i] = x
           /\ \A i, j \in 1 .. Len(InOrder(S)) : i < j => Before(InOrder(S)[i], InOrder(S)[j])
<1> DEFINE least == [s \in SUBSET S |-> First(s)]
<1>1. \A s \in SUBSET S : s # {} => First(s) \in s /\ \A d \in s : d = First(s) \/ Before(First(s), d)
  <2> SUFFICES ASSUME NEW s \in SUBSET S, s # {}
               PROVE  First(s) \in s /\ \A d \in s : d = First(s) \/ Before(First(s), d)
    OBVIOUS
  <2>1. s \in SUBSET U /\ IsFiniteSet(s)
    BY FS_Subset
  <2> QED
    BY <2>1, FirstIs
<1>2. Chooses(least, S)
  BY <1>1 DEF Chooses
<1> DEFINE From(f) == f = [s \in SUBSET S |-> IF s = {} THEN <<>> ELSE LET x == First(s) IN <<x>> \o f[s \ {x}]]
<1>3. \A f : From(f) <=> Selects(f, S, least)
  BY DEF Selects
<1>4. \E f : From(f)
  BY <1>2, <1>3, SelectsExists
<1>5. PICK f : From(f) /\ InOrder(S) = f[S]
  <2>1. InOrder(S) = (CHOOSE f : From(f))[S]
    BY DEF InOrder, Selected
  <2> QED
    BY <1>4, <2>1
<1>8. Selects(f, S, least)
  BY <1>3, <1>5
<1> DEFINE r == InOrder(S)
<1>9. \A s \in SUBSET S : least[s] = First(s)
  OBVIOUS
<1>10. r = f[S]
  BY <1>5
<1> HIDE DEF r, From, least
<1>6. InTurn(r, S, least)
  BY <1>2, <1>8, <1>10, SelectedInTurn
<1>7. ASSUME NEW i \in 1 .. Len(r), NEW j \in 1 .. Len(r), i < j PROVE Before(r[i], r[j])
  <2>1. PICK s \in SUBSET S : s # {} /\ r[i] = least[s] /\ \A k \in i + 1 .. Len(r) : r[k] \in s /\ r[k] # r[i]
    BY <1>6 DEF InTurn
  <2>2. Len(r) \in Nat
    BY <1>6 DEF InTurn
  <2>3. r[j] \in s /\ r[j] # r[i]
    BY <1>7, <2>1, <2>2
  <2> QED
    BY <1>1, <1>9, <2>1, <2>3
<1> QED
  BY <1>6, <1>7 DEF InTurn, r

-----------------------------------------------------------------------------
(* Tables *)

\* Finitely many, none without an entry.
Tables(fs, U) ==
  /\ Entries(U) /\ IsFiniteSet(U) /\ IsFiniteSet(fs)
  /\ \A f \in fs : f.entries \in SUBSET U /\ f.entries # {}

\* Smallest and largest of a FileMetaData are entries of its table.
LEMMA TableEnds ==
    ASSUME NEW U, NEW fs, Tables(fs, U), NEW f \in fs
    PROVE  /\ First(f.entries) \in f.entries
           /\ \A d \in f.entries : d = First(f.entries) \/ Before(First(f.entries), d)
           /\ Final(f.entries) \in f.entries
           /\ \A d \in f.entries : d = Final(f.entries) \/ Before(d, Final(f.entries))
           /\ IsFiniteSet(f.entries)
<1>1. f.entries \in SUBSET U /\ f.entries # {} /\ IsFiniteSet(f.entries) /\ Entries(U)
  BY FS_Subset DEF Tables
<1> QED
  BY <1>1, FirstIs, FinalIs

\* The tables of a level: one after the other.
InLine(fs) == \A f, g \in fs : f # g => Apart(f.entries, g.entries) \/ Apart(g.entries, f.entries)

\* Sorted has each table of a set once, and those of a line one after the other.
LEMMA SortedIs ==
    ASSUME NEW U, NEW S, Tables(S, U)
    PROVE  /\ Sorted(S) \in Seq(S) /\ \A x \in S : \E i \in 1 .. Len(Sorted(S)) : Sorted(S)[i] = x
           /\ InLine(S) => \A i, j \in 1 .. Len(Sorted(S)) :
                             i < j => Apart(Sorted(S)[i].entries, Sorted(S)[j].entries)
<1> DEFINE Least(s) == CHOOSE f \in s : \A g \in s : ~Before(First(g.entries), First(f.entries))
           least == [s \in SUBSET S |-> Least(s)]
<1>0. Entries(U) /\ IsFiniteSet(U) /\ IsFiniteSet(S)
  BY DEF Tables
<1>1. \A s \in SUBSET S : s # {} => Least(s) \in s /\ \A g \in s : ~Before(First(g.entries), First(Least(s).entries))
  <2> SUFFICES ASSUME NEW s \in SUBSET S, s # {}
               PROVE  \E f \in s : \A g \in s : ~Before(First(g.entries), First(f.entries))
    OBVIOUS
  <2> DEFINE T == { First(f.entries) : f \in s }
  <2>1. \A f \in s : First(f.entries) \in U
    BY TableEnds DEF Tables
  <2>2. T \in SUBSET U /\ T # {} /\ IsFiniteSet(T)
    BY <1>0, <2>1, FS_Subset
  <2>3. First(T) \in T /\ \A d \in T : d = First(T) \/ Before(First(T), d)
    BY <1>0, <2>2, FirstIs
  <2>4. PICK f \in s : First(f.entries) = First(T)
    BY <2>3
  <2>5. ASSUME NEW g \in s PROVE ~Before(First(g.entries), First(f.entries))
    <3>1. First(g.entries) \in T
      OBVIOUS
    <3> HIDE DEF T
    <3>2. First(g.entries) = First(f.entries) \/ Before(First(f.entries), First(g.entries))
      BY <2>3, <2>4, <3>1
    <3> QED
      BY <1>0, <2>1, <3>2, BeforeOrder
  <2> QED
    BY <2>5
<1>2. Chooses(least, S)
  BY <1>1 DEF Chooses
<1> HIDE DEF Least
<1> DEFINE From(f) == f = [s \in SUBSET S |-> IF s = {} THEN <<>> ELSE LET x == Least(s) IN <<x>> \o f[s \ {x}]]
<1>3. \A f : From(f) <=> Selects(f, S, least)
  BY DEF Selects
<1>4. \E f : From(f)
  BY <1>0, <1>2, <1>3, SelectsExists
<1>5. PICK f : From(f) /\ Sorted(S) = f[S]
  <2>1. Sorted(S) = (CHOOSE f : From(f))[S]
    BY DEF Sorted, Selected, Least
  <2> QED
    BY <1>4, <2>1
<1>8. Selects(f, S, least)
  BY <1>3, <1>5
<1> DEFINE r == Sorted(S)
<1>9. \A s \in SUBSET S : least[s] = Least(s)
  OBVIOUS
<1>10. r = f[S]
  BY <1>5
<1> HIDE DEF r, From, least
<1>6. InTurn(r, S, least)
  BY <1>0, <1>2, <1>8, <1>10, SelectedInTurn
<1>7. ASSUME InLine(S), NEW i \in 1 .. Len(r), NEW j \in 1 .. Len(r), i < j
      PROVE  Apart(r[i].entries, r[j].entries)
  <2>1. PICK s \in SUBSET S : s # {} /\ r[i] = least[s] /\ \A k \in i + 1 .. Len(r) : r[k] \in s /\ r[k] # r[i]
    BY <1>6 DEF InTurn
  <2>2. Len(r) \in Nat
    BY <1>6 DEF InTurn
  <2>3. r[j] \in s /\ r[j] # r[i]
    BY <1>7, <2>1, <2>2
  <2>4. r[i] \in S /\ r[j] \in S /\ ~Before(First(r[j].entries), First(r[i].entries))
    BY <1>1, <1>9, <2>1, <2>3
  <2>5. ~Apart(r[j].entries, r[i].entries)
    BY <2>4, TableEnds DEF Apart
  <2> QED
    BY <1>7, <2>3, <2>4, <2>5 DEF InLine
<1> QED
  BY <1>6, <1>7 DEF InTurn, r

-----------------------------------------------------------------------------
(* The search of a level *)

\* The binary search: what recursion defines, for n places of which those in ahead are passed.
Searches(search, n, ahead) ==
  search = [r \in (0 .. n) \X (0 .. n) |->
              IF r[1] >= r[2] THEN r[2]
              ELSE IF (r[1] + r[2]) \div 2 + 1 \in ahead THEN search[<<(r[1] + r[2]) \div 2 + 1, r[2]>>]
              ELSE search[<<r[1], (r[1] + r[2]) \div 2>>]]

\* The middle FindFile looks at lies in the range.
LEMMA Halves ==
    ASSUME NEW l \in Nat, NEW r \in Nat, l < r
    PROVE  (l + r) \div 2 \in l .. r - 1
  OBVIOUS

\* There is such a function, as each half is shorter.
LEMMA SearchesExists ==
    ASSUME NEW n \in Nat, NEW ahead
    PROVE  \E f : Searches(f, n, ahead)
<1> DEFINE V == 0 .. n
           D == V \X V
           Mid(r) == (r[1] + r[2]) \div 2
           m == [r \in D |-> IF r[1] >= r[2] THEN 0 ELSE r[2] - r[1]]
           stop == { r \in D : r[1] >= r[2] }
           next == [r \in D |-> IF Mid(r) + 1 \in ahead THEN <<Mid(r) + 1, r[2]>> ELSE <<r[1], Mid(r)>>]
           b == [r \in stop |-> r[2]]
           F == [r \in D |-> [v \in V |-> v]]
<1>1. RecursionOn(D, V, m, stop, next, b, F)
  <2>1. m \in [D -> Nat]
    OBVIOUS
  <2>2. \A r \in D : r \in stop => b[r] \in V
    OBVIOUS
  <2>3. ASSUME NEW r \in D, r \notin stop
        PROVE  next[r] \in D /\ m[next[r]] < m[r] /\ F[r] \in [V -> V]
    <3> DEFINE k == Mid(r)
    <3>1. r[1] \in 0 .. n /\ r[2] \in 0 .. n /\ r[1] < r[2] /\ m[r] = r[2] - r[1]
      BY <2>3
    <3>2. k \in r[1] .. r[2] - 1
      BY <3>1, Halves
    <3> HIDE DEF k
    <3>3. CASE k + 1 \in ahead
      <4>1. next[r] = <<k + 1, r[2]>>
        BY <3>3 DEF k
      <4>2. <<k + 1, r[2]>> \in D /\ m[<<k + 1, r[2]>>] < m[r]
        BY <3>1, <3>2
      <4> QED
        BY <4>1, <4>2
    <3>4. CASE k + 1 \notin ahead
      <4>1. next[r] = <<r[1], k>>
        BY <3>4 DEF k
      <4>2. <<r[1], k>> \in D /\ m[<<r[1], k>>] < m[r]
        BY <3>1, <3>2
      <4> QED
        BY <4>1, <4>2
    <3> QED
      BY <3>3, <3>4
  <2> HIDE DEF m, stop, next, b, F, D, V
  <2> QED
    BY <2>1, <2>2, <2>3 DEF RecursionOn
<1> HIDE DEF m, stop, next, b, F
<1>2. PICK f : Solves(f, D, V, stop, next, b, F)
  BY <1>1, RecursionExists
<1>3. ASSUME NEW r \in D
      PROVE  f[r] = IF r[1] >= r[2] THEN r[2]
                    ELSE IF Mid(r) + 1 \in ahead THEN f[<<Mid(r) + 1, r[2]>>] ELSE f[<<r[1], Mid(r)>>]
  <2>1. CASE r[1] >= r[2]
    BY <1>2, <2>1 DEF Solves, stop, b
  <2>2. CASE ~(r[1] >= r[2])
    <3>1. r \notin stop
      BY <2>2 DEF stop
    <3>2. next[r] \in D /\ f[next[r]] \in V
      BY <1>1, <1>2, <3>1 DEF Solves, RecursionOn
    <3>3. f[r] = f[next[r]]
      BY <1>2, <3>1, <3>2 DEF Solves, F
    <3>4. next[r] = IF Mid(r) + 1 \in ahead THEN <<Mid(r) + 1, r[2]>> ELSE <<r[1], Mid(r)>>
      BY DEF next
    <3> HIDE DEF Mid
    <3> QED
      BY <2>2, <3>3, <3>4
  <2> QED
    BY <2>1, <2>2
<1>4. f = [r \in D |-> f[r]]
  BY <1>2 DEF Solves
<1>5. f = [r \in D |-> IF r[1] >= r[2] THEN r[2]
                       ELSE IF Mid(r) + 1 \in ahead THEN f[<<Mid(r) + 1, r[2]>>] ELSE f[<<r[1], Mid(r)>>]]
  BY <1>3, <1>4
<1> QED
  BY <1>5 DEF Searches

\* If what is ahead are the first places, it finds the last of them.
FirstOnes(n, ahead) == \A i, j \in 1 .. n : i < j /\ j \in ahead => i \in ahead

\* By induction on the length of the range.
LEMMA SearchIs ==
    ASSUME NEW n \in Nat, NEW ahead, NEW f, Searches(f, n, ahead)
    PROVE  /\ f[<<0, n>>] \in 0 .. n
           /\ FirstOnes(n, ahead) =>
                /\ \A i \in 1 .. f[<<0, n>>] : i \in ahead
                /\ f[<<0, n>>] < n => f[<<0, n>>] + 1 \notin ahead
<1> DEFINE Found(l, r, x) == /\ x \in l .. r
                             /\ FirstOnes(n, ahead) => (\A i \in l + 1 .. x : i \in ahead) /\ (x < r => x + 1 \notin ahead)
           S == { k \in Nat : \A l, r \in 0 .. n : r - l = k => Found(l, r, f[<<l, r>>]) }
<1> DEFINE Half(l, r) == (l + r) \div 2
<1>1. \A l, r \in 0 .. n : f[<<l, r>>] =
         IF l >= r THEN r ELSE IF Half(l, r) + 1 \in ahead THEN f[<<Half(l, r) + 1, r>>] ELSE f[<<l, Half(l, r)>>]
  <2> SUFFICES ASSUME NEW l \in 0 .. n, NEW r \in 0 .. n
               PROVE  f[<<l, r>>] =
                         IF l >= r THEN r
                         ELSE IF (l + r) \div 2 + 1 \in ahead THEN f[<<(l + r) \div 2 + 1, r>>]
                         ELSE f[<<l, (l + r) \div 2>>]
    OBVIOUS
  <2> DEFINE p == <<l, r>>
  <2>1. p \in (0 .. n) \X (0 .. n) /\ p[1] = l /\ p[2] = r
    OBVIOUS
  <2> HIDE DEF p
  <2>2. f[p] = IF p[1] >= p[2] THEN p[2]
               ELSE IF (p[1] + p[2]) \div 2 + 1 \in ahead THEN f[<<(p[1] + p[2]) \div 2 + 1, p[2]>>]
               ELSE f[<<p[1], (p[1] + p[2]) \div 2>>]
    BY <2>1 DEF Searches
  <2>3. f[p] = IF l >= r THEN r
               ELSE IF (l + r) \div 2 + 1 \in ahead THEN f[<<(l + r) \div 2 + 1, r>>] ELSE f[<<l, (l + r) \div 2>>]
    BY <2>1, <2>2
  <2> QED
    BY <2>3 DEF p
<1> HIDE DEF Half
<1>2. ASSUME NEW k \in Nat, \A m \in Nat : m < k => m \in S PROVE k \in S
  <2> SUFFICES ASSUME NEW l \in 0 .. n, NEW r \in 0 .. n, r - l = k PROVE Found(l, r, f[<<l, r>>])
    OBVIOUS
  <2>0. f[<<l, r>>] =
         IF l >= r THEN r ELSE IF Half(l, r) + 1 \in ahead THEN f[<<Half(l, r) + 1, r>>] ELSE f[<<l, Half(l, r)>>]
    BY <1>1
  <2>1. CASE l >= r
    <3>1. f[<<l, r>>] = r /\ l = r
      BY <2>0, <2>1
    <3> QED
      BY <3>1
  <2>2. CASE l < r
    <3> DEFINE mid == Half(l, r)
    <3>1. mid \in l .. r - 1
      BY <2>2, Halves DEF Half
    <3>2. f[<<l, r>>] = IF mid + 1 \in ahead THEN f[<<mid + 1, r>>] ELSE f[<<l, mid>>]
      BY <2>0, <2>2
    <3> HIDE DEF mid
    <3>3. CASE mid + 1 \in ahead
      <4>1. r - (mid + 1) \in Nat /\ r - (mid + 1) < k /\ mid + 1 \in 0 .. n
        BY <3>1
      <4>2. Found(mid + 1, r, f[<<mid + 1, r>>])
        BY <1>2, <4>1
      <4> DEFINE x == f[<<mid + 1, r>>]
      <4>3. Found(mid + 1, r, x)
        BY <4>2
      <4> HIDE DEF x
      <4>4. FirstOnes(n, ahead) => \A i \in l + 1 .. x : i \in ahead
        <5> SUFFICES ASSUME FirstOnes(n, ahead), NEW i \in l + 1 .. x PROVE i \in ahead
          OBVIOUS
        <5>1. i \in 1 .. n /\ mid + 1 \in 1 .. n
          BY <3>1, <4>3
        <5>2. CASE i < mid + 1
          BY <5>1, <5>2, <3>3 DEF FirstOnes
        <5>3. CASE i >= mid + 1
          <6>1. i \in mid + 1 .. x
            BY <5>1, <5>3
          <6>2. i = mid + 1 \/ i \in mid + 1 + 1 .. x
            BY <6>1, <5>1
          <6> QED
            BY <6>2, <3>3, <4>3
        <5> QED
          BY <5>1, <5>2, <5>3
      <4>5. Found(l, r, x)
        BY <3>1, <4>3, <4>4
      <4> QED
        BY <3>2, <3>3, <4>5 DEF x
    <3>4. CASE mid + 1 \notin ahead
      <4>1. mid - l \in Nat /\ mid - l < k /\ mid \in 0 .. n
        BY <3>1
      <4>2. Found(l, mid, f[<<l, mid>>])
        BY <1>2, <4>1
      <4> DEFINE x == f[<<l, mid>>]
      <4>3. Found(l, mid, x)
        BY <4>2
      <4> HIDE DEF x
      <4>5. Found(l, r, x)
        BY <3>1, <3>4, <4>3
      <4> QED
        BY <3>2, <3>4, <4>5 DEF x
    <3> QED
      BY <3>3, <3>4
  <2> QED
    BY <2>1, <2>2
<1>3. n \in S
  <2> HIDE DEF S
  <2> QED
    BY <1>2, SetInduction
<1>4. Found(0, n, f[<<0, n>>])
  BY <1>3
<1> QED
  BY <1>4

\* FindFile.
Behind(fs, key) == { i \in 1 .. Len(fs) : Before(Final(fs[i].entries), key) }

\* FindFile is such a search, for what ends before the key.
LEMMA FindFileSearch ==
    ASSUME NEW S, NEW fs \in Seq(S), NEW key
    PROVE  \E f : Searches(f, Len(fs), Behind(fs, key)) /\ FindFile(fs, key) = 1 + f[<<0, Len(fs)>>]
<1> DEFINE n == Len(fs)
           ahead == Behind(fs, key)
           P(f) == f = [r \in (0 .. n) \X (0 .. n) |->
                      LET mid == (r[1] + r[2]) \div 2
                      IN  IF r[1] >= r[2] THEN r[2]
                          ELSE IF Before(Final(fs[mid + 1].entries), key) THEN f[<<mid + 1, r[2]>>]
                          ELSE f[<<r[1], mid>>]]
<1>0. n \in Nat
  OBVIOUS
<1>1. \A f : P(f) <=> Searches(f, n, ahead)
  <2>1. ASSUME NEW r \in (0 .. n) \X (0 .. n), ~(r[1] >= r[2])
        PROVE  (r[1] + r[2]) \div 2 + 1 \in ahead <=> Before(Final(fs[(r[1] + r[2]) \div 2 + 1].entries), key)
    <3>1. r[1] \in 0 .. n /\ r[2] \in 0 .. n /\ r[1] < r[2]
      BY <2>1
    <3>2. (r[1] + r[2]) \div 2 \in r[1] .. r[2] - 1
      BY <3>1, Halves
    <3>3. (r[1] + r[2]) \div 2 + 1 \in 1 .. n
      BY <3>1, <3>2
    <3> QED
      BY <3>3 DEF Behind
  <2> HIDE DEF ahead
  <2> QED
    BY <2>1 DEF Searches
<1>2. \E f : P(f)
  BY <1>0, <1>1, SearchesExists
<1>3. PICK f : P(f) /\ FindFile(fs, key) = 1 + f[<<0, n>>]
  <2>1. FindFile(fs, key) = 1 + (CHOOSE f : P(f))[<<0, n>>]
    BY DEF FindFile
  <2> HIDE DEF P
  <2> QED
    BY <1>2, <2>1
<1>4. Searches(f, n, ahead)
  BY <1>1, <1>3
<1> QED
  BY <1>3, <1>4

\* It finds a place of the sequence, or the one after its end.
LEMMA FindFileRange ==
    ASSUME NEW S, NEW fs \in Seq(S), NEW key
    PROVE  FindFile(fs, key) \in 1 .. Len(fs) + 1
<1> DEFINE n == Len(fs)
<1>1. PICK f : Searches(f, n, Behind(fs, key)) /\ FindFile(fs, key) = 1 + f[<<0, n>>]
  BY FindFileSearch
<1> DEFINE x == f[<<0, n>>]
<1>2. n \in Nat
  OBVIOUS
<1> HIDE DEF n
<1>3. x \in 0 .. n
  BY <1>1, <1>2, SearchIs
<1>4. FindFile(fs, key) = 1 + x
  BY <1>1
<1> HIDE DEF x
<1>5. FindFile(fs, key) \in 1 .. n + 1
  BY <1>2, <1>3, <1>4
<1> QED
  BY <1>5 DEF n

\* Of tables in line.
LEMMA FindFileIs ==
    ASSUME NEW U, NEW S, Tables(S, U), NEW fs \in Seq(S), NEW key, key.key \in Nat, key.seq \in Nat,
           \A i, j \in 1 .. Len(fs) : i < j => Apart(fs[i].entries, fs[j].entries)
    PROVE  /\ \A i \in 1 .. FindFile(fs, key) - 1 : Before(Final(fs[i].entries), key)
           /\ FindFile(fs, key) <= Len(fs) => ~Before(Final(fs[FindFile(fs, key)].entries), key)
<1> DEFINE n == Len(fs)
           ahead == Behind(fs, key)
<1>0. n \in Nat
  OBVIOUS
<1>1. PICK f : Searches(f, n, ahead) /\ FindFile(fs, key) = 1 + f[<<0, n>>]
  BY FindFileSearch
<1>5. FirstOnes(n, ahead)
  <2> SUFFICES ASSUME NEW i \in 1 .. n, NEW j \in 1 .. n, i < j, j \in ahead PROVE i \in ahead
    BY DEF FirstOnes
  <2>1. fs[i] \in S /\ fs[j] \in S
    OBVIOUS
  <2>2. Final(fs[i].entries) \in fs[i].entries /\ Final(fs[j].entries) \in fs[j].entries
    BY <2>1, TableEnds
  <2>3. Before(Final(fs[i].entries), Final(fs[j].entries))
    BY <2>2 DEF Apart
  <2>4. /\ Final(fs[i].entries).key \in Nat /\ Final(fs[i].entries).seq \in Nat
        /\ Final(fs[j].entries).key \in Nat /\ Final(fs[j].entries).seq \in Nat
    BY <2>1, <2>2 DEF Tables, Entries
  <2>5. Before(Final(fs[j].entries), key)
    BY DEF Behind
  <2>6. Before(Final(fs[i].entries), key)
    BY <2>3, <2>4, <2>5 DEF Before
  <2> QED
    BY <2>6 DEF Behind
<1> DEFINE x == f[<<0, n>>]
<1>6. /\ x \in 0 .. n
      /\ \A i \in 1 .. x : i \in ahead
      /\ x < n => x + 1 \notin ahead
  <2> HIDE DEF ahead, n
  <2> QED
    BY <1>0, <1>1, <1>5, SearchIs
<1>7. FindFile(fs, key) = 1 + x
  BY <1>1
<1>8. x < n => x + 1 \in 1 .. n
  BY <1>0, <1>6
<1> HIDE DEF x
<1> QED
  BY <1>0, <1>6, <1>7, <1>8 DEF Behind

-----------------------------------------------------------------------------
(* Lookups and scores *)

\* The size of tables.
LEMMA SizeIs ==
    ASSUME NEW U, NEW S, Tables(S, U)
    PROVE  Size(S) \in Nat /\ Size({}) = 0
<1> DEFINE P(f, T) == f = [s \in SUBSET T |-> IF s = {} THEN 0
                            ELSE LET x == CHOOSE x \in s : TRUE IN Cardinality(x.entries) + f[s \ {x}]]
<1>1. ASSUME NEW T, Tables(T, U) PROVE (\E f : P(f, T)) /\ \A f : P(f, T) => f[T] \in Nat
  <2> DEFINE D == SUBSET T
             V == Nat
             m == [s \in D |-> Cardinality(s)]
             stop == {{}}
             next == [s \in D |-> s \ {CHOOSE x \in s : TRUE}]
             b == [s \in stop |-> 0]
             F == [s \in D |-> [v \in V |-> Cardinality((CHOOSE x \in s : TRUE).entries) + v]]
  <2>0. IsFiniteSet(T)
    BY <1>1 DEF Tables
  <2>1. RecursionOn(D, V, m, stop, next, b, F)
    <3>1. m \in [D -> Nat]
      BY <2>0, FS_Subset, FS_CardinalityType
    <3>2. \A s \in D : s \in stop => b[s] \in V
      OBVIOUS
    <3>3. ASSUME NEW s \in D, s \notin stop
          PROVE  next[s] \in D /\ m[next[s]] < m[s] /\ F[s] \in [V -> V]
      <4> DEFINE x == CHOOSE x \in s : TRUE
      <4>1. x \in s /\ x \in T
        BY <3>3
      <4>2. IsFiniteSet(s)
        BY <2>0, FS_Subset
      <4>3. Cardinality(s) \in Nat
        BY <4>2, FS_CardinalityType
      <4>4. Cardinality(s \ {x}) = Cardinality(s) - 1
        BY <4>1, <4>2, FS_RemoveElement
      <4>5. IsFiniteSet(x.entries)
        BY <1>1, <4>1, TableEnds
      <4>6. Cardinality(x.entries) \in Nat
        BY <4>5, FS_CardinalityType
      <4>7. next[s] = s \ {x} /\ next[s] \in D /\ F[s] = [v \in V |-> Cardinality(x.entries) + v]
        OBVIOUS
      <4>8. m[next[s]] = Cardinality(s \ {x}) /\ m[s] = Cardinality(s)
        BY <4>7
      <4> HIDE DEF x, m, next, F
      <4>9. m[next[s]] < m[s]
        BY <4>3, <4>4, <4>8
      <4>10. F[s] \in [V -> V]
        BY <4>6, <4>7
      <4> QED
        BY <4>7, <4>9, <4>10
    <3> HIDE DEF m, stop, next, b, F, V, D
    <3> QED
      BY <3>1, <3>2, <3>3 DEF RecursionOn
  <2> HIDE DEF m, stop, next, b, F
  <2>2. PICK f : Solves(f, D, V, stop, next, b, F)
    BY <2>1, RecursionExists
  <2>3. ASSUME NEW s \in D
        PROVE  f[s] = IF s = {} THEN 0
                      ELSE Cardinality((CHOOSE x \in s : TRUE).entries) + f[s \ {CHOOSE x \in s : TRUE}]
    <3>1. CASE s = {}
      BY <2>2, <3>1 DEF Solves, stop, b
    <3>2. CASE s # {}
      <4>1. s \notin stop /\ next[s] = s \ {CHOOSE x \in s : TRUE} /\ next[s] \in D
        BY <3>2 DEF stop, next
      <4>2. f[next[s]] \in V
        BY <2>2, <4>1 DEF Solves
      <4>3. F[s][f[next[s]]] = Cardinality((CHOOSE x \in s : TRUE).entries) + f[next[s]]
        BY <4>2 DEF F
      <4> QED
        BY <2>2, <3>2, <4>1, <4>3 DEF Solves
    <3> QED
      BY <3>1, <3>2
  <2>4. f \in [D -> V]
    BY <2>2 DEF Solves
  <2>5. P(f, T)
    BY <2>3, <2>4
  <2>6. ASSUME NEW g, P(g, T) PROVE g[T] \in Nat
    <3>1. \A s \in D : s \in stop => g[s] \in V
      BY <2>6 DEF stop
    <3>2. ASSUME NEW s \in D, s \notin stop
          PROVE  next[s] \in D /\ m[next[s]] < m[s] /\ (g[next[s]] \in V => g[s] \in V)
      <4>1. next[s] \in D /\ m[next[s]] < m[s] /\ F[s] \in [V -> V]
        BY <2>1, <3>2 DEF RecursionOn
      <4>2. g[s] = Cardinality((CHOOSE x \in s : TRUE).entries) + g[next[s]]
        BY <2>6, <3>2 DEF stop, next
      <4>3. g[next[s]] \in V => F[s][g[next[s]]] = Cardinality((CHOOSE x \in s : TRUE).entries) + g[next[s]]
        BY DEF F
      <4> HIDE DEF P, V
      <4> QED
        BY <4>1, <4>2, <4>3
    <3>3. m \in [D -> Nat]
      BY <2>1 DEF RecursionOn
    <3>4. Keeps(D, V, m, stop, next, g)
      <4> HIDE DEF P, V, D
      <4> QED
        BY <3>1, <3>2, <3>3 DEF Keeps
    <3>5. T \in D
      OBVIOUS
    <3> HIDE DEF P, D
    <3> QED
      BY <3>4, <3>5, RecursionStays
  <2> HIDE DEF P
  <2> QED
    BY <2>5, <2>6
<1>2. \A T : Size(T) = (CHOOSE f : P(f, T))[T]
  BY DEF Size, MapThenSumSet, MapThenFoldSet
<1>3. Size(S) \in Nat
  <2> HIDE DEF P
  <2> QED
    BY <1>1, <1>2
<1>4. Tables({}, U)
  BY FS_EmptySet DEF Tables
<1>5. \A f : P(f, {}) => f[{}] = 0
  OBVIOUS
<1>6. Size({}) = 0
  <2> HIDE DEF P
  <2> QED
    BY <1>1, <1>2, <1>4, <1>5
<1> QED
  BY <1>3, <1>6

\* Range.
LEMMA RangeHas ==
    ASSUME NEW S, NEW q \in Seq(S)
    PROVE  /\ \A i \in 1 .. Len(q) : q[i] \in Range(q)
           /\ \A x \in Range(q) : x \in S /\ \E i \in 1 .. Len(q) : q[i] = x
  BY DEF Range

LEMMA RangeOfBoth ==
    ASSUME NEW S, NEW p \in Seq(S), NEW q \in Seq(S)
    PROVE  p \o q \in Seq(S) /\ Range(p \o q) = Range(p) \cup Range(q)
<1> DEFINE m == Len(p)
           n == Len(q)
           r == p \o q
<1>1. /\ m \in Nat /\ n \in Nat /\ Len(r) = m + n /\ r \in Seq(S)
      /\ \A i \in 1 .. m : r[i] = p[i] /\ i \in 1 .. m + n
      /\ \A i \in m + 1 .. m + n : r[i] = q[i - m] /\ i - m \in 1 .. n
      /\ \A i \in 1 .. n : r[m + i] = q[i] /\ m + i \in 1 .. m + n
      /\ \A i \in 1 .. m + n : i \in 1 .. m \/ i \in m + 1 .. m + n
  OBVIOUS
<1>2. Range(p) = { p[i] : i \in 1 .. m } /\ Range(q) = { q[i] : i \in 1 .. n } /\ Range(r) = { r[i] : i \in 1 .. m + n }
  BY <1>1 DEF Range
<1> HIDE DEF r, m, n
<1>3. \A x \in Range(r) : x \in Range(p) \/ x \in Range(q)
  BY <1>1, <1>2
<1>4. \A x \in Range(p) : x \in Range(r)
  BY <1>1, <1>2
<1>5. \A x \in Range(q) : x \in Range(r)
  BY <1>1, <1>2
<1> QED
  BY <1>1, <1>3, <1>4, <1>5 DEF r

\* FlattenSeq, by the function it is made with.
LEMMA FlattenSteps ==
    ASSUME NEW S, NEW seqs \in Seq(Seq(S))
    PROVE  \E f : /\ \A i \in 1 .. Len(seqs) : f[i] = IF i = 1 THEN seqs[i] ELSE f[i - 1] \o seqs[i]
                  /\ FlattenSeq(seqs) = IF Len(seqs) = 0 THEN <<>> ELSE f[Len(seqs)]
<1> DEFINE n == Len(seqs)
           P(f) == f = [i \in 1 .. n |-> IF i = 1 THEN seqs[i] ELSE f[i - 1] \o seqs[i]]
           D == 1 .. n
           V == Seq(S)
           m == [i \in D |-> i]
           stop == {1}
           next == [i \in D |-> i - 1]
           b == [i \in stop |-> seqs[i]]
           F == [i \in D |-> [v \in V |-> v \o seqs[i]]]
<1>0. n \in Nat /\ \A i \in D : seqs[i] \in V
  OBVIOUS
<1>1. RecursionOn(D, V, m, stop, next, b, F)
  <2>1. m \in [D -> Nat]
    OBVIOUS
  <2>2. \A i \in D : i \in stop => b[i] \in V
    OBVIOUS
  <2>3. ASSUME NEW i \in D, i \notin stop PROVE next[i] \in D /\ m[next[i]] < m[i] /\ F[i] \in [V -> V]
    <3>1. next[i] = i - 1 /\ i - 1 \in D /\ m[i - 1] = i - 1 /\ m[i] = i
      BY <2>3
    <3>2. \A v \in V : v \o seqs[i] \in V
      BY <1>0
    <3>3. F[i] = [v \in V |-> v \o seqs[i]]
      OBVIOUS
    <3>4. F[i] \in [V -> V]
      BY <3>2, <3>3
    <3>5. i - 1 < i
      BY <3>1
    <3> HIDE DEF m, next, F, D, V
    <3> QED
      BY <3>1, <3>4, <3>5
  <2> HIDE DEF m, stop, next, b, F, V, D
  <2> QED
    BY <2>1, <2>2, <2>3 DEF RecursionOn
<1> HIDE DEF m, stop, next, b, F
<1>2. PICK f : Solves(f, D, V, stop, next, b, F)
  BY <1>1, RecursionExists
<1>3. ASSUME NEW i \in D PROVE f[i] = IF i = 1 THEN seqs[i] ELSE f[i - 1] \o seqs[i]
  <2>1. CASE i = 1
    BY <1>2, <2>1 DEF Solves, stop, b
  <2>2. CASE i # 1
    <3>1. i \notin stop /\ next[i] = i - 1 /\ next[i] \in D
      BY <2>2 DEF stop, next
    <3>2. f[next[i]] \in V
      BY <1>2, <3>1 DEF Solves
    <3>3. F[i][f[next[i]]] = f[next[i]] \o seqs[i]
      BY <3>2 DEF F
    <3> HIDE DEF D, V
    <3> QED
      BY <1>2, <2>2, <3>1, <3>3 DEF Solves
  <2> QED
    BY <2>1, <2>2
<1>4. f \in [D -> V]
  BY <1>2 DEF Solves
<1>5. P(f)
  BY <1>3, <1>4
<1> DEFINE g == CHOOSE x : P(x)
<1>6. P(g)
  BY <1>5
<1>7. \A i \in 1 .. n : g[i] = IF i = 1 THEN seqs[i] ELSE g[i - 1] \o seqs[i]
  BY <1>6
<1>8. FlattenSeq(seqs) = IF n = 0 THEN <<>> ELSE g[n]
  BY <1>0 DEF FlattenSeq
<1> HIDE DEF g, P
<1> QED
  BY <1>7, <1>8

\* A sequence R leads from each element to those after it in.
Runs(q, R) == \A i, j \in 1 .. Len(q) : i < j => <<q[i], q[j]>> \in R

\* One such sequence behind another.
LEMMA RunsOn ==
    ASSUME NEW S, NEW R, NEW p \in Seq(S), NEW q \in Seq(S), Runs(p, R), Runs(q, R),
           \A i \in 1 .. Len(p), j \in 1 .. Len(q) : <<p[i], q[j]>> \in R
    PROVE  Runs(p \o q, R)
<1> DEFINE m == Len(p)
           n == Len(q)
           r == p \o q
<1>1. /\ m \in Nat /\ n \in Nat /\ Len(r) = m + n
      /\ \A i \in 1 .. m : r[i] = p[i]
      /\ \A i \in m + 1 .. m + n : r[i] = q[i - m] /\ i - m \in 1 .. n
  OBVIOUS
<1> SUFFICES ASSUME NEW i \in 1 .. m + n, NEW j \in 1 .. m + n, i < j PROVE <<r[i], r[j]>> \in R
  BY <1>1 DEF Runs
<1> HIDE DEF r
<1>2. CASE j <= m
  <2>1. i \in 1 .. m /\ j \in 1 .. m
    BY <1>1, <1>2
  <2>2. <<p[i], p[j]>> \in R
    BY <2>1 DEF Runs
  <2> QED
    BY <1>1, <2>1, <2>2
<1>3. CASE i <= m /\ j > m
  <2>1. i \in 1 .. m /\ j \in m + 1 .. m + n
    BY <1>1, <1>3
  <2>2. j - m \in 1 .. n /\ r[j] = q[j - m] /\ r[i] = p[i]
    BY <1>1, <2>1
  <2> QED
    BY <2>1, <2>2
<1>4. CASE i > m
  <2>1. i \in m + 1 .. m + n /\ j \in m + 1 .. m + n
    BY <1>1, <1>4
  <2>2. /\ i - m \in 1 .. n /\ r[i] = q[i - m]
        /\ j - m \in 1 .. n /\ r[j] = q[j - m]
    BY <1>1, <2>1
  <2>3. i - m < j - m
    BY <1>1
  <2>4. <<q[i - m], q[j - m]>> \in R
    BY <2>2, <2>3 DEF Runs
  <2> QED
    BY <2>2, <2>4
<1> QED
  BY <1>1, <1>2, <1>3, <1>4

\* FlattenSeq makes one sequence of several, with all of their elements.
LEMMA FlattenSeqIs ==
    ASSUME NEW S, NEW seqs \in Seq(Seq(S))
    PROVE  /\ FlattenSeq(seqs) \in Seq(S)
           /\ \A a \in 1 .. Len(seqs) : Range(seqs[a]) \subseteq Range(FlattenSeq(seqs))
           /\ \A x \in Range(FlattenSeq(seqs)) : \E a \in 1 .. Len(seqs) : x \in Range(seqs[a])
           /\ \A R : /\ \A a \in 1 .. Len(seqs) : Runs(seqs[a], R)
                     /\ \A a, b \in 1 .. Len(seqs) : a < b =>
                          \A x \in Range(seqs[a]), y \in Range(seqs[b]) : <<x, y>> \in R
                     => Runs(FlattenSeq(seqs), R)
<1> DEFINE n == Len(seqs)
           Lead(R) == /\ \A a \in 1 .. n : Runs(seqs[a], R)
                      /\ \A a, b \in 1 .. n : a < b =>
                           \A x \in Range(seqs[a]), y \in Range(seqs[b]) : <<x, y>> \in R
           Flat(r, i) == /\ r \in Seq(S)
                         /\ \A a \in 1 .. i : Range(seqs[a]) \subseteq Range(r)
                         /\ \A x \in Range(r) : \E a \in 1 .. i : x \in Range(seqs[a])
                         /\ \A R : Lead(R) => Runs(r, R)
<1>1. PICK f : /\ \A i \in 1 .. n : f[i] = IF i = 1 THEN seqs[i] ELSE f[i - 1] \o seqs[i]
               /\ FlattenSeq(seqs) = IF n = 0 THEN <<>> ELSE f[n]
  BY FlattenSteps
<1>2. n \in Nat /\ \A i \in 1 .. n : seqs[i] \in Seq(S)
  OBVIOUS
<1> DEFINE G == { i \in Nat : i \in 1 .. n => Flat(f[i], i) }
<1> HIDE DEF n, Lead, Flat, G
<1>3. 0 \in G
  BY <1>2 DEF G
<1>4. ASSUME NEW k \in Nat, k \in G, k + 1 \in 1 .. n PROVE Flat(f[k + 1], k + 1)
  <2>1. CASE k = 0
    <3>1. f[1] = seqs[1] /\ 1 \in 1 .. n
      BY <1>1, <1>4, <2>1
    <3>2. f[1] \in Seq(S)
      BY <1>2, <3>1
    <3>3. \A a \in 1 .. 1 : a = 1
      OBVIOUS
    <3>4. \A R : Lead(R) => Runs(f[1], R)
      BY <3>1 DEF Lead
    <3>5. Flat(f[1], 1)
      BY <3>1, <3>2, <3>3, <3>4 DEF Flat
    <3> QED
      BY <2>1, <3>5
  <2>2. CASE k # 0
    <3> DEFINE i == k + 1
    <3> HIDE DEF i
    <3>1. /\ k \in 1 .. n /\ i \in 1 .. n /\ k < i
          /\ \A a \in 1 .. i : a \in 1 .. k \/ a = i
          /\ 1 .. k \subseteq 1 .. i /\ i \in 1 .. i
          /\ \A a \in 1 .. k : a \in 1 .. n /\ a < i
          /\ i - 1 = k /\ i # 1
      BY <1>2, <1>4, <2>2 DEF i
    <3>2. f[i] = f[k] \o seqs[i]
      BY <1>1, <3>1
    <3>3. Flat(f[k], k)
      BY <1>4, <3>1 DEF G
    <3> DEFINE p == f[k]
               q == seqs[i]
    <3>4. /\ p \in Seq(S) /\ q \in Seq(S)
          /\ \A a \in 1 .. k : Range(seqs[a]) \subseteq Range(p)
          /\ \A x \in Range(p) : \E a \in 1 .. k : x \in Range(seqs[a])
          /\ \A R : Lead(R) => Runs(p, R)
      BY <1>2, <3>1, <3>3 DEF Flat
    <3>5. f[i] = p \o q /\ q = seqs[i]
      BY <3>2
    <3> HIDE DEF p, q
    <3>6. Range(p \o q) = Range(p) \cup Range(q) /\ p \o q \in Seq(S)
      BY <3>4, RangeOfBoth
    <3>7. ASSUME NEW R, Lead(R) PROVE Runs(p \o q, R)
      <4>1. Runs(p, R) /\ Runs(q, R)
        BY <3>1, <3>4, <3>5, <3>7 DEF Lead
      <4>2. ASSUME NEW x \in 1 .. Len(p), NEW y \in 1 .. Len(q) PROVE <<p[x], q[y]>> \in R
        <5>1. p[x] \in Range(p) /\ q[y] \in Range(seqs[i])
          BY <3>4, <3>5, RangeHas
        <5>2. PICK a \in 1 .. k : p[x] \in Range(seqs[a])
          BY <3>4, <5>1
        <5>3. a \in 1 .. n /\ i \in 1 .. n /\ a < i
          BY <3>1
        <5> QED
          BY <3>7, <5>1, <5>2, <5>3 DEF Lead
      <4> QED
        BY <3>4, <4>1, <4>2, RunsOn
    <3>8. \A a \in 1 .. i : Range(seqs[a]) \subseteq Range(p \o q)
      BY <3>1, <3>4, <3>5, <3>6
    <3>9. \A x \in Range(p \o q) : \E a \in 1 .. i : x \in Range(seqs[a])
      BY <3>1, <3>4, <3>5, <3>6
    <3>10. Flat(f[i], i)
      BY <3>5, <3>6, <3>7, <3>8, <3>9 DEF Flat
    <3> QED
      BY <3>10 DEF i
  <2> QED
    BY <2>1, <2>2
<1>5. \A k \in Nat : k \in G => k + 1 \in G
  BY <1>4 DEF G
<1>6. Nat \subseteq G
  BY <1>3, <1>5, StepInduction
<1>7. CASE n = 0
  <2>1. FlattenSeq(seqs) = <<>> /\ <<>> \in Seq(S)
    BY <1>1, <1>7
  <2>2. (\A R : Runs(<<>>, R)) /\ Range(<<>>) = {}
    BY DEF Runs, Range
  <2> QED
    BY <1>7, <2>1, <2>2 DEF n
<1>8. CASE n # 0
  <2>1. n \in 1 .. n /\ n \in Nat
    BY <1>2, <1>8
  <2>2. Flat(f[n], n) /\ FlattenSeq(seqs) = f[n]
    BY <1>1, <1>6, <1>8, <2>1 DEF G
  <2> QED
    BY <2>2 DEF n, Lead, Flat
<1> QED
  BY <1>7, <1>8

\* ByNumber has each table of a set once, the older before the newer.
LEMMA ByNumberIs ==
    ASSUME NEW S, IsFiniteSet(S), \A f \in S : f.number \in Nat
    PROVE  /\ ByNumber(S) \in Seq(S) /\ \A x \in S : \E i \in 1 .. Len(ByNumber(S)) : ByNumber(S)[i] = x
           /\ \A i, j \in 1 .. Len(ByNumber(S)) :
                i < j => ByNumber(S)[i].number <= ByNumber(S)[j].number /\ ByNumber(S)[i] # ByNumber(S)[j]
<1> DEFINE Least(s) == CHOOSE f \in s : \A g \in s : f.number <= g.number
           least == [s \in SUBSET S |-> Least(s)]
<1>1. \A s \in SUBSET S : s # {} => Least(s) \in s
  <2> SUFFICES ASSUME NEW s \in SUBSET S, s # {} PROVE \E f \in s : \A g \in s : f.number <= g.number
    OBVIOUS
  <2> DEFINE f == [x \in s |-> x.number]
  <2>1. f \in [s -> Nat]
    OBVIOUS
  <2>2. \E x \in s : \A y \in s : f[x] <= f[y]
    BY <2>1, SmallestOf
  <2> QED
    BY <2>2
<1>2. Chooses(least, S)
  BY <1>1 DEF Chooses
<1> HIDE DEF Least
<1> DEFINE From(f) == f = [s \in SUBSET S |-> IF s = {} THEN <<>> ELSE LET x == Least(s) IN <<x>> \o f[s \ {x}]]
<1>3. \A f : From(f) <=> Selects(f, S, least)
  BY DEF Selects
<1>4. \E f : From(f)
  BY <1>2, <1>3, SelectsExists
<1>5. PICK f : From(f) /\ ByNumber(S) = f[S]
  <2>1. ByNumber(S) = (CHOOSE f : From(f))[S]
    BY DEF ByNumber, Selected, Least
  <2> QED
    BY <1>4, <2>1
<1>6. Selects(f, S, least)
  BY <1>3, <1>5
<1>7. InTurn(f[S], S, least)
  BY <1>2, <1>6, SelectedInTurn
<1>8. \A t \in SUBSET S : t # {} => \A x \in t : least[t].number <= x.number
  <2>1. \A t \in SUBSET S : t # {} => \E x \in t : \A g \in t : x.number <= g.number
    <3> SUFFICES ASSUME NEW t \in SUBSET S, t # {} PROVE \E x \in t : \A g \in t : x.number <= g.number
      OBVIOUS
    <3> DEFINE h == [x \in t |-> x.number]
    <3>1. h \in [t -> Nat]
      OBVIOUS
    <3>2. \E x \in t : \A y \in t : h[x] <= h[y]
      BY <3>1, SmallestOf
    <3> QED
      BY <3>2
  <2> QED
    BY <2>1 DEF Least
<1> DEFINE r == f[S]
<1>9. ASSUME NEW i \in 1 .. Len(r), NEW j \in 1 .. Len(r), i < j PROVE r[i].number <= r[j].number /\ r[i] # r[j]
  <2> HIDE DEF r
  <2>1. PICK t \in SUBSET S : t # {} /\ r[i] = least[t] /\ \A x \in i + 1 .. Len(r) : r[x] \in t /\ r[x] # r[i]
    BY <1>7 DEF InTurn, r
  <2>2. Len(r) \in Nat
    BY <1>7 DEF InTurn, r
  <2>3. j \in i + 1 .. Len(r)
    BY <1>9, <2>2
  <2> HIDE DEF least
  <2> QED
    BY <1>8, <2>1, <2>3
<1> QED
  BY ZenonT(30), <1>5, <1>7, <1>9 DEF InTurn

\* So are some of them.
LEMMA TablesOf ==
    ASSUME NEW U, NEW S, Tables(S, U), NEW T \in SUBSET S
    PROVE  Tables(T, U)
  BY FS_Subset DEF Tables

\* Where Version::Get looks on level 0, and on another.
Young(k) == Reverse(ByNumber({ f \in files : f.level = 0 /\ Meets(f, k, k) }))
At(l, k, s) == LET fs == Level(l)
                   i == FindFile(fs, [key |-> k, seq |-> s])
               IN  IF i <= Len(fs) /\ First(fs[i].entries).key <= k THEN <<fs[i]>> ELSE <<>>

\* One that is looked into before another.
Precede == { p \in files \X files : Above(p[1], p[2]) }

\* The young ones.
LEMMA YoungIs ==
    ASSUME IsFiniteSet(files), \A f \in files : f.number \in Nat, NEW k
    PROVE  /\ Young(k) \in Seq({ f \in files : f.level = 0 })
           /\ \A f \in files : f.level = 0 /\ Meets(f, k, k) => f \in Range(Young(k))
           /\ (\A f, g \in files : f.level = 0 /\ g.level = 0 /\ f.number = g.number => f = g)
                => Runs(Young(k), Precede)
<1> DEFINE young == { f \in files : f.level = 0 /\ Meets(f, k, k) }
           old == { f \in files : f.level = 0 }
           q == ByNumber(young)
           n == Len(q)
<1>1. IsFiniteSet(young) /\ young \in SUBSET old /\ \A f \in young : f.number \in Nat
  BY FS_Subset
<1>2. /\ q \in Seq(young) /\ \A x \in young : \E i \in 1 .. n : q[i] = x
      /\ \A i, j \in 1 .. n : i < j => q[i].number <= q[j].number /\ q[i] # q[j]
  <2> HIDE DEF young
  <2> QED
    BY <1>1, ByNumberIs
<1>3. q \in Seq(old) /\ n \in Nat
  BY <1>1, <1>2
<1>4. \A i \in 1 .. n : q[i] \in old /\ q[i] \in files /\ q[i].level = 0 /\ q[i].number \in Nat
  BY <1>3
<1>5. Young(k) = Reverse(q)
  BY DEF Young
<1>6. \A x \in young : \E i \in 1 .. n : q[i] = x
  BY <1>2
<1>7. \A i, j \in 1 .. n : i < j => q[i].number <= q[j].number /\ q[i] # q[j]
  BY <1>2
<1> DEFINE r == [i \in 1 .. n |-> q[n - i + 1]]
<1>8. Reverse(q) = r
  BY DEF Reverse
<1> HIDE DEF q, n
<1>9. \A i \in 1 .. n : n - i + 1 \in 1 .. n /\ n - (n - i + 1) + 1 = i
  BY <1>3
<1>10. r \in Seq(old) /\ Len(r) = n /\ \A i \in 1 .. n : r[i] = q[n - i + 1]
  BY <1>3, <1>4, <1>9
<1>11. ASSUME NEW x \in young PROVE x \in Range(r)
  <2>1. PICK i \in 1 .. n : q[i] = x
    BY <1>6
  <2>2. n - i + 1 \in 1 .. n /\ r[n - i + 1] = x
    BY <1>9, <1>10, <2>1
  <2> HIDE DEF r
  <2> QED
    BY <1>10, <2>2, RangeHas
<1>12. ASSUME \A f, g \in files : f.level = 0 /\ g.level = 0 /\ f.number = g.number => f = g PROVE Runs(r, Precede)
  <2> SUFFICES ASSUME NEW i \in 1 .. n, NEW j \in 1 .. n, i < j PROVE <<r[i], r[j]>> \in Precede
    <3> HIDE DEF r
    <3> QED
      BY <1>10 DEF Runs
  <2> DEFINE x == n - i + 1
             y == n - j + 1
  <2>1. x \in 1 .. n /\ y \in 1 .. n /\ y < x /\ r[i] = q[x] /\ r[j] = q[y]
    BY <1>3, <1>10
  <2> HIDE DEF x, y, r
  <2>2. q[y].number <= q[x].number /\ q[y] # q[x]
    BY <1>7, <2>1
  <2>3. q[y].number # q[x].number
    BY <1>4, <1>12, <2>1, <2>2
  <2>4. q[x].number > q[y].number
    BY <1>4, <2>1, <2>2, <2>3
  <2>5. Above(q[x], q[y])
    BY <1>4, <2>1, <2>4 DEF Above
  <2> QED
    BY <1>4, <2>1, <2>5 DEF Precede
<1> HIDE DEF r
<1> QED
  BY <1>5, <1>8, <1>10, <1>11, <1>12

\* On another level it is a file that the version has there.
LEMMA AtIs ==
    ASSUME NEW U, Tables(files, U), NEW l, NEW k, NEW s
    PROVE  /\ At(l, k, s) = <<>> \/ \E f \in files : f.level = l /\ At(l, k, s) = <<f>>
<1> DEFINE S == { f \in files : f.level = l }
           fs == Level(l)
           i == FindFile(fs, [key |-> k, seq |-> s])
<1>1. Tables(S, U)
  BY TablesOf
<1>2. fs \in Seq(S)
  BY <1>1, SortedIs DEF Level
<1>3. i \in 1 .. Len(fs) + 1
  <2> HIDE DEF fs, S
  <2> QED
    BY <1>2, FindFileRange
<1>4. At(l, k, s) = IF i <= Len(fs) /\ First(fs[i].entries).key <= k THEN <<fs[i]>> ELSE <<>>
  BY DEF At
<1> HIDE DEF i, fs
<1>5. i <= Len(fs) => fs[i] \in S
  BY <1>2, <1>3
<1> QED
  BY <1>4, <1>5

\* Version::Get looks at tables the version has, one above the other.
LEMMA SearchedIs ==
    ASSUME LevelTablesAssumption, NEW U, Tables(files, U), \A f \in files : f.number \in Nat, NEW k, NEW s
    PROVE  /\ Searched(k, s) \in Seq(files)
           /\ Range(Young(k)) \subseteq Range(Searched(k, s))
           /\ \A l \in 1 .. NumLevels - 1 : Range(At(l, k, s)) \subseteq Range(Searched(k, s))
           /\ (\A f, g \in files : f.level = 0 /\ g.level = 0 /\ f.number = g.number => f = g)
                => Runs(Searched(k, s), Precede)
<1> DEFINE young == Young(k)
           n == NumLevels - 1
           below == [l \in 1 .. n |-> At(l, k, s)]
           deep == FlattenSeq(below)
<1>1. /\ young \in Seq({ f \in files : f.level = 0 })
      /\ (\A f, g \in files : f.level = 0 /\ g.level = 0 /\ f.number = g.number => f = g) => Runs(young, Precede)
  BY YoungIs DEF Tables
<1>2. young \in Seq(files)
  BY <1>1
<1>3. \A x \in Range(young) : x \in files /\ x.level = 0
  <2> DEFINE old == { f \in files : f.level = 0 }
  <2>1. young \in Seq(old)
    BY <1>1
  <2> HIDE DEF young, old
  <2>2. \A x \in Range(young) : x \in old
    BY <2>1, RangeHas
  <2> QED
    BY <2>2 DEF old
<1>4. \A l \in 1 .. n : At(l, k, s) = <<>> \/ \E f \in files : f.level = l /\ At(l, k, s) = <<f>>
  BY AtIs
<1>5. \A l \in 1 .. n : At(l, k, s) \in Seq(files) /\ Runs(At(l, k, s), Precede)
  <2>1. \A f : Runs(<<f>>, Precede)
    <3>1. \A f : Len(<<f>>) = 1
      OBVIOUS
    <3> QED
      BY <3>1 DEF Runs
  <2>2. Runs(<<>>, Precede)
    BY DEF Runs
  <2>3. \A f \in files : <<f>> \in Seq(files)
    OBVIOUS
  <2>4. <<>> \in Seq(files)
    OBVIOUS
  <2> SUFFICES ASSUME NEW l \in 1 .. n PROVE At(l, k, s) \in Seq(files) /\ Runs(At(l, k, s), Precede)
    OBVIOUS
  <2>5. CASE At(l, k, s) = <<>>
    BY <2>2, <2>4, <2>5
  <2>6. CASE At(l, k, s) # <<>>
    <3>1. PICK f \in files : At(l, k, s) = <<f>>
      BY <1>4, <2>6
    <3> QED
      BY <2>1, <2>3, <3>1
  <2> QED
    BY <2>5, <2>6
<1>6. \A l \in 1 .. n : \A x \in Range(At(l, k, s)) : x \in files /\ x.level = l
  <2> SUFFICES ASSUME NEW l \in 1 .. n, NEW x \in Range(At(l, k, s)) PROVE x \in files /\ x.level = l
    OBVIOUS
  <2> QED
    BY <1>4 DEF Range
<1>7. /\ below \in Seq(Seq(files))
      /\ \A a \in 1 .. Len(below) : a \in 1 .. n /\ below[a] = At(a, k, s)
      /\ \A a \in 1 .. n : a \in 1 .. Len(below)
  <2>1. n \in Nat
    BY DEF LevelTablesAssumption
  <2> HIDE DEF n
  <2>2. below \in [1 .. n -> Seq(files)]
    BY <1>5
  <2>3. below \in Seq(Seq(files)) /\ Len(below) = n /\ \A a \in 1 .. n : below[a] = At(a, k, s)
    BY <2>1, <2>2
  <2> QED
    BY <2>3
<1> HIDE DEF below
<1>8. /\ deep \in Seq(files)
      /\ \A a \in 1 .. Len(below) : Range(below[a]) \subseteq Range(deep)
      /\ \A x \in Range(deep) : \E a \in 1 .. Len(below) : x \in Range(below[a])
  BY <1>7, FlattenSeqIs
<1>9. Runs(deep, Precede)
  <2>1. \A a \in 1 .. Len(below) : Runs(below[a], Precede)
    BY <1>5, <1>7
  <2>2. ASSUME NEW a \in 1 .. Len(below), NEW b \in 1 .. Len(below), a < b,
               NEW x \in Range(below[a]), NEW y \in Range(below[b])
        PROVE  <<x, y>> \in Precede
    <3>1. x \in files /\ x.level = a /\ y \in files /\ y.level = b
      BY <1>6, <1>7
    <3> QED
      BY <2>2, <3>1 DEF Precede, Above
  <2> QED
    BY <1>7, <2>1, <2>2, FlattenSeqIs
<1>10. Searched(k, s) = young \o deep
  BY DEF Searched, Young, At, below
<1> HIDE DEF young, deep
<1>11. young \o deep \in Seq(files) /\ Range(young \o deep) = Range(young) \cup Range(deep)
  BY <1>2, <1>8, RangeOfBoth
<1>12. \A l \in 1 .. n : Range(At(l, k, s)) \subseteq Range(young \o deep)
  BY <1>7, <1>8, <1>11
<1>13. ASSUME Runs(young, Precede) PROVE Runs(young \o deep, Precede)
  <2>1. ASSUME NEW i \in 1 .. Len(young), NEW j \in 1 .. Len(deep) PROVE <<young[i], deep[j]>> \in Precede
    <3>1. young[i] \in Range(young) /\ deep[j] \in Range(deep)
      BY <1>2, <1>8, RangeHas
    <3>2. PICK a \in 1 .. Len(below) : deep[j] \in Range(below[a])
      BY <1>8, <3>1
    <3>3. deep[j] \in files /\ deep[j].level = a /\ a \in 1 .. n
      BY <1>6, <1>7, <3>2
    <3>4. Above(young[i], deep[j])
      BY <1>3, <3>1, <3>3 DEF Above
    <3> QED
      BY <1>3, <3>1, <3>3, <3>4 DEF Precede
  <2> QED
    BY <1>2, <1>8, <1>9, <1>13, <2>1, RunsOn
<1>14. Range(young) \subseteq Range(young \o deep)
  BY <1>11
<1> QED
  BY <1>1, <1>10, <1>11, <1>12, <1>13, <1>14 DEF young

\* A level that has a score has a table.
LEMMA ScoreIs ==
    ASSUME LevelTablesAssumption, NEW U, Tables(files, U), NEW l \in 0 .. NumLevels - 2
    PROVE  /\ Score(l)[1] \in Nat /\ Score(l)[2] \in Nat /\ Score(l)[2] > 0
           /\ Score(l)[1] > 0 => { f \in files : f.level = l } # {}
<1> DEFINE fs == { f \in files : f.level = l }
<1>1. Tables(fs, U)
  BY TablesOf
<1>2. Size(fs) \in Nat /\ Size({}) = 0
  BY <1>1, SizeIs
<1>3. IsFiniteSet(fs)
  BY <1>1 DEF Tables
<1>4. Cardinality(fs) \in Nat /\ Cardinality({}) = 0
  BY <1>3, FS_CardinalityType, FS_EmptySet
<1>5. L0CompactionTrigger \in Nat /\ L0CompactionTrigger > 0
  BY DEF LevelTablesAssumption
<1>6. l # 0 => MaxBytesForLevel[l] \in Nat /\ MaxBytesForLevel[l] > 0
  BY DEF LevelTablesAssumption
<1>7. Score(l) = IF l = 0 THEN <<Cardinality(fs), L0CompactionTrigger>> ELSE <<Size(fs), MaxBytesForLevel[l]>>
  BY DEF Score
<1> HIDE DEF fs
<1> DEFINE n == Cardinality(fs)
           z == Size(fs)
           M == MaxBytesForLevel[l]
<1>8. n \in Nat /\ z \in Nat /\ (fs = {} => n = 0 /\ z = 0) /\ (l # 0 => M \in Nat /\ M > 0)
      /\ Score(l) = IF l = 0 THEN <<n, L0CompactionTrigger>> ELSE <<z, M>>
  BY <1>2, <1>4, <1>6, <1>7
<1> HIDE DEF n, z, M
<1>9. CASE l = 0
  <2>1. Score(l)[1] = n /\ Score(l)[2] = L0CompactionTrigger
    BY <1>8, <1>9
  <2> QED
    BY <1>5, <1>8, <2>1 DEF fs
<1>10. CASE l # 0
  <2>1. Score(l)[1] = z /\ Score(l)[2] = M
    BY <1>8, <1>10
  <2> QED
    BY <1>8, <1>10, <2>1 DEF fs
<1> QED
  BY <1>9, <1>10

\* Finalize chooses a level above the last, one with a table where a size is exceeded.
LEMMA CompactionLevelIs ==
    ASSUME LevelTablesAssumption, NEW U, Tables(files, U)
    PROVE  /\ CompactionLevel \in 0 .. NumLevels - 2
           /\ SizeCompaction => { f \in files : f.level = CompactionLevel } # {}
<1> DEFINE Higher(a, b) == a[1] * b[2] > b[1] * a[2]
           N == NumLevels - 2
           Best(l, n) == /\ \A m \in 0 .. l - 1 : Higher(Score(l), Score(m))
                         /\ \A m \in l + 1 .. n : ~Higher(Score(m), Score(l))
           S == { n \in Nat : n <= N => \E l \in 0 .. n : Best(l, n) }
           Fraction(x) == x[1] \in Nat /\ x[2] \in Nat /\ x[2] > 0
<1>0. N \in Nat
  BY DEF LevelTablesAssumption
<1>1. \A l \in 0 .. N : Fraction(Score(l))
  BY ScoreIs
<1>2. \A x, y, z : Fraction(x) /\ Fraction(y) /\ Fraction(z) /\ Higher(z, x) /\ (~Higher(y, x) \/ Higher(x, y))
        => Higher(z, y)
  <2> SUFFICES ASSUME NEW x, NEW y, NEW z, Fraction(x), Fraction(y), Fraction(z), Higher(z, x),
                      ~Higher(y, x) \/ Higher(x, y)
               PROVE  Higher(z, y)
    OBVIOUS
  <2> DEFINE a == x[1]
             b == x[2]
             c == y[1]
             d == y[2]
             e == z[1]
             f == z[2]
  <2>1. a \in Nat /\ b \in Nat /\ c \in Nat /\ d \in Nat /\ e \in Nat /\ f \in Nat /\ b > 0 /\ d > 0 /\ f > 0
    OBVIOUS
  <2>2. e * b > a * f
    OBVIOUS
  <2>3. ~(c * b > a * d) \/ a * d > c * b
    OBVIOUS
  <2> HIDE DEF a, b, c, d, e, f
  <2>4. e * d > c * f
    <3>1. (e * b) * d > (a * f) * d
      BY <2>1, <2>2
    <3>2. a * d >= c * b
      BY <2>1, <2>3
    <3>3. (a * d) * f >= (c * b) * f
      BY <2>1, <3>2
    <3>4. (e * d) * b > (c * f) * b
      <4>1. (e * d) * b = (e * b) * d /\ (a * f) * d = (a * d) * f /\ (c * f) * b = (c * b) * f
        BY <2>1
      <4>2. (e * b) * d \in Nat /\ (a * d) * f \in Nat /\ (c * b) * f \in Nat
        BY <2>1
      <4> DEFINE u == (e * b) * d
                 v == (a * d) * f
                 w == (c * b) * f
      <4>3. u \in Nat /\ v \in Nat /\ w \in Nat /\ u > v /\ v >= w /\ (e * d) * b = u /\ (c * f) * b = w
        BY <3>1, <3>3, <4>1, <4>2
      <4> HIDE DEF u, v, w
      <4> QED
        BY <4>3
    <3> DEFINE p == e * d
               q == c * f
    <3>5. p \in Nat /\ q \in Nat /\ p * b > q * b
      BY <2>1, <3>4
    <3> HIDE DEF p, q
    <3>6. p > q
      BY <2>1, <3>5
    <3> QED
      BY <3>6 DEF p, q
  <2> QED
    BY <2>4 DEF a, b, c, d, e, f
<1> HIDE DEF Higher, Fraction
<1>3. 0 \in S
  <2>1. Best(0, 0)
    OBVIOUS
  <2> HIDE DEF Best
  <2> QED
    BY <2>1
<1>4. ASSUME NEW n \in Nat, n \in S PROVE n + 1 \in S
  <2> SUFFICES ASSUME n + 1 <= N PROVE \E l \in 0 .. n + 1 : Best(l, n + 1)
    OBVIOUS
  <2>0. N \in Nat
    BY <1>0
  <2> HIDE DEF N
  <2>1. PICK l \in 0 .. n : Best(l, n)
    BY <1>4, <2>0
  <2>2. CASE Higher(Score(n + 1), Score(l))
    <3>1. ASSUME NEW m \in 0 .. n PROVE Higher(Score(n + 1), Score(m))
      <4>1. Fraction(Score(n + 1)) /\ Fraction(Score(l)) /\ Fraction(Score(m))
        BY <1>1, <2>0
      <4>2. m = l \/ Higher(Score(l), Score(m)) \/ ~Higher(Score(m), Score(l))
        <5>1. m = l \/ m \in 0 .. l - 1 \/ m \in l + 1 .. n
          OBVIOUS
        <5> QED
          BY <2>1, <5>1
      <4> HIDE DEF Best
      <4> QED
        BY <1>2, <2>2, <4>1, <4>2
    <3>2. Best(n + 1, n + 1)
      BY <3>1
    <3> HIDE DEF Best
    <3> QED
      BY <3>2
  <2>3. CASE ~Higher(Score(n + 1), Score(l))
    <3>1. ASSUME NEW m \in l + 1 .. n + 1 PROVE ~Higher(Score(m), Score(l))
      <4>1. m = n + 1 \/ m \in l + 1 .. n
        OBVIOUS
      <4> QED
        BY <2>1, <2>3, <4>1
    <3>2. Best(l, n + 1) /\ l \in 0 .. n + 1
      BY <2>1, <3>1
    <3> HIDE DEF Best
    <3> QED
      BY <3>2
  <2> QED
    BY <2>2, <2>3
<1>5. N \in S
  <2> HIDE DEF S
  <2>1. Nat \subseteq S
    BY <1>3, <1>4, StepInduction
  <2> QED
    BY <1>0, <2>1
<1>6. \E l \in 0 .. N : Best(l, N)
  <2> HIDE DEF Best, N
  <2> QED
    BY <1>0, <1>5
<1>7. CompactionLevel = CHOOSE l \in 0 .. N : Best(l, N)
  BY DEF CompactionLevel, Higher
<1>8. CompactionLevel \in 0 .. N
  <2> HIDE DEF Best, N
  <2> QED
    BY <1>6, <1>7
<1>9. SizeCompaction => Score(CompactionLevel)[1] > 0
  BY <1>1, <1>8 DEF SizeCompaction, Fraction
<1> QED
  BY <1>8, <1>9, ScoreIs

-----------------------------------------------------------------------------
(* What a compaction takes *)

\* The keys of the files' entries, and how far the writes have come.
Written(U) == /\ Tables(files, U) /\ NumKeys \in Nat /\ last_sequence \in Nat
              /\ \A e \in U : e.key \in 1 .. NumKeys /\ e.seq <= last_sequence

\* The keys of a table lie between those of its ends.
LEMMA TableKeys ==
    ASSUME NEW U, NEW fs, Tables(fs, U), NEW f \in fs
    PROVE  /\ First(f.entries) \in f.entries /\ Final(f.entries) \in f.entries
           /\ First(f.entries) \in U /\ Final(f.entries) \in U
           /\ First(f.entries).key \in Nat /\ Final(f.entries).key \in Nat
           /\ First(f.entries).key <= Final(f.entries).key
           /\ \A d \in f.entries : d \in U /\ d.key \in Nat /\ First(f.entries).key <= d.key /\ d.key <= Final(f.entries).key
<1>1. /\ First(f.entries) \in f.entries
      /\ \A d \in f.entries : d = First(f.entries) \/ Before(First(f.entries), d)
      /\ Final(f.entries) \in f.entries
      /\ \A d \in f.entries : d = Final(f.entries) \/ Before(d, Final(f.entries))
  BY TableEnds
<1>2. f.entries \in SUBSET U /\ \A d \in f.entries : d.key \in Nat /\ d.seq \in Nat
  BY DEF Tables, Entries
<1>3. \A d \in f.entries : First(f.entries).key <= d.key /\ d.key <= Final(f.entries).key
  BY <1>1, <1>2 DEF Before
<1> QED
  BY <1>1, <1>2, <1>3

\* What the search of a level does not find is not there.
LEMMA OverlapIs ==
    ASSUME NEW U, Written(U), NEW l \in Nat, l > 0 => InLine({ f \in files : f.level = l }),
           NEW begin \in Nat, NEW end \in Nat, ~OverlapInLevel(l, begin, end),
           NEW f \in files, f.level = l
    PROVE  ~Meets(f, begin, end)
<1>1. CASE l = 0
  BY <1>1 DEF OverlapInLevel
<1>2. CASE l # 0
  <2> DEFINE S == { g \in files : g.level = l }
             fs == Level(l)
             key == [key |-> begin, seq |-> last_sequence]
             i == FindFile(fs, key)
             n == Len(fs)
  <2>1. Tables(S, U) /\ InLine(S)
    BY <1>2, TablesOf DEF Written
  <2>2. /\ fs \in Seq(S) /\ \A g \in S : \E j \in 1 .. n : fs[j] = g
        /\ \A j, k \in 1 .. n : j < k => Apart(fs[j].entries, fs[k].entries)
    <3>1. fs = Sorted(S)
      BY DEF Level
    <3> HIDE DEF S, fs
    <3> QED
      BY <2>1, <3>1, SortedIs
  <2>3. n \in Nat /\ f \in S /\ \A j \in 1 .. n : fs[j] \in S
    BY <2>2
  <2>4. ~(i <= n /\ First(fs[i].entries).key <= end)
    BY <1>2 DEF OverlapInLevel
  <2>5. key.key = begin /\ key.seq = last_sequence /\ key.key \in Nat /\ key.seq \in Nat
    BY DEF Written
  <2> HIDE DEF S, fs, key
  <2>6. i \in 1 .. n + 1
    BY <2>2, FindFileRange
  <2>7. \A j \in 1 .. i - 1 : Before(Final(fs[j].entries), key)
    BY <2>1, <2>2, <2>5, FindFileIs
  <2>8. PICK j \in 1 .. n : fs[j] = f
    BY <2>2, <2>3
  <2> HIDE DEF i, n
  <2>9. CASE j < i
    <3>1. Before(Final(f.entries), key)
      BY <2>3, <2>6, <2>7, <2>8, <2>9
    <3>2. Final(f.entries) \in U /\ Final(f.entries).key \in Nat
      BY TableKeys DEF Written
    <3>3. Final(f.entries).seq \in Nat /\ Final(f.entries).seq <= last_sequence
      BY <3>2 DEF Written, Tables, Entries
    <3>4. Final(f.entries).key < begin
      BY <2>5, <3>1, <3>2, <3>3 DEF Before
    <3> QED
      BY <3>2, <3>4 DEF Meets
  <2>10. CASE j >= i
    <3>1. i \in 1 .. n /\ fs[i] \in S
      BY <2>3, <2>6, <2>8, <2>10
    <3>2. /\ First(fs[i].entries).key \in Nat /\ First(f.entries).key \in Nat
          /\ First(fs[i].entries) \in fs[i].entries /\ First(f.entries) \in f.entries
          /\ First(fs[i].entries).seq \in Nat /\ First(f.entries).seq \in Nat
      BY <2>1, <2>3, <3>1, TableKeys DEF Tables, Entries
    <3>3. First(fs[i].entries).key > end
      BY <2>4, <3>1, <3>2
    <3>4. First(fs[i].entries).key <= First(f.entries).key
      <4>1. CASE i = j
        BY <2>8, <3>2, <4>1
      <4>2. CASE i # j
        <5>1. Apart(fs[i].entries, f.entries)
          BY SMTT(30), <2>2, <2>8, <2>10, <3>1, <4>2
        <5>2. Before(First(fs[i].entries), First(f.entries))
          BY <3>2, <5>1 DEF Apart
        <5> QED
          BY <3>2, <5>2 DEF Before
      <4> QED
        BY <4>1, <4>2
    <3>5. ~(First(f.entries).key <= end)
      BY <3>2, <3>3, <3>4
    <3> QED
      BY <3>5 DEF Meets
  <2> QED
    BY <2>3, <2>6, <2>9, <2>10
<1> QED
  BY <1>1, <1>2

\* What covers whom: the keys between two files are those of some file.
Covered(fs) == \A f, g \in fs, k \in Nat :
                 First(f.entries).key <= k /\ k <= Final(g.entries).key => \E h \in fs : Meets(h, k, k)

\* The ends of all entries of some tables.
LEMMA Hull ==
    ASSUME NEW U, NEW A, Tables(A, U), A # {}
    PROVE  /\ First(EntriesOf(A)) \in U /\ Final(EntriesOf(A)) \in U
           /\ First(EntriesOf(A)) \in EntriesOf(A) /\ Final(EntriesOf(A)) \in EntriesOf(A)
           /\ \A d \in EntriesOf(A) : /\ d \in U /\ First(EntriesOf(A)).key <= d.key /\ d.key <= Final(EntriesOf(A)).key
                                      /\ d.key \in Nat
           /\ \A f \in A : /\ First(EntriesOf(A)).key <= First(f.entries).key
                           /\ Final(f.entries).key <= Final(EntriesOf(A)).key
           /\ \E f \in A : First(f.entries).key <= First(EntriesOf(A)).key
           /\ \E f \in A : Final(EntriesOf(A)).key <= Final(f.entries).key
<1> DEFINE E == EntriesOf(A)
<1>1. E \in SUBSET U /\ E # {} /\ IsFiniteSet(E) /\ Entries(U)
  <2>1. E \in SUBSET U /\ E # {}
    BY DEF EntriesOf, Tables
  <2>2. IsFiniteSet(E)
    BY <2>1, FS_Subset DEF Tables
  <2> QED
    BY <2>1, <2>2 DEF Tables
<1>2. \A f \in A : f.entries \in SUBSET E
  BY DEF EntriesOf
<1>3. \A d \in E : \E f \in A : d \in f.entries
  BY DEF EntriesOf
<1> HIDE DEF E
<1>4. First(E) \in E /\ \A d \in E : d = First(E) \/ Before(First(E), d)
  BY <1>1, FirstIs
<1>5. Final(E) \in E /\ \A d \in E : d = Final(E) \/ Before(d, Final(E))
  BY <1>1, FinalIs
<1>6. \A d \in E : d \in U /\ d.key \in Nat /\ d.seq \in Nat
  BY <1>1 DEF Entries
<1>7. \A d \in E : First(E).key <= d.key /\ d.key <= Final(E).key
  BY <1>4, <1>5, <1>6 DEF Before
<1>8. ASSUME NEW f \in A PROVE First(E).key <= First(f.entries).key /\ Final(f.entries).key <= Final(E).key
  BY <1>2, <1>7, TableKeys
<1>9. \E f \in A : First(f.entries).key <= First(E).key
  BY <1>3, <1>4, TableKeys
<1>10. \E f \in A : Final(E).key <= Final(f.entries).key
  BY <1>3, <1>5, TableKeys
<1> QED
  BY <1>4, <1>5, <1>6, <1>7, <1>8, <1>9, <1>10 DEF E

\* A key of a file, or between it and the range.
Aside(f, k, begin, end) ==
  \/ First(f.entries).key <= k /\ k < begin
  \/ end < k /\ k <= Final(f.entries).key

\* GetOverlappingInputs: the files that meet the range, and on level 0 those that they
\* lead to: no key between one of them and the range is left out.
LEMMA OverlappingIs ==
    ASSUME NEW U, Written(U), NEW l \in Nat, NEW begin \in 1 .. NumKeys, NEW end \in 1 .. NumKeys,
           NEW G, G = GetOverlappingInputs(l, begin, end)
    PROVE  /\ G \in SUBSET { f \in files : f.level = l }
           /\ \A f \in files : f.level = l /\ Meets(f, begin, end) => f \in G
           /\ l > 0 => \A f \in G : Meets(f, begin, end)
           /\ \A f \in G, k \in Nat : Aside(f, k, begin, end) => \E h \in G : Meets(h, k, k)
<1> DEFINE fs == { f \in files : f.level = l }
<1>1. \A f \in fs : /\ First(f.entries).key \in 1 .. NumKeys /\ Final(f.entries).key \in 1 .. NumKeys
                    /\ First(f.entries).key <= Final(f.entries).key
  BY TableKeys DEF Written
<1>0. NumKeys \in Nat
  BY DEF Written
<1>2. CASE l > 0
  <2>1. G = { f \in fs : Meets(f, begin, end) }
    BY <1>2 DEF GetOverlappingInputs
  <2>2. ASSUME NEW f \in G, NEW k \in Nat, Aside(f, k, begin, end) PROVE Meets(f, k, k)
    <3>1. f \in fs /\ begin <= Final(f.entries).key /\ First(f.entries).key <= end
      BY <2>1 DEF Meets
    <3>2. First(f.entries).key \in 1 .. NumKeys /\ Final(f.entries).key \in 1 .. NumKeys
      BY <1>1, <3>1
    <3> QED
      BY <1>0, <2>2, <3>1, <3>2 DEF Meets, Aside
  <2> QED
    BY <1>2, <2>1, <2>2
<1>3. CASE l = 0
  <2> DEFINE Closed(r) == /\ r[1] <= begin /\ end <= r[2]
                          /\ \A f \in fs : Meets(f, r[1], r[2])
                                => r[1] <= First(f.entries).key /\ Final(f.entries).key <= r[2]
             B == 0 .. NumKeys + 1
             closed == { r \in B \X B : Closed(r) }
             los == { r[1] : r \in closed }
             his == { r[2] : r \in closed }
             lo == Max(los)
             hi == Min(his)
  <2>1. G = { f \in fs : Meets(f, lo, hi) }
    BY <1>3 DEF GetOverlappingInputs
  <2>2. \A r : r \in closed <=> r \in B \X B /\ Closed(r)
    OBVIOUS
  <2>3. <<0, NumKeys + 1>> \in closed
    BY <1>0, <1>1
  <2> HIDE DEF closed
  <2>4. los \in SUBSET B /\ los # {} /\ his \in SUBSET B /\ his # {} /\ B \in SUBSET Nat
    BY <1>0, <2>2, <2>3
  <2>5. IsFiniteSet(los)
    <3>1. IsFiniteSet(B)
      BY <1>0, FS_Interval
    <3> HIDE DEF los, B
    <3> QED
      BY <2>4, <3>1, FS_Subset
  <2>6. lo \in los /\ \A y \in los : y <= lo
    <3> HIDE DEF los, B
    <3>1. los \in SUBSET Int
      BY <2>4
    <3> QED
      BY <2>4, <2>5, <3>1, MaxIs
  <2>7. hi \in his /\ \A y \in his : hi <= y
    <3> HIDE DEF his, B
    <3>1. \E x \in his : \A y \in his : x <= y
      BY <2>4, LeastElement
    <3> QED
      BY <3>1 DEF Min
  <2>8. PICK p \in closed : p[1] = lo
    BY <2>6
  <2>9. PICK q \in closed : q[2] = hi
    BY <2>7
  <2>10. /\ lo \in B /\ hi \in B /\ p[2] \in B /\ q[1] \in B /\ q[1] <= lo /\ hi <= p[2]
         /\ lo <= begin /\ end <= hi
    BY <2>2, <2>6, <2>7, <2>8, <2>9
  <2> HIDE DEF lo, hi, los, his
  <2>11. ASSUME NEW f \in fs, Meets(f, lo, hi)
         PROVE  lo <= First(f.entries).key /\ Final(f.entries).key <= hi
    <3>1. Meets(f, p[1], p[2]) /\ Meets(f, q[1], q[2])
      BY <1>0, <1>1, <2>8, <2>9, <2>10, <2>11 DEF Meets
    <3> HIDE DEF fs
    <3> QED
      BY <2>2, <2>8, <2>9, <3>1
  <2>12. ASSUME NEW f \in files, f.level = l, Meets(f, begin, end) PROVE f \in G
    BY <1>0, <1>1, <2>1, <2>10, <2>12 DEF Meets
  <2>13. ASSUME NEW f \in G, NEW k \in Nat, Aside(f, k, begin, end), ~\E h \in G : Meets(h, k, k)
         PROVE  FALSE
    <3>1. f \in fs /\ lo <= First(f.entries).key /\ Final(f.entries).key <= hi
      BY <2>1, <2>11
    <3>2. First(f.entries).key \in 1 .. NumKeys /\ Final(f.entries).key \in 1 .. NumKeys
      BY <1>1, <3>1
    <3>3. CASE First(f.entries).key <= k /\ k < begin
      <4> DEFINE r == <<k + 1, hi>>
      <4>1. r \in B \X B /\ r[1] = k + 1 /\ r[2] = hi /\ k + 1 <= begin /\ lo <= k
        BY <1>0, <2>10, <3>1, <3>2, <3>3
      <4> HIDE DEF r
      <4>2. ASSUME NEW g \in fs, Meets(g, r[1], r[2])
            PROVE  r[1] <= First(g.entries).key /\ Final(g.entries).key <= r[2]
        <5>1. First(g.entries).key \in 1 .. NumKeys /\ Final(g.entries).key \in 1 .. NumKeys
          BY <1>1
        <5>2. k + 1 <= Final(g.entries).key /\ First(g.entries).key <= hi
          BY <4>1, <4>2 DEF Meets
        <5>3. Meets(g, lo, hi)
          BY <1>0, <2>10, <4>1, <5>1, <5>2 DEF Meets
        <5>4. g \in G /\ Final(g.entries).key <= hi
          BY <2>1, <2>11, <5>3
        <5>5. ~(First(g.entries).key <= k)
          BY <1>0, <2>13, <5>1, <5>2, <5>4 DEF Meets
        <5> QED
          BY <4>1, <5>1, <5>4, <5>5
      <4>3. r \in closed
        BY <2>2, <2>10, <4>1, <4>2
      <4>4. k + 1 \in los
        BY <4>1, <4>3 DEF los
      <4> QED
        BY <2>6, <2>10, <4>1, <4>4
    <3>4. CASE end < k /\ k <= Final(f.entries).key
      <4> DEFINE r == <<lo, k - 1>>
      <4>1. r \in B \X B /\ r[1] = lo /\ r[2] = k - 1 /\ end <= k - 1 /\ k <= hi
        BY <1>0, <2>10, <3>1, <3>2, <3>4
      <4> HIDE DEF r
      <4>2. ASSUME NEW g \in fs, Meets(g, r[1], r[2])
            PROVE  r[1] <= First(g.entries).key /\ Final(g.entries).key <= r[2]
        <5>1. First(g.entries).key \in 1 .. NumKeys /\ Final(g.entries).key \in 1 .. NumKeys
          BY <1>1
        <5>2. lo <= Final(g.entries).key /\ First(g.entries).key <= k - 1
          BY <4>1, <4>2 DEF Meets
        <5>3. Meets(g, lo, hi)
          BY <1>0, <2>10, <4>1, <5>1, <5>2 DEF Meets
        <5>4. g \in G /\ lo <= First(g.entries).key
          BY <2>1, <2>11, <5>3
        <5>5. ~(k <= Final(g.entries).key)
          BY <1>0, <2>13, <5>1, <5>2, <5>4 DEF Meets
        <5> QED
          BY <4>1, <5>1, <5>4, <5>5
      <4>3. r \in closed
        BY <2>2, <2>10, <4>1, <4>2
      <4>4. k - 1 \in his
        BY <4>1, <4>3 DEF his
      <4> QED
        BY <2>7, <2>10, <4>1, <4>4
    <3> QED
      BY <2>13, <3>3, <3>4 DEF Aside
  <2>14. G \in SUBSET fs
    BY <2>1
  <2> QED
    BY <1>3, <2>12, <2>13, <2>14
<1> QED
  BY <1>2, <1>3

\* OverlappingFiles.
LEMMA OverlappingFilesIs ==
    ASSUME NEW U, Written(U), NEW l \in Nat, NEW A \in SUBSET files, A # {}, NEW G, G = OverlappingFiles(l, A)
    PROVE  /\ G \in SUBSET { f \in files : f.level = l }
           /\ \A f \in files : f.level = l /\ Meets(f, First(EntriesOf(A)).key, Final(EntriesOf(A)).key) => f \in G
           /\ l > 0 => \A f \in G : Meets(f, First(EntriesOf(A)).key, Final(EntriesOf(A)).key)
           /\ \A f \in G, k \in Nat : Aside(f, k, First(EntriesOf(A)).key, Final(EntriesOf(A)).key)
                => \E h \in G : Meets(h, k, k)
           /\ \A f \in A : f.level = l => f \in G
<1> DEFINE begin == First(EntriesOf(A)).key
           end == Final(EntriesOf(A)).key
<1>1. Tables(A, U)
  BY TablesOf DEF Written
<1>2. First(EntriesOf(A)) \in U /\ Final(EntriesOf(A)) \in U
  BY <1>1, Hull
<1>3. begin \in 1 .. NumKeys /\ end \in 1 .. NumKeys
  BY <1>2 DEF Written
<1>4. ASSUME NEW f \in A PROVE Meets(f, begin, end)
  <2>1. begin <= First(f.entries).key /\ Final(f.entries).key <= end
    BY <1>1, Hull
  <2>2. First(f.entries).key \in Nat /\ Final(f.entries).key \in Nat /\ First(f.entries).key <= Final(f.entries).key
    BY <1>1, TableKeys
  <2>3. begin \in Nat /\ end \in Nat
    BY <1>3 DEF Written
  <2> HIDE DEF begin, end
  <2> QED
    BY <2>1, <2>2, <2>3 DEF Meets
<1>5. G = GetOverlappingInputs(l, begin, end)
  BY DEF OverlappingFiles
<1> HIDE DEF begin, end
<1>6. /\ G \in SUBSET { f \in files : f.level = l }
      /\ \A f \in files : f.level = l /\ Meets(f, begin, end) => f \in G
      /\ l > 0 => \A f \in G : Meets(f, begin, end)
      /\ \A f \in G, k \in Nat : Aside(f, k, begin, end) => \E h \in G : Meets(h, k, k)
  BY <1>3, <1>5, OverlappingIs
<1>7. \A f \in A : f.level = l => f \in G
  BY <1>4, <1>6
<1> QED
  BY <1>6, <1>7 DEF begin, end

\* It leaves no key between them out.
LEMMA CoverGrows ==
    ASSUME NEW U, Written(U), NEW l \in Nat, NEW A \in SUBSET files, A # {}, Covered(A)
    PROVE  Covered(A \cup OverlappingFiles(l, A))
<1> DEFINE begin == First(EntriesOf(A)).key
           end == Final(EntriesOf(A)).key
           G == OverlappingFiles(l, A)
<1>1. Tables(A, U)
  BY TablesOf DEF Written
<1>2. \A f \in A : begin <= First(f.entries).key /\ Final(f.entries).key <= end
  BY <1>1, Hull
<1>3. PICK d \in A : First(d.entries).key <= begin
  BY <1>1, Hull
<1>4. PICK e \in A : end <= Final(e.entries).key
  BY <1>1, Hull
<1>5. begin \in Nat /\ end \in Nat
  <2>1. First(EntriesOf(A)) \in U /\ Final(EntriesOf(A)) \in U
    BY <1>1, Hull
  <2> QED
    BY <2>1 DEF Written
<1>6. G \in SUBSET files /\ \A f \in G, k \in Nat : Aside(f, k, begin, end) => \E h \in G : Meets(h, k, k)
  BY OverlappingFilesIs
<1>7. \A f \in A \cup G : First(f.entries).key \in Nat /\ Final(f.entries).key \in Nat
  BY <1>6, TableKeys DEF Written
<1> HIDE DEF begin, end, G
<1>8. ASSUME NEW f \in A \cup G, NEW g \in A \cup G, NEW k \in Nat,
             First(f.entries).key <= k, k <= Final(g.entries).key
      PROVE  \E h \in A \cup G : Meets(h, k, k)
  <2>1. CASE k < begin
    <3>1. f \in G
      BY <1>2, <1>5, <1>7, <1>8, <2>1
    <3> QED
      BY <1>6, <1>8, <2>1, <3>1 DEF Aside
  <2>2. CASE end < k
    <3>1. g \in G
      BY <1>2, <1>5, <1>7, <1>8, <2>2
    <3> QED
      BY <1>6, <1>8, <2>2, <3>1 DEF Aside
  <2>3. CASE begin <= k /\ k <= end
    <3>1. First(d.entries).key <= k /\ k <= Final(e.entries).key
      BY <1>3, <1>4, <1>5, <1>7, <2>3
    <3> QED
      BY <3>1 DEF Covered
  <2> QED
    BY <1>5, <2>1, <2>2, <2>3
<1>9. Covered(A \cup G)
  BY <1>8 DEF Covered
<1> QED
  BY <1>9 DEF G

\* The other files of the next level: each is on one side of what the compaction has.
Beside(g, E) == Apart(g.entries, E) \/ Apart(E, g.entries)

\* Whoever is not among the OverlappingFiles overlaps none of them either.
LEMMA OthersBeside ==
    ASSUME NEW U, Written(U), NEW l \in Nat, l > 0, InLine({ f \in files : f.level = l }),
           NEW A \in SUBSET files, A # {}, NEW g \in files, g.level = l, g \notin OverlappingFiles(l, A)
    PROVE  Beside(g, EntriesOf(A \cup OverlappingFiles(l, A)))
<1> DEFINE begin == First(EntriesOf(A)).key
           end == Final(EntriesOf(A)).key
           G == OverlappingFiles(l, A)
           E == EntriesOf(A \cup G)
           S == { f \in files : f.level = l }
<1>1. Tables(A, U)
  BY TablesOf DEF Written
<1>2. \A d \in EntriesOf(A) : begin <= d.key /\ d.key <= end /\ d.key \in Nat
  BY <1>1, Hull
<1>3. begin \in Nat /\ end \in Nat
  <2>1. First(EntriesOf(A)) \in U /\ Final(EntriesOf(A)) \in U
    BY <1>1, Hull
  <2> QED
    BY <2>1 DEF Written
<1>4. G \in SUBSET S /\ ~Meets(g, begin, end) /\ \A h \in G : Meets(h, begin, end)
  BY OverlappingFilesIs
<1>5. \A h \in files :
        /\ First(h.entries) \in h.entries /\ Final(h.entries) \in h.entries
        /\ First(h.entries).key \in Nat /\ Final(h.entries).key \in Nat
        /\ \A d \in h.entries : d.key \in Nat /\ First(h.entries).key <= d.key /\ d.key <= Final(h.entries).key
  BY TableKeys DEF Written
<1>6. \A d \in E : d \in EntriesOf(A) \/ \E h \in G : d \in h.entries
  BY DEF EntriesOf
<1>7. g \in S /\ g \notin G /\ InLine(S)
  OBVIOUS
<1> HIDE DEF begin, end, G, E, S
<1>8. \A h \in G : h \in S /\ h \in files /\ (Apart(g.entries, h.entries) \/ Apart(h.entries, g.entries))
  BY <1>4, <1>7 DEF InLine, S
<1>9. CASE Final(g.entries).key < begin
  <2>1. ASSUME NEW a \in g.entries, NEW d \in E PROVE Before(a, d)
    <3>1. a.key \in Nat /\ a.key < begin
      BY <1>3, <1>5, <1>9
    <3>2. CASE d \in EntriesOf(A)
      BY <1>2, <1>3, <3>1, <3>2 DEF Before
    <3>3. ASSUME NEW h \in G, d \in h.entries PROVE Before(a, d)
      <4>1. begin <= Final(h.entries).key
        BY <1>4 DEF Meets
      <4>2. ~Before(Final(h.entries), Final(g.entries))
        BY <1>3, <1>5, <1>8, <1>9, <4>1 DEF Before
      <4>3. ~Apart(h.entries, g.entries)
        BY <1>5, <1>8, <4>2 DEF Apart
      <4> QED
        BY <1>8, <3>3, <4>3 DEF Apart
    <3> QED
      BY <1>6, <3>2, <3>3
  <2> QED
    BY <2>1 DEF Beside, Apart, E, G
<1>10. CASE end < First(g.entries).key
  <2>1. ASSUME NEW a \in g.entries, NEW d \in E PROVE Before(d, a)
    <3>1. a.key \in Nat /\ end < a.key
      BY <1>3, <1>5, <1>10
    <3>2. CASE d \in EntriesOf(A)
      BY <1>2, <1>3, <3>1, <3>2 DEF Before
    <3>3. ASSUME NEW h \in G, d \in h.entries PROVE Before(d, a)
      <4>1. First(h.entries).key <= end
        BY <1>4 DEF Meets
      <4>2. ~Before(First(g.entries), First(h.entries))
        BY <1>3, <1>5, <1>8, <1>10, <4>1 DEF Before
      <4>3. ~Apart(g.entries, h.entries)
        BY <1>5, <1>8, <4>2 DEF Apart
      <4> QED
        BY <1>8, <3>3, <4>3 DEF Apart
    <3> QED
      BY <1>6, <3>2, <3>3
  <2> QED
    BY <2>1 DEF Beside, Apart, E, G
<1>11. Final(g.entries).key < begin \/ end < First(g.entries).key
  BY <1>3, <1>4, <1>5 DEF Meets
<1> QED
  BY <1>9, <1>10, <1>11

\* What a compaction has taken.
Taken(c) ==
  /\ c.level \in Nat /\ c.in0 # {}
  /\ c.in0 \in SUBSET { f \in files : f.level = c.level }
  /\ c.in1 \in SUBSET { f \in files : f.level = c.level + 1 }
  /\ \A g \in files : g.level = c.level + 1 /\ g \notin c.in1 => Beside(g, EntriesOf(c.in0 \cup c.in1))

\* SetupOtherInputs: however it widens what was chosen, it takes from the two levels whatever
\* overlaps, and leaves no gap in what had none.
LEMMA CompactionIs ==
    ASSUME NEW U, Written(U), NEW l \in Nat, InLine({ f \in files : f.level = l + 1 }),
           NEW A \in SUBSET { f \in files : f.level = l }, A # {}, NEW c, c = Compaction(l, A)
    PROVE  /\ Taken(c) /\ c.level = l /\ c.manual = FALSE
           /\ Covered(A) => Covered(c.in0 \cup c.in1)
<1> DEFINE next == OverlappingFiles(l + 1, A)
           B == A \cup next
           wider == OverlappingFiles(l, B)
           wider_next == OverlappingFiles(l + 1, wider)
           expand == /\ next # {}
                     /\ Cardinality(wider) > Cardinality(A)
                     /\ Size(next) + Size(wider) < ExpandedCompactionLimit
                     /\ Cardinality(wider_next) = Cardinality(next)
<1>0. A \in SUBSET files /\ l + 1 \in Nat /\ l + 1 > 0
  OBVIOUS
<1>1. next \in SUBSET { f \in files : f.level = l + 1 }
  BY <1>0, OverlappingFilesIs
<1>2. B \in SUBSET files /\ B # {}
  BY <1>1
<1>3. wider \in SUBSET { f \in files : f.level = l } /\ A \in SUBSET wider
  <2>1. wider \in SUBSET { f \in files : f.level = l } /\ \A f \in B : f.level = l => f \in wider
    <3> HIDE DEF B
    <3> QED
      BY <1>2, OverlappingFilesIs
  <2> QED
    BY <2>1
<1>4. c.in0 = (IF expand THEN wider ELSE A) /\ c.in1 = (IF expand THEN wider_next ELSE next)
      /\ c.level = l /\ c.manual = FALSE
  BY DEF Compaction
<1>5. c.in1 = OverlappingFiles(l + 1, c.in0)
  <2> HIDE DEF expand, wider
  <2> QED
    BY <1>4
<1>6. c.in0 # {} /\ c.in0 \in SUBSET { f \in files : f.level = l }
  <2> HIDE DEF expand, wider
  <2> QED
    BY <1>3, <1>4
<1>7. c.in1 \in SUBSET { f \in files : f.level = l + 1 }
  BY <1>0, <1>5, <1>6, OverlappingFilesIs
<1>8. ASSUME NEW g \in files, g.level = l + 1, g \notin c.in1
      PROVE  Beside(g, EntriesOf(c.in0 \cup c.in1))
  BY <1>0, <1>5, <1>6, <1>8, OthersBeside
<1>9. Taken(c)
  BY <1>4, <1>6, <1>7, <1>8 DEF Taken
<1>10. ASSUME Covered(A) PROVE Covered(c.in0 \cup c.in1)
  <2>1. Covered(B)
    BY <1>0, <1>10, CoverGrows
  <2>2. CASE ~expand
    <3> HIDE DEF expand, next
    <3> QED
      BY <1>4, <2>1, <2>2
  <2>3. CASE expand
    <3>1. Covered(B \cup wider)
      <4> HIDE DEF B
      <4> QED
        BY <1>2, <2>1, CoverGrows
    <3>2. wider # {} /\ wider \in SUBSET files
      BY <1>3
    <3>3. next \in SUBSET wider_next
      <4> DEFINE a == First(EntriesOf(A)).key
                 b == Final(EntriesOf(A)).key
                 v == First(EntriesOf(wider)).key
                 w == Final(EntriesOf(wider)).key
      <4>1. Tables(A, U) /\ Tables(wider, U)
        BY <1>0, <3>2, TablesOf DEF Written
      <4>2. \A d \in EntriesOf(wider) : v <= d.key /\ d.key <= w /\ d.key \in Nat
        <5> HIDE DEF wider
        <5> QED
          BY <3>2, <4>1, Hull
      <4>3. First(EntriesOf(A)) \in EntriesOf(wider) /\ Final(EntriesOf(A)) \in EntriesOf(wider)
        <5>1. First(EntriesOf(A)) \in EntriesOf(A) /\ Final(EntriesOf(A)) \in EntriesOf(A)
          BY <4>1, Hull
        <5> HIDE DEF wider
        <5> QED
          BY <1>3, <5>1 DEF EntriesOf
      <4>4. v <= a /\ b <= w /\ a \in Nat /\ b \in Nat
        BY <4>2, <4>3
      <4>5. v \in Nat /\ w \in Nat
        <5> HIDE DEF wider
        <5>1. First(EntriesOf(wider)) \in EntriesOf(wider) /\ Final(EntriesOf(wider)) \in EntriesOf(wider)
          BY <3>2, <4>1, Hull
        <5> QED
          BY <4>2, <5>1
      <4>6. \A f \in next : f \in files /\ f.level = l + 1 /\ Meets(f, a, b)
        BY <1>0, OverlappingFilesIs
      <4>7. \A f \in files : f.level = l + 1 /\ Meets(f, v, w) => f \in wider_next
        <5> HIDE DEF wider
        <5> QED
          BY <1>0, <3>2, OverlappingFilesIs
      <4> HIDE DEF a, b, v, w, wider_next, wider, next
      <4>8. ASSUME NEW f \in next PROVE Meets(f, v, w)
        <5>1. First(f.entries).key \in Nat /\ Final(f.entries).key \in Nat
          BY <4>6, TableKeys DEF Written
        <5>2. Meets(f, a, b)
          BY <4>6
        <5> QED
          BY <4>4, <4>5, <5>1, <5>2 DEF Meets
      <4> QED
        BY <4>6, <4>7, <4>8
    <3>4. IsFiniteSet(wider_next)
      <4>1. wider_next = c.in1
        <5> HIDE DEF expand, wider_next
        <5> QED
          BY <1>4, <2>3
      <4>2. c.in1 \in SUBSET files
        BY <1>7
      <4> QED
        BY <4>1, <4>2, FS_Subset DEF Written, Tables
    <3>5. next = wider_next
      <4>1. Cardinality(wider_next) = Cardinality(next)
        BY <2>3
      <4> HIDE DEF expand, wider, wider_next, next
      <4> QED
        BY <3>3, <3>4, <4>1, FS_Subset
    <3>6. c.in0 \cup c.in1 = B \cup wider
      <4> HIDE DEF expand, wider, wider_next, next
      <4> QED
        BY <1>3, <1>4, <2>3, <3>5
    <3> QED
      BY <3>1, <3>6
  <2> QED
    BY <2>2, <2>3
<1> QED
  BY <1>4, <1>9, <1>10

\* The least of some numbers.
LEMMA MinIs ==
    ASSUME NEW S \in SUBSET Nat, S # {}
    PROVE  Min(S) \in S /\ \A y \in S : Min(S) <= y
<1>1. \E x \in S : \A y \in S : x <= y
  BY LeastElement
<1> QED
  BY <1>1 DEF Min

\* PickCompaction chooses tables of one level, and of level 0 with whatever they lead to.
LEMMA PickCompactionIs ==
    ASSUME LevelTablesAssumption, NEW U, Written(U), \A f \in files : f.level \in Nat,
           file_to_compact # Nothing => file_to_compact \in files,
           SizeCompaction \/ file_to_compact # Nothing
    PROVE  \E l \in Nat :
             /\ l + 1 < NumLevels \/ (file_to_compact # Nothing /\ l = file_to_compact.level)
             /\ \E A \in SUBSET { f \in files : f.level = l } :
                  A # {} /\ Covered(A) /\ PickCompaction = Compaction(l, A)
<1> DEFINE l == IF SizeCompaction THEN CompactionLevel ELSE file_to_compact.level
           S == { f \in files : f.level = l }
           fs == Level(l)
           after == { i \in DOMAIN fs : compact_pointer[l] = Nothing
                                        \/ Before(compact_pointer[l], Final(fs[i].entries)) }
           i0 == Min(IF after = {} THEN {1} ELSE after)
           f == IF SizeCompaction THEN fs[i0] ELSE file_to_compact
           A == IF l = 0 THEN OverlappingFiles(0, {f}) ELSE {f}
<1>1. Tables(files, U)
  BY DEF Written
<1>2. /\ l \in Nat /\ (SizeCompaction => S # {})
      /\ l + 1 < NumLevels \/ (file_to_compact # Nothing /\ l = file_to_compact.level)
  <2>1. CASE SizeCompaction
    <3>1. CompactionLevel \in 0 .. NumLevels - 2 /\ NumLevels \in Nat /\ l = CompactionLevel
      BY <1>1, <2>1, CompactionLevelIs DEF LevelTablesAssumption
    <3>2. S # {}
      BY <1>1, <2>1, CompactionLevelIs
    <3> HIDE DEF l
    <3> QED
      BY <3>1, <3>2
  <2>2. CASE ~SizeCompaction
    BY <2>2
  <2> QED
    BY <2>1, <2>2
<1>3. f \in S
  <2>1. CASE SizeCompaction
    <3>1. fs = Sorted(S)
      BY DEF Level
    <3>2. S # {}
      BY <1>2, <2>1
    <3>3. Tables(S, U)
      BY <1>1, TablesOf
    <3>4. fs \in Seq(S) /\ \A x \in S : \E i \in 1 .. Len(fs) : fs[i] = x
      <4> HIDE DEF S, fs
      <4> QED
        BY <3>1, <3>3, SortedIs
    <3>5. after \in SUBSET (1 .. Len(fs))
      <4> HIDE DEF S, fs
      <4> QED
        BY SMTT(30), <3>4
    <3> HIDE DEF S, fs, after
    <3>6. 1 \in 1 .. Len(fs)
      BY <3>2, <3>4
    <3>7. i0 \in 1 .. Len(fs)
      <4> DEFINE T == IF after = {} THEN {1} ELSE after
      <4>1. T \in SUBSET Nat /\ T # {} /\ T \in SUBSET (1 .. Len(fs))
        BY SMTT(30), <3>5, <3>6
      <4>2. Min(T) \in T
        <5> HIDE DEF T
        <5> QED
          BY <4>1, MinIs
      <4>3. i0 = Min(T)
        OBVIOUS
      <4> HIDE DEF T, i0
      <4> QED
        BY <4>1, <4>2, <4>3
    <3> HIDE DEF i0
    <3> QED
      BY <2>1, <3>4, <3>7
  <2>2. CASE ~SizeCompaction
    BY <2>2
  <2> QED
    BY <2>1, <2>2
<1>4. PickCompaction = Compaction(l, A)
  BY DEF PickCompaction
<1> HIDE DEF f
<1>5. f \in files /\ f.level = l
  BY <1>3
<1> HIDE DEF l
<1>6. {f} \in SUBSET files /\ {f} # {} /\ Covered({f})
  BY <1>5 DEF Covered, Meets
<1>7. CASE l = 0
  <2> DEFINE G == OverlappingFiles(0, {f})
  <2>1. G \in SUBSET { g \in files : g.level = 0 } /\ \A g \in {f} : g.level = 0 => g \in G
    BY <1>6, OverlappingFilesIs
  <2>2. Covered({f} \cup G)
    BY <1>6, CoverGrows
  <2>3. f \in G /\ {f} \cup G = G /\ A = G
    BY <1>5, <1>7, <2>1
  <2> HIDE DEF G, A
  <2> QED
    BY <1>2, <1>4, <1>7, <2>1, <2>2, <2>3
<1>8. CASE l # 0
  BY <1>2, <1>3, <1>4, <1>6, <1>8
<1> QED
  BY <1>7, <1>8

\* CompactRange takes tables of the level it is at.
LEMMA RangeInputsIs ==
    ASSUME NEW U, Written(U)
    PROVE  RangeInputs \in SUBSET { f \in files : f.level = call.at }
<1> DEFINE all == GetOverlappingInputs(call.at, call.begin, call.end)
           fs == Sorted(all)
<1>1. all \in SUBSET { f \in files : f.level = call.at }
  BY DEF GetOverlappingInputs
<1> HIDE DEF all
<1>2. Tables(all, U)
  BY <1>1, TablesOf DEF Written
<1>3. fs \in Seq(all)
  BY <1>2, SortedIs
<1>4. RangeInputs \in SUBSET all
  <2> DEFINE Total(i) == Size(Range(SubSeq(fs, 1, i)))
             T == { j \in DOMAIN fs : Total(j - 1) < TargetFileSize }
  <2>1. RangeInputs = IF call.at = 0 THEN all ELSE { fs[i] : i \in T }
    BY DEF RangeInputs, all
  <2>2. T \in SUBSET DOMAIN fs
    OBVIOUS
  <2> HIDE DEF T, fs
  <2> QED
    BY <1>3, <2>1, <2>2
<1> QED
  BY <1>1, <1>4

-----------------------------------------------------------------------------
(* Where memtables and outputs go *)

\* A memtable goes to a level where no file meets it, nor on one above.
LEMMA PickLevelIs ==
    ASSUME LevelTablesAssumption, NEW begin, NEW end, NEW l, l = PickLevelForMemTableOutput(begin, end)
    PROVE  l \in Nat /\ l < NumLevels /\ (l > 0 => \A m \in 0 .. l : ~OverlapInLevel(m, begin, end))
<1> DEFINE Stops(k) == \/ k = MaxMemCompactLevel
                       \/ OverlapInLevel(k + 1, begin, end)
                       \/ /\ k + 2 < NumLevels
                          /\ Size(GetOverlappingInputs(k + 2, begin, end)) > MaxGrandParentOverlap
           T == { k \in 0 .. MaxMemCompactLevel : Stops(k) }
<1>1. l = IF OverlapInLevel(0, begin, end) THEN 0 ELSE Min(T)
  BY DEF PickLevelForMemTableOutput
<1>2. MaxMemCompactLevel \in Nat
  BY DEF LevelTablesAssumption
<1>3. T \in SUBSET Nat /\ MaxMemCompactLevel \in T
  BY <1>2
<1>4. \A k \in T : k \in 0 .. MaxMemCompactLevel
  OBVIOUS
<1>5. \A k \in 0 .. MaxMemCompactLevel : OverlapInLevel(k + 1, begin, end) => k \in T
  OBVIOUS
<1> HIDE DEF T
<1>6. Min(T) \in T /\ \A k \in T : Min(T) <= k
  BY <1>3, MinIs
<1>7. ASSUME l > 0, NEW m \in 0 .. l, OverlapInLevel(m, begin, end) PROVE FALSE
  <2>1. l = Min(T) /\ ~OverlapInLevel(0, begin, end) /\ l \in 0 .. MaxMemCompactLevel
    BY <1>1, <1>4, <1>6, <1>7
  <2>2. m # 0
    BY <1>7, <2>1
  <2>3. m - 1 \in 0 .. MaxMemCompactLevel /\ (m - 1) + 1 = m /\ m - 1 < l
    BY <1>2, <1>7, <2>1, <2>2
  <2>4. m - 1 \in T
    BY <1>5, <1>7, <2>3
  <2> QED
    BY <1>6, <2>1, <2>3, <2>4
<1>8. l \in Nat /\ l <= MaxMemCompactLevel
  BY <1>1, <1>2, <1>3, <1>4, <1>6
<1>9. l < NumLevels
  BY <1>8 DEF LevelTablesAssumption
<1> QED
  BY <1>7, <1>8, <1>9

\* Files made of the entries in T, one after the other, and the open one after them.
Pile(q, open, T) ==
  /\ q \in Seq(SUBSET T) /\ open \in SUBSET T
  /\ \A i \in 1 .. Len(q) : q[i] # {} /\ Apart(q[i], open)
  /\ \A i, j \in 1 .. Len(q) : i < j => Apart(q[i], q[j])

\* The open file is closed, if it has an entry.
LEMMA PileCloses ==
    ASSUME NEW T, NEW q, NEW open, Pile(q, open, T)
    PROVE  Pile(IF open = {} THEN q ELSE Append(q, open), {}, T)
<1> USE DEF Pile
<1>1. CASE open = {}
  BY <1>1
<1>2. CASE open # {}
  <2> DEFINE p == Append(q, open)
             n == Len(q)
  <2>1. /\ p \in Seq(SUBSET T) /\ Len(p) = n + 1 /\ n \in Nat /\ p[n + 1] = open
        /\ \A i \in 1 .. n : p[i] = q[i]
    OBVIOUS
  <2> HIDE DEF p
  <2>2. \A i \in 1 .. n + 1 : i \in 1 .. n \/ i = n + 1
    BY <2>1
  <2>3. \A i \in 1 .. n + 1 : p[i] # {} /\ Apart(p[i], {})
    BY <1>2, <2>1, <2>2 DEF Apart
  <2>4. ASSUME NEW i \in 1 .. n + 1, NEW j \in 1 .. n + 1, i < j PROVE Apart(p[i], p[j])
    <3>1. i \in 1 .. n /\ p[i] = q[i]
      BY <2>1, <2>4
    <3>2. CASE j = n + 1
      BY <2>1, <3>1, <3>2
    <3>3. CASE j # n + 1
      <4>1. j \in 1 .. n /\ p[j] = q[j]
        BY <2>1, <3>3
      <4> QED
        BY <2>4, <3>1, <4>1
    <3> QED
      BY <3>2, <3>3
  <2>5. Pile(p, {}, T)
    <3> HIDE DEF n
    <3> QED
      BY <2>1, <2>3, <2>4
  <2> QED
    BY <1>2, <2>5 DEF p
<1> QED
  BY <1>1, <1>2

\* An entry behind all others goes to the open file, or is dropped.
LEMMA PileGrows ==
    ASSUME NEW T, NEW q, NEW open, Pile(q, open, T), NEW e, \A d \in T : Before(d, e), NEW new \in SUBSET {e}
    PROVE  Pile(q, open \cup new, T \cup {e})
<1>1. q \in Seq(SUBSET (T \cup {e})) /\ open \cup new \in SUBSET (T \cup {e})
  BY DEF Pile
<1>2. \A i \in 1 .. Len(q) : q[i] \in SUBSET T
  BY DEF Pile
<1>3. \A i \in 1 .. Len(q) : Apart(q[i], open \cup new)
  BY <1>2 DEF Apart, Pile
<1> QED
  BY <1>1, <1>3 DEF Pile

\* What the loop of DoCompactionWork comes to with one entry more.
LEMMA GoesOn ==
    ASSUME LevelTablesAssumption, NEW c, NEW es, NEW i, NEW r, NEW T, Pile(r.done, r.open, T),
           \A d \in T : Before(d, es[i])
    PROVE  Pile(Goes(c, es, i, r).done, Goes(c, es, i, r).open, T \cup {es[i]})
<1> DEFINE overlapped == r.overlapped + IF i = 1 THEN 0 ELSE Size(Passed(c, es[i]) \ Passed(c, es[i - 1]))
           stop == overlapped > MaxGrandParentOverlap
           new == IF Drops(c, es, i) THEN {} ELSE {es[i]}
           kept == IF stop THEN {} ELSE r.open
           open == kept \cup new
           done == IF stop THEN Finished(r) ELSE r.done
           full == Cardinality(open) >= TargetFileSize
           s == Goes(c, es, i, r)
<1>1. s.done = (IF full THEN Append(done, open) ELSE done) /\ s.open = (IF full THEN {} ELSE open)
  BY DEF Goes
<1>2. Pile(done, kept, T)
  <2>1. Pile(Finished(r), {}, T)
    BY PileCloses DEF Finished
  <2> HIDE DEF stop
  <2> QED
    BY <2>1
<1>3. new \in SUBSET {es[i]}
  OBVIOUS
<1> HIDE DEF done, kept, new, s
<1>4. Pile(done, open, T \cup {es[i]})
  BY <1>2, <1>3, PileGrows
<1>5. full => open # {}
  <2>1. TargetFileSize \in Nat /\ TargetFileSize > 0
    BY DEF LevelTablesAssumption
  <2>2. Cardinality({}) = 0
    BY FS_EmptySet
  <2> HIDE DEF open, full
  <2> SUFFICES ASSUME open = {} PROVE ~full
    OBVIOUS
  <2>3. Cardinality(open) = 0
    BY <2>2
  <2>4. ~(0 >= TargetFileSize)
    BY <2>1
  <2> QED
    BY <2>3, <2>4 DEF full
<1> HIDE DEF open, full
<1>6. Pile(s.done, s.open, T \cup {es[i]})
  BY <1>1, <1>4, <1>5, PileCloses
<1> QED
  BY <1>6 DEF s

\* The loop, and where it comes to.
LEMMA OutputsSteps ==
    ASSUME NEW c, NEW es, es = InOrder(EntriesOf(c.in0 \cup c.in1)), Len(es) \in Nat
    PROVE  \E f : /\ f[0] = [done |-> <<>>, open |-> {}, overlapped |-> 0]
                  /\ \A k \in 0 .. Len(es) : k # 0 => f[k] = Goes(c, es, k, f[k - 1])
                  /\ Outputs(c) = Finished(f[Len(es)])
<1> DEFINE n == Len(es)
           start == [done |-> <<>>, open |-> {}, overlapped |-> 0]
           P(f, k) == f = [i \in 0 .. k |-> IF i = 0 THEN start ELSE Goes(c, es, i, f[i - 1])]
           S == { k \in Nat : \E f : P(f, k) }
<1>1. Outputs(c) = Finished((CHOOSE f : P(f, n))[n])
  BY DEF Outputs
<1>2. n \in Nat
  OBVIOUS
<1> HIDE DEF n
<1>3. 0 \in S
  <2> DEFINE f == [i \in 0 .. 0 |-> start]
  <2>1. P(f, 0)
    OBVIOUS
  <2> HIDE DEF P, f
  <2> QED
    BY <2>1
<1>4. ASSUME NEW k \in Nat, k \in S PROVE k + 1 \in S
  <2>1. PICK f : P(f, k)
    BY <1>4
  <2> DEFINE g == [i \in 0 .. k + 1 |-> IF i = k + 1 THEN Goes(c, es, k + 1, f[k]) ELSE f[i]]
  <2>2. \A i \in 0 .. k + 1 : g[i] = IF i = 0 THEN start ELSE Goes(c, es, i, g[i - 1])
    <3> SUFFICES ASSUME NEW i \in 0 .. k + 1 PROVE g[i] = IF i = 0 THEN start ELSE Goes(c, es, i, g[i - 1])
      OBVIOUS
    <3>0. \A j \in 0 .. k : g[j] = f[j]
      OBVIOUS
    <3>1. CASE i = k + 1
      <4>1. g[i] = Goes(c, es, i, f[k]) /\ i - 1 = k /\ k \in 0 .. k /\ i # 0
        BY <3>1
      <4> HIDE DEF g, start
      <4> QED
        BY <3>0, <4>1
    <3>2. CASE i # k + 1
      <4>1. i \in 0 .. k /\ g[i] = f[i]
        BY <3>2
      <4>2. f[i] = IF i = 0 THEN start ELSE Goes(c, es, i, f[i - 1])
        <5> HIDE DEF start
        <5> QED
          BY <2>1, <4>1
      <4>3. i # 0 => i - 1 \in 0 .. k
        BY <4>1
      <4> HIDE DEF g, start
      <4> QED
        BY <3>0, <4>1, <4>2, <4>3
    <3> QED
      BY <3>1, <3>2
  <2>3. g = [i \in 0 .. k + 1 |-> g[i]]
    OBVIOUS
  <2> HIDE DEF g, start
  <2>4. P(g, k + 1)
    BY <2>2, <2>3
  <2> HIDE DEF P
  <2> QED
    BY <2>4
<1>5. \E f : P(f, n)
  <2> HIDE DEF S, P
  <2>1. Nat \subseteq S
    BY <1>3, <1>4, StepInduction
  <2> QED
    BY <1>2, <2>1 DEF S
<1>6. PICK f : P(f, n) /\ Outputs(c) = Finished(f[n])
  <2> HIDE DEF P
  <2> QED
    BY <1>1, <1>5
<1>7. f[0] = start /\ \A k \in 0 .. n : k # 0 => f[k] = Goes(c, es, k, f[k - 1])
  <2> HIDE DEF start
  <2>1. \A k \in 0 .. n : f[k] = IF k = 0 THEN start ELSE Goes(c, es, k, f[k - 1])
    BY <1>6
  <2>2. 0 \in 0 .. n
    BY <1>2
  <2> HIDE DEF P
  <2> QED
    BY <2>1, <2>2
<1> HIDE DEF P
<1> QED
  BY <1>6, <1>7 DEF n

\* What a compaction writes is a pile: files one after the other, whatever it drops and wherever
\* it begins a new one.
LEMMA OutputsIs ==
    ASSUME LevelTablesAssumption, NEW U, Entries(U), NEW c, NEW E, E = EntriesOf(c.in0 \cup c.in1),
           E \in SUBSET U, IsFiniteSet(E)
    PROVE  Pile(Outputs(c), {}, E)
<1> DEFINE es == InOrder(EntriesOf(c.in0 \cup c.in1))
           n == Len(es)
           start == [done |-> <<>>, open |-> {}, overlapped |-> 0]
<1>1. /\ n \in Nat /\ \A i \in 1 .. n : es[i] \in E
      /\ \A x \in E : \E i \in 1 .. n : es[i] = x
      /\ \A i, j \in 1 .. n : i < j => Before(es[i], es[j])
  <2>1. es = InOrder(E)
    OBVIOUS
  <2> HIDE DEF es
  <2>2. es \in Seq(E)
    BY <2>1, InOrderIs
  <2>3. /\ \A x \in E : \E i \in 1 .. n : es[i] = x
        /\ \A i, j \in 1 .. n : i < j => Before(es[i], es[j])
    BY ZenonT(30), <2>1, InOrderIs
  <2>4. n \in Nat /\ \A i \in 1 .. n : es[i] \in E
    BY <2>2
  <2> HIDE DEF n
  <2> QED
    BY <2>3, <2>4
<1> HIDE DEF es, n
<1>2. PICK f : /\ f[0] = start /\ \A k \in 0 .. n : k # 0 => f[k] = Goes(c, es, k, f[k - 1])
               /\ Outputs(c) = Finished(f[n])
  <2>1. es = InOrder(EntriesOf(c.in0 \cup c.in1)) /\ Len(es) \in Nat
    BY <1>1 DEF es, n
  <2> QED
    BY <2>1, OutputsSteps DEF n
<1> HIDE DEF start
<1> DEFINE T(k) == { es[i] : i \in 1 .. k }
           G == { k \in Nat : k <= n => Pile(f[k].done, f[k].open, T(k)) }
<1>3. 0 \in G
  <2>1. Pile(<<>>, {}, {})
    BY DEF Pile
  <2>2. T(0) = {}
    OBVIOUS
  <2>3. f[0].done = <<>> /\ f[0].open = {}
    BY <1>2 DEF start
  <2> HIDE DEF T
  <2>4. Pile(f[0].done, f[0].open, T(0))
    BY <2>1, <2>2, <2>3
  <2> QED
    BY <2>4
<1>4. ASSUME NEW k \in Nat, k \in G PROVE k + 1 \in G
  <2> SUFFICES ASSUME k + 1 <= n PROVE Pile(f[k + 1].done, f[k + 1].open, T(k + 1))
    OBVIOUS
  <2>1. k + 1 \in 1 .. n /\ k <= n
    BY <1>1
  <2>2. Pile(f[k].done, f[k].open, T(k))
    BY <1>4, <2>1
  <2>3. f[k + 1] = Goes(c, es, k + 1, f[k])
    <3>1. k + 1 \in 0 .. n /\ k + 1 # 0 /\ (k + 1) - 1 = k
      BY <2>1
    <3> QED
      BY <1>2, <3>1
  <2>4. \A d \in T(k) : Before(d, es[k + 1])
    <3>1. ASSUME NEW j \in 1 .. k PROVE Before(es[j], es[k + 1])
      <4>1. j \in 1 .. n /\ k + 1 \in 1 .. n /\ j < k + 1
        BY <1>1, <2>1
      <4> QED
        BY <1>1, <4>1
    <3> QED
      BY <3>1
  <2>5. T(k + 1) = T(k) \cup {es[k + 1]}
    <3>1. \A j \in 1 .. k + 1 : j \in 1 .. k \/ j = k + 1
      OBVIOUS
    <3>2. 1 .. k \subseteq 1 .. k + 1 /\ k + 1 \in 1 .. k + 1
      OBVIOUS
    <3> QED
      BY <3>1, <3>2
  <2> DEFINE r == f[k]
             t == T(k)
             i == k + 1
  <2>6. Pile(r.done, r.open, t) /\ \A d \in t : Before(d, es[i])
    BY <2>2, <2>4
  <2> HIDE DEF T, r, t, i, G
  <2>7. Pile(Goes(c, es, i, r).done, Goes(c, es, i, r).open, t \cup {es[i]})
    BY <2>6, GoesOn
  <2> QED
    BY <2>3, <2>5, <2>7 DEF r, t, i
<1>5. Pile(f[n].done, f[n].open, T(n))
  <2> HIDE DEF G, T
  <2>1. Nat \subseteq G
    BY <1>3, <1>4, StepInduction
  <2>2. n \in G /\ n <= n
    BY <1>1, <2>1
  <2> QED
    BY <2>2 DEF G
<1>6. T(n) \in SUBSET E
  BY <1>1
<1>7. Pile(Finished(f[n]), {}, T(n))
  BY <1>5, PileCloses DEF Finished
<1> HIDE DEF T
<1>8. Pile(Finished(f[n]), {}, E)
  <2> DEFINE q == Finished(f[n])
             t == T(n)
  <2>1. Pile(q, {}, t) /\ t \in SUBSET E
    BY <1>6, <1>7
  <2> HIDE DEF q, t
  <2>2. q \in Seq(SUBSET E)
    <3> DEFINE A == SUBSET t
               B == SUBSET E
    <3>1. A \subseteq B /\ q \in Seq(A)
      BY <2>1 DEF Pile
    <3> HIDE DEF A, B
    <3>2. q \in Seq(B)
      BY <3>1
    <3> QED
      BY <3>2 DEF B
  <2>3. Pile(q, {}, E)
    BY <2>1, <2>2 DEF Pile
  <2> QED
    BY <2>3 DEF q
<1> QED
  BY <1>2, <1>8

-----------------------------------------------------------------------------
(* The invariant *)

\* The writes so far, numbered.
OpsInv == /\ ops \in Seq(Entry) /\ last_sequence = Len(ops)
          /\ \A i \in 1 .. Len(ops) : ops[i].seq = i

\* Memtables hold writes, and so do the tables, each at least one.
MemInv == mem \in SUBSET Range(ops) /\ (imm # Nothing => imm \in SUBSET Range(ops))
FileSet == [number : Nat, level : Nat, entries : (SUBSET Range(ops)) \ {{}}]
FilesInv == files \in SUBSET FileSet /\ IsFiniteSet(files) /\ next_file \in Nat

\* The property.
LevelsInv == \A l \in Nat : l > 0 => InLine({ f \in files : f.level = l })

\* What seeks have charged is a table of the version.
CandidateInv == file_to_compact # Nothing => file_to_compact \in files

\* CompactRange is there while its compaction is.
CallInv == call # Nothing \/ (bg # Nothing /\ bg.manual)
             => /\ {"at", "posted"} \subseteq DOMAIN call
                /\ call.at \in Int /\ (call.posted => call.at \in Nat)

\* The compaction under way.
BgInv == bg # Nothing => Taken(bg) /\ (bg.manual \/ Covered(bg.in0 \cup bg.in1))

Places == OpsInv /\ MemInv /\ FilesInv /\ LevelsInv /\ CandidateInv /\ CallInv /\ BgInv

\* Each write has a sequence number of its own.
LEMMA WritesAre ==
    ASSUME OpsInv, LevelTablesAssumption
    PROVE  /\ Entries(Range(ops)) /\ IsFiniteSet(Range(ops)) /\ last_sequence \in Nat /\ NumKeys \in Nat
           /\ \A e \in Range(ops) : e.key \in 1 .. NumKeys /\ e.seq \in Nat /\ e.seq <= last_sequence
<1> DEFINE n == Len(ops)
           U == Range(ops)
<1>1. n \in Nat /\ U = { ops[i] : i \in 1 .. n } /\ NumKeys \in Nat
  BY SMTT(30) DEF OpsInv, Range, LevelTablesAssumption
<1>2. \A i \in 1 .. n : ops[i] \in Entry /\ ops[i].seq = i
  BY DEF OpsInv
<1>3. \A i \in 1 .. n : ops[i].key \in 1 .. NumKeys /\ ops[i].key \in Nat
  BY <1>1, <1>2 DEF Entry
<1>4. IsFiniteSet(U)
  <2> DEFINE f == [i \in 1 .. n |-> ops[i]]
  <2>1. f \in Surjection(1 .. n, U)
    BY <1>1 DEF Surjection
  <2>2. IsFiniteSet(1 .. n)
    BY <1>1, FS_Interval
  <2> HIDE DEF f, U
  <2> QED
    BY <2>1, <2>2, FS_Surjection
<1> HIDE DEF U
<1>5. \A e \in U : e.key \in 1 .. NumKeys /\ e.key \in Nat /\ e.seq \in Nat /\ e.seq <= n
  BY SMTT(30), <1>1, <1>2, <1>3
<1>6. \A d, e \in U : d.seq = e.seq => d = e
  BY <1>1, <1>2
<1> QED
  BY <1>1, <1>4, <1>5, <1>6 DEF Entries, OpsInv, U

\* The tables hold writes.
LEMMA WrittenIs ==
    ASSUME OpsInv, FilesInv, LevelTablesAssumption
    PROVE  Written(Range(ops)) /\ \A f \in files : f.level \in Nat /\ f.number \in Nat
<1>1. \A f \in files : f.level \in Nat /\ f.number \in Nat /\ f.entries \in SUBSET Range(ops) /\ f.entries # {}
  BY DEF FilesInv, FileSet
<1> QED
  BY <1>1, WritesAre DEF Written, Tables, FilesInv

\* LevelsInv is LevelsDisjoint.
LEMMA InLineIs ==
    ASSUME NEW U, NEW fs, Tables(fs, U), \A f \in fs : f.level \in Nat
    PROVE  Disjoint(fs) <=> \A l \in Nat : l > 0 => InLine({ f \in fs : f.level = l })
<1>1. \A f, g \in fs : Before(Final(f.entries), First(g.entries)) <=> Apart(f.entries, g.entries)
  <2> SUFFICES ASSUME NEW f \in fs, NEW g \in fs
               PROVE  Before(Final(f.entries), First(g.entries)) <=> Apart(f.entries, g.entries)
    OBVIOUS
  <2>1. /\ f.entries \in SUBSET U /\ g.entries \in SUBSET U /\ f.entries # {} /\ g.entries # {}
        /\ IsFiniteSet(f.entries) /\ IsFiniteSet(g.entries) /\ Entries(U)
    BY TableEnds DEF Tables
  <2> QED
    BY <2>1, ApartIs
<1> QED
  BY <1>1 DEF Disjoint, InLine

\* At the start.
LEMMA InitPlaces ==
    ASSUME LevelTablesAssumption, StartsAssumption, Init
    PROVE  Places /\ \A f \in files : f.number < next_file
<1>1. PICK s \in Starts : /\ files = s.files /\ ops = s.ops
                          /\ next_file = 1 + Max({0} \cup { f.number : f \in s.files })
                          /\ last_sequence = Len(s.ops)
  BY DEF Init
<1>2. /\ s.ops \in Seq(Entry) /\ \A i \in 1 .. Len(s.ops) : s.ops[i].seq = i
      /\ IsFiniteSet(s.files) /\ Disjoint(s.files)
      /\ s.files \subseteq [number : Nat, level : Nat, entries : (SUBSET Range(s.ops)) \ {{}}]
  BY <1>1 DEF StartsAssumption
<1>3. OpsInv
  BY <1>1, <1>2 DEF OpsInv
<1>4. MemInv /\ CandidateInv /\ CallInv /\ BgInv
  BY DEF Init, MemInv, CandidateInv, CallInv, BgInv
<1>5. next_file \in Nat /\ \A f \in files : f.number < next_file
  <2> DEFINE N == { f.number : f \in files }
             T == {0} \cup N
             h == [f \in files |-> f.number]
  <2>1. h \in Surjection(files, N)
    BY DEF Surjection
  <2>2. IsFiniteSet(N)
    <3>1. IsFiniteSet(files)
      BY <1>1, <1>2
    <3> HIDE DEF N, h
    <3> QED
      BY <2>1, <3>1, FS_Surjection
  <2>3. N \in SUBSET Nat /\ \A f \in files : f.number \in N /\ f.number \in T
    BY <1>1, <1>2
  <2> HIDE DEF N
  <2>4. IsFiniteSet(T)
    <3>1. IsFiniteSet(N \cup {0})
      BY <2>2, FS_AddElement
    <3>2. T = N \cup {0}
      OBVIOUS
    <3> QED
      BY <3>1, <3>2
  <2>5. T \in SUBSET Int /\ T # {} /\ T \in SUBSET Nat
    BY <2>3
  <2> HIDE DEF T
  <2>6. Max(T) \in T /\ \A y \in T : y <= Max(T)
    BY <2>4, <2>5, MaxIs
  <2>7. next_file = 1 + Max(T)
    BY <1>1 DEF T, N
  <2> DEFINE x == Max(T)
  <2>8. x \in Nat /\ next_file = 1 + x /\ \A f \in files : f.number \in Nat /\ f.number <= x
    BY <2>3, <2>5, <2>6, <2>7
  <2> HIDE DEF x
  <2> QED
    BY <2>8
<1>6. FilesInv
  BY <1>1, <1>2, <1>5 DEF FilesInv, FileSet
<1>7. LevelsInv
  <2>1. Tables(files, Range(ops)) /\ \A f \in files : f.level \in Nat
    BY <1>3, <1>6, WrittenIs DEF Written
  <2> QED
    BY <1>1, <1>2, <2>1, InLineIs DEF LevelsInv
<1> QED
  BY <1>3, <1>4, <1>5, <1>6, <1>7 DEF Places

\* The steps that leave the files and the writes alone.
Still == UNCHANGED <<last_sequence, ops, files, next_file, bg>>

\* Of these, only the memtables, the candidate and the call are left to look at.
LEMMA StillPlaces ==
    ASSUME Places, Still, MemInv', CandidateInv', CallInv'
    PROVE  Places'
<1>1. OpsInv' /\ FilesInv' /\ LevelsInv'
  BY DEF Places, Still, OpsInv, FilesInv, FileSet, LevelsInv
<1>2. BgInv'
  BY DEF Places, Still, BgInv, Taken
<1> QED
  BY <1>1, <1>2 DEF Places

\* A read that makes a table the candidate of a seek compaction.
LEMMA ChargeSeekPlaces ==
    ASSUME Places, LevelTablesAssumption, NEW k, ChargeSeek(k)
    PROVE  Places'
<1>1. Written(Range(ops)) /\ \A f \in files : f.number \in Nat
  BY WrittenIs DEF Places
<1>2. Searched(k, last_sequence) \in Seq(files)
  BY <1>1, SearchedIs DEF Written
<1> DEFINE fs == Searched(k, last_sequence)
<1>3. Len(fs) > 1 /\ file_to_compact' = fs[1]
  BY DEF ChargeSeek
<1>4. fs[1] \in files
  <2> HIDE DEF fs
  <2> QED
    BY <1>2, <1>3 DEF fs
<1>5. files' = files /\ mem' = mem /\ imm' = imm /\ ops' = ops /\ call' = call /\ Still
  BY DEF ChargeSeek, memVars, Still
<1> HIDE DEF fs
<1>6. CandidateInv' /\ MemInv' /\ CallInv'
  BY <1>3, <1>4, <1>5 DEF CandidateInv, MemInv, CallInv, Places, Still
<1> QED
  BY <1>5, <1>6, StillPlaces

\* An iterator that does so.
LEMMA RecordReadSamplePlaces ==
    ASSUME Places, LevelTablesAssumption, RecordReadSample
    PROVE  Places'
<1>1. Written(Range(ops)) /\ \A f \in files : f.number \in Nat
  BY WrittenIs DEF Places
<1>2. PICK e \in UNION Range(iter.db.in.children) :
        Len(Searched(e.key, e.seq)) > 1 /\ file_to_compact' = Searched(e.key, e.seq)[1]
  BY DEF RecordReadSample
<1> DEFINE fs == Searched(e.key, e.seq)
<1>3. fs \in Seq(files)
  BY <1>1, SearchedIs DEF Written
<1>4. fs[1] \in files /\ file_to_compact' = fs[1]
  <2>1. Len(fs) > 1 /\ file_to_compact' = fs[1]
    BY <1>2
  <2> HIDE DEF fs
  <2> QED
    BY <1>3, <2>1
<1>5. files' = files /\ mem' = mem /\ imm' = imm /\ ops' = ops /\ call' = call /\ Still
  BY DEF RecordReadSample, memVars, Still
<1> HIDE DEF fs
<1>6. CandidateInv' /\ MemInv' /\ CallInv'
  BY <1>4, <1>5 DEF CandidateInv, MemInv, CallInv, Places, Still
<1> QED
  BY <1>5, <1>6, StillPlaces

\* Snapshots, iterators and the other steps of CompactRange.
LEMMA ClientPlaces ==
    ASSUME Places,
           \/ GetSnapshot \/ \E s \in snapshots : ReleaseSnapshot(s)
           \/ \E s \in snapshots \cup {last_sequence} : NewIterator(s)
           \/ MoveIterator \/ UNCHANGED vars
    PROVE  Places'
<1>1. UNCHANGED <<mem, imm, last_sequence, ops, versionVars, bg, call>>
  <2>1. CASE GetSnapshot
    BY <2>1 DEF GetSnapshot, memVars
  <2>2. CASE \E s \in snapshots : ReleaseSnapshot(s)
    BY <2>2 DEF ReleaseSnapshot, memVars
  <2>3. CASE \E s \in snapshots \cup {last_sequence} : NewIterator(s)
    BY <2>3 DEF NewIterator
  <2>4. CASE MoveIterator
    BY <2>4 DEF MoveIterator, Moves
  <2>5. CASE UNCHANGED vars
    BY <2>5 DEF vars, memVars
  <2> QED
    BY <2>1, <2>2, <2>3, <2>4, <2>5
<1>2. MemInv' /\ CandidateInv' /\ CallInv'
  BY <1>1 DEF MemInv, CandidateInv, CallInv, Places, versionVars
<1>3. Still
  BY <1>1 DEF Still, versionVars
<1> QED
  BY <1>2, <1>3, StillPlaces

\* Four of the steps of CompactRange.
LEMMA CallPlaces ==
    ASSUME Places, CompactRange \/ ForceSwitch \/ PostRange \/ RangeDone
    PROVE  Places'
<1>1. CASE CompactRange
  <2>1. CallInv'
    BY <1>1 DEF CompactRange, CallInv
  <2>2. MemInv' /\ CandidateInv' /\ Still
    BY <1>1 DEF CompactRange, MemInv, CandidateInv, Places, Still, memVars, versionVars
  <2> QED
    BY <2>1, <2>2, StillPlaces
<1>2. CASE ForceSwitch
  <2>1. CallInv'
    BY <1>2 DEF ForceSwitch, CallInv, Places
  <2>2. MemInv' /\ CandidateInv' /\ Still
    BY <1>2 DEF ForceSwitch, MemInv, CandidateInv, Places, Still, versionVars
  <2> QED
    BY <2>1, <2>2, StillPlaces
<1>3. CASE PostRange
  <2>1. CallInv'
    <3> DEFINE m == Max({0, call.at})
    <3>1. call' = [call EXCEPT !.at = m, !.posted = TRUE] /\ {"at", "posted"} \subseteq DOMAIN call /\ call.at \in Int
      BY <1>3 DEF PostRange, CallInv, Places
    <3>2. m \in Nat
      <4>1. IsFiniteSet({0, call.at})
        <5>1. IsFiniteSet({} \cup {0})
          BY FS_EmptySet, FS_AddElement
        <5>2. IsFiniteSet(({} \cup {0}) \cup {call.at})
          BY <5>1, FS_AddElement
        <5>3. ({} \cup {0}) \cup {call.at} = {0, call.at}
          OBVIOUS
        <5> QED
          BY <5>2, <5>3
      <4>2. m \in {0, call.at} /\ \A y \in {0, call.at} : y <= m
        BY <3>1, <4>1, MaxIs
      <4> HIDE DEF m
      <4> QED
        BY <3>1, <4>2
    <3> HIDE DEF m
    <3> QED
      BY <3>1, <3>2 DEF CallInv
  <2>2. MemInv' /\ CandidateInv' /\ Still
    BY <1>3 DEF PostRange, MemInv, CandidateInv, Places, Still, memVars, versionVars
  <2> QED
    BY <2>1, <2>2, StillPlaces
<1>4. CASE RangeDone
  <2>1. CallInv'
    BY <1>4 DEF RangeDone, CallInv, Places
  <2>2. MemInv' /\ CandidateInv' /\ Still
    BY <1>4 DEF RangeDone, MemInv, CandidateInv, Places, Still, memVars, versionVars
  <2> QED
    BY <2>1, <2>2, StillPlaces
<1> QED
  BY <1>1, <1>2, <1>3, <1>4

\* A write, which may make the memtable the immutable one.
LEMMA WritePlaces ==
    ASSUME Places, LevelTablesAssumption, NEW k \in 1 .. NumKeys, NEW type \in {"value", "deletion"}, Write(k, type)
    PROVE  Places'
<1> DEFINE e == [key |-> k, seq |-> last_sequence + 1, type |-> type]
           n == Len(ops)
<1>1. PICK full \in BOOLEAN :
        /\ mem' = (IF full THEN {} ELSE mem) \cup {e}
        /\ imm' = IF full THEN mem ELSE imm
        /\ last_sequence' = last_sequence + 1
        /\ ops' = Append(ops, e)
        /\ UNCHANGED <<versionVars, snapshots, bg, call, faults>>
  BY DEF Write
<1>2. ops \in Seq(Entry) /\ n \in Nat /\ last_sequence = n /\ \A i \in 1 .. n : ops[i].seq = i
  BY DEF Places, OpsInv
<1>3. e \in Entry /\ e.seq = n + 1
  BY <1>2 DEF Entry
<1> HIDE DEF e
<1>4. /\ ops' \in Seq(Entry) /\ Len(ops') = n + 1 /\ ops'[n + 1] = e
      /\ \A i \in 1 .. n : ops'[i] = ops[i]
  BY <1>1, <1>2, <1>3
<1> HIDE DEF n
<1>5. OpsInv'
  <2>1. \A i \in 1 .. n + 1 : i \in 1 .. n \/ i = n + 1
    BY <1>2
  <2>2. \A i \in 1 .. n + 1 : ops'[i].seq = i
    BY <1>2, <1>3, <1>4, <2>1
  <2> QED
    BY <1>1, <1>2, <1>4, <2>2 DEF OpsInv
<1>6. Range(ops) \subseteq Range(ops') /\ e \in Range(ops')
  <2>1. Range(ops) = { ops[i] : i \in 1 .. n }
    BY SMTT(30), <1>2 DEF Range, n
  <2>2. Range(ops') = { ops'[i] : i \in 1 .. n + 1 }
    BY SMTT(30), <1>4 DEF Range
  <2> QED
    BY <1>2, <1>4, <2>1, <2>2
<1>7. MemInv'
  BY <1>1, <1>6 DEF MemInv, Places
<1>8. FilesInv'
  <2>1. FileSet \subseteq FileSet'
    BY <1>6 DEF FileSet
  <2> QED
    BY <1>1, <2>1 DEF FilesInv, Places, versionVars
<1>9. LevelsInv' /\ CandidateInv' /\ CallInv' /\ BgInv'
  BY <1>1 DEF LevelsInv, CandidateInv, CallInv, BgInv, Taken, Places, versionVars
<1> QED
  BY <1>5, <1>7, <1>8, <1>9 DEF Places

\* Entries of other keys.
LEMMA KeysApart ==
    ASSUME NEW U, Entries(U), NEW A \in SUBSET U, NEW B \in SUBSET U, IsFiniteSet(A), IsFiniteSet(B), A # {}, B # {}
    PROVE  /\ First(A).key \in Nat /\ Final(A).key \in Nat /\ First(A).key <= Final(A).key
           /\ First(A) \in A /\ Final(A) \in A
           /\ Final(A).key < First(B).key => Apart(A, B)
<1>1. First(A) \in A /\ \A d \in A : d = First(A) \/ Before(First(A), d)
  BY FirstIs
<1>2. Final(A) \in A /\ \A d \in A : d = Final(A) \/ Before(d, Final(A))
  BY FinalIs
<1>3. First(B) \in B /\ \A d \in B : d = First(B) \/ Before(First(B), d)
  BY FirstIs
<1>4. \A d \in U : d.key \in Nat /\ d.seq \in Nat
  BY DEF Entries
<1>5. First(A).key <= Final(A).key
  BY <1>1, <1>2, <1>4 DEF Before
<1>6. ASSUME Final(A).key < First(B).key, NEW a \in A, NEW b \in B PROVE Before(a, b)
  <2>1. a.key <= Final(A).key /\ First(B).key <= b.key
    BY <1>2, <1>3, <1>4 DEF Before
  <2>2. /\ a.key \in Nat /\ b.key \in Nat /\ Final(A).key \in Nat /\ First(B).key \in Nat
    BY <1>2, <1>3, <1>4
  <2>3. a.key < b.key
    BY <1>6, <2>1, <2>2
  <2> QED
    BY <2>3 DEF Before
<1> QED
  BY <1>1, <1>2, <1>4, <1>5, <1>6 DEF Apart

\* Some file of a covered compaction meets whatever lies among its keys.
LEMMA CoveredMeets ==
    ASSUME NEW U, NEW A, Tables(A, U), A # {}, Covered(A), NEW begin \in Nat, NEW end \in Nat, begin <= end,
           begin <= Final(EntriesOf(A)).key, First(EntriesOf(A)).key <= end
    PROVE  \E h \in A : Meets(h, begin, end)
<1> DEFINE lo == First(EntriesOf(A)).key
           hi == Final(EntriesOf(A)).key
           k == IF begin <= lo THEN lo ELSE begin
<1>1. PICK f \in A : First(f.entries).key <= lo
  BY Hull
<1>2. PICK g \in A : hi <= Final(g.entries).key
  BY Hull
<1>3. lo \in Nat /\ hi \in Nat /\ lo <= hi
  BY Hull
<1>4. \A h \in A : First(h.entries).key \in Nat /\ Final(h.entries).key \in Nat
  BY TableKeys
<1> HIDE DEF lo, hi
<1>5. lo <= end /\ begin <= hi
  BY DEF lo, hi
<1>6. k \in Nat /\ lo <= k /\ k <= hi /\ begin <= k /\ k <= end
  BY <1>3, <1>5
<1> HIDE DEF k
<1>7. First(f.entries).key <= k /\ k <= Final(g.entries).key
  BY <1>1, <1>2, <1>3, <1>4, <1>6
<1>8. PICK h \in A : Meets(h, k, k)
  BY <1>6, <1>7 DEF Covered
<1>9. Meets(h, begin, end)
  BY <1>4, <1>6, <1>8 DEF Meets
<1> QED
  BY <1>9

\* A memtable becomes a table, maybe between two entries of a merge.  On a level from 1 it meets
\* nobody; if it is the level a compaction writes to, its keys are beside those of the compaction,
\* as some table of a Covered one would meet it, unless that is manual: then there is a hole.
LEMMA CompactMemTablePlaces ==
    ASSUME Places, LevelTablesAssumption, CompactMemTable
    PROVE  hole' \/ Places'
<1>1. imm # Nothing /\ UNCHANGED <<mem, last_sequence, ops, bg, call>> /\ imm' = Nothing
  BY DEF CompactMemTable
<1>2. CASE imm = {}
  <2>1. UNCHANGED <<files, next_file, file_to_compact>>
    BY <1>2 DEF CompactMemTable
  <2>2. Still /\ MemInv' /\ CandidateInv' /\ CallInv'
    BY <1>1, <2>1 DEF Still, MemInv, CandidateInv, CallInv, Places
  <2> QED
    BY <2>2, StillPlaces
<1>3. CASE imm # {}
  <2> DEFINE U == Range(ops)
             begin == First(imm).key
             end == Final(imm).key
             l == PickLevelForMemTableOutput(begin, end)
             new == [number |-> next_file, level |-> l, entries |-> imm]
             E == EntriesOf(bg.in0 \cup bg.in1)
  <2> SUFFICES ASSUME ~hole' PROVE Places'
    OBVIOUS
  <2>1. /\ files' = files \cup {new} /\ file_to_compact' = Nothing /\ next_file' = next_file + 1
        /\ ~(/\ bg # Nothing /\ bg.manual /\ l = bg.level + 1
             /\ begin <= Final(E).key /\ First(E).key <= end)
    BY <1>3 DEF CompactMemTable, Install
  <2>2. Written(U) /\ Tables(files, U) /\ Entries(U) /\ IsFiniteSet(U) /\ \A f \in files : f.level \in Nat
    BY WrittenIs DEF Places, Written, Tables
  <2>3. imm \in SUBSET U /\ imm # {} /\ IsFiniteSet(imm)
    BY <1>1, <1>3, <2>2, FS_Subset DEF Places, MemInv
  <2>4. begin \in Nat /\ end \in Nat /\ begin <= end
    <3> HIDE DEF U
    <3> QED
      BY <2>2, <2>3, KeysApart
  <2>5. l \in Nat /\ (l > 0 => \A m \in 0 .. l : ~OverlapInLevel(m, begin, end))
    <3> HIDE DEF begin, end, l
    <3> QED
      BY PickLevelIs DEF l
  <2>6. new.level = l /\ new.entries = imm /\ new \in FileSet
    <3> HIDE DEF begin, end, l
    <3> QED
      BY <2>3, <2>5 DEF FileSet, Places, FilesInv
  <2> HIDE DEF U, begin, end, l, new
  <2>7. LevelsInv
    BY DEF Places
  <2>8. ASSUME l > 0, NEW f \in files, f.level \in 0 .. l PROVE ~Meets(f, begin, end)
    <3>1. ~OverlapInLevel(f.level, begin, end) /\ f.level \in Nat
      BY <2>5, <2>8
    <3>2. f.level > 0 => InLine({ g \in files : g.level = f.level })
      BY <2>7, <3>1 DEF LevelsInv
    <3> QED
      BY <2>2, <2>4, <3>1, <3>2, OverlapIs
  <2>9. ASSUME NEW B \in SUBSET U, B # {}, Final(B).key < begin \/ end < First(B).key
        PROVE  Beside(new, B)
    <3>1. IsFiniteSet(B)
      BY <2>2, FS_Subset
    <3>2. CASE Final(B).key < begin
      <4>0. Final(B).key < First(imm).key
        BY <3>2 DEF begin
      <4>1. Apart(B, imm)
        BY <2>2, <2>3, <2>9, <3>1, <4>0, KeysApart
      <4> QED
        BY <2>6, <4>1 DEF Beside
    <3>3. CASE end < First(B).key
      <4>0. Final(imm).key < First(B).key
        BY <3>3 DEF end
      <4>1. Apart(imm, B)
        BY <2>2, <2>3, <2>9, <3>1, <4>0, KeysApart
      <4> QED
        BY <2>6, <4>1 DEF Beside
    <3> QED
      BY <2>9, <3>2, <3>3
  <2>10. OpsInv' /\ MemInv' /\ CandidateInv' /\ CallInv'
    BY <1>1, <2>1 DEF OpsInv, MemInv, CandidateInv, CallInv, Places
  <2>11. FilesInv'
    <3>1. FileSet' = FileSet /\ files \in SUBSET FileSet /\ IsFiniteSet(files) /\ next_file \in Nat
      BY <1>1 DEF FileSet, Places, FilesInv
    <3>2. IsFiniteSet(files \cup {new})
      BY <3>1, FS_AddElement
    <3> QED
      BY <2>1, <2>6, <3>1, <3>2 DEF FilesInv
  <2>12. LevelsInv'
    <3>1. ASSUME NEW f \in files, f.level = l, l > 0 PROVE Beside(new, f.entries)
      <4>1. f.entries \in SUBSET U /\ f.entries # {}
        BY <2>2 DEF Tables
      <4>2. First(f.entries).key \in Nat /\ Final(f.entries).key \in Nat
        BY <2>2, TableKeys
      <4>3. ~Meets(f, begin, end)
        BY <2>5, <2>8, <3>1
      <4>4. Final(f.entries).key < begin \/ end < First(f.entries).key
        BY <2>4, <4>2, <4>3 DEF Meets
      <4> QED
        BY <2>9, <4>1, <4>4
    <3>2. ASSUME NEW k \in Nat, k > 0, NEW f \in files', NEW g \in files', f # g, f.level = k, g.level = k
          PROVE  Apart(f.entries, g.entries) \/ Apart(g.entries, f.entries)
      <4>1. CASE f \in files /\ g \in files
        BY <2>7, <3>2, <4>1 DEF LevelsInv, InLine
      <4>2. CASE f = new
        <5>1. g \in files /\ k = l
          BY <2>1, <2>6, <3>2, <4>2
        <5> QED
          BY <2>6, <3>1, <3>2, <4>2, <5>1 DEF Beside
      <4>3. CASE g = new
        <5>1. f \in files /\ k = l
          BY <2>1, <2>6, <3>2, <4>3
        <5> QED
          BY <2>6, <3>1, <3>2, <4>3, <5>1 DEF Beside
      <4> QED
        BY <2>1, <4>1, <4>2, <4>3
    <3> QED
      BY <3>2 DEF LevelsInv, InLine
  <2>13. BgInv'
    <3> SUFFICES ASSUME bg # Nothing PROVE BgInv'
      BY <1>1 DEF BgInv
    <3>1. Taken(bg) /\ (bg.manual \/ Covered(bg.in0 \cup bg.in1)) /\ bg' = bg
      BY <1>1 DEF Places, BgInv
    <3> DEFINE A == bg.in0 \cup bg.in1
    <3>2. A \in SUBSET files /\ A # {} /\ bg.level \in Nat
      BY <3>1 DEF Taken
    <3>3. Tables(A, U)
      BY <2>2, <3>2, TablesOf
    <3>4. /\ First(E) \in E /\ Final(E) \in E /\ E \in SUBSET U
          /\ \A d \in E : d.key \in Nat
      <4> HIDE DEF A
      <4>1. /\ First(EntriesOf(A)) \in EntriesOf(A) /\ Final(EntriesOf(A)) \in EntriesOf(A)
            /\ \A d \in EntriesOf(A) : d \in U /\ d.key \in Nat
        BY <3>2, <3>3, Hull
      <4> QED
        BY <4>1 DEF A
    <3>5. ASSUME l = bg.level + 1, begin <= Final(E).key, First(E).key <= end PROVE FALSE
      <4>1. ~bg.manual
        BY <2>1, <3>5
      <4>2. Covered(A)
        BY <3>1, <4>1
      <4>3. \E h \in A : Meets(h, begin, end)
        <5> DEFINE B == A
        <5>1. begin <= Final(EntriesOf(B)).key /\ First(EntriesOf(B)).key <= end /\ B = A
          BY <3>5
        <5> HIDE DEF A, B
        <5> QED
          BY <2>4, <3>2, <3>3, <4>2, <5>1, CoveredMeets
      <4>4. PICK h \in A : Meets(h, begin, end)
        BY <4>3
      <4>5. h \in files /\ h.level \in 0 .. l /\ l > 0
        BY <3>1, <3>2, <3>5, <4>4 DEF Taken
      <4> QED
        BY <2>8, <4>4, <4>5
    <3>6. l = bg.level + 1 => Beside(new, E)
      <4> SUFFICES ASSUME l = bg.level + 1 PROVE Beside(new, E)
        OBVIOUS
      <4>1. Final(E).key < begin \/ end < First(E).key
        <5>1. Final(E).key \in Nat /\ First(E).key \in Nat
          BY <3>4
        <5> HIDE DEF E
        <5> QED
          BY <2>4, <3>5, <5>1
      <4>2. E # {} /\ E \in SUBSET U
        BY <3>4
      <4> HIDE DEF E
      <4> QED
        BY <2>9, <4>1, <4>2
    <3>7. Taken(bg)'
      BY <2>1, <2>6, <3>1, <3>6 DEF Taken
    <3> QED
      BY <3>1, <3>7 DEF BgInv, Covered
  <2> QED
    BY <2>10, <2>11, <2>12, <2>13 DEF Places
<1> QED
  BY <1>2, <1>3

\* A compaction begins, or moves its only table down, past nobody it meets.
LEMMA BeginPlaces ==
    ASSUME Places, LevelTablesAssumption, NEW c, Taken(c), c.manual \/ Covered(c.in0 \cup c.in1),
           c.manual => call # Nothing, bg = Nothing,
           Begin(c), UNCHANGED <<memVars, next_file, call>>
    PROVE  Places'
<1>1. OpsInv' /\ MemInv'
  BY DEF OpsInv, MemInv, Places, memVars
<1>2. FileSet' = FileSet
  BY DEF FileSet, memVars
<1>3. Written(Range(ops)) /\ Tables(files, Range(ops)) /\ \A f \in files : f.level \in Nat
  BY WrittenIs DEF Places, Written
<1>4. CASE ~c.manual /\ IsTrivialMove(c)
  <2>1. /\ files' = (files \ c.in0) \cup { [f EXCEPT !.level = @ + 1] : f \in c.in0 }
        /\ file_to_compact' = Nothing /\ bg' = bg /\ c.in1 = {}
    BY <1>4 DEF Begin, Install, IsTrivialMove
  <2>2. c.in0 \in SUBSET files /\ IsFiniteSet(c.in0) /\ c.level \in Nat
    BY <1>3, FS_Subset DEF Taken, Tables
  <2>3. Cardinality(c.in0) = 1
    BY <1>4 DEF IsTrivialMove
  <2>4. PICK f0 : c.in0 = {f0}
    BY <2>2, <2>3, FS_Singleton
  <2> DEFINE new == [f0 EXCEPT !.level = @ + 1]
  <2>5. f0 \in files /\ f0.level = c.level /\ f0 \in FileSet
    BY <2>4 DEF Taken, Places, FilesInv
  <2>6. new \in FileSet /\ new.level = c.level + 1 /\ new.entries = f0.entries
    BY SMTT(30), <2>5 DEF FileSet
  <2>7. files' = (files \ {f0}) \cup {new}
    BY <2>1, <2>4
  <2> HIDE DEF new
  <2>8. FilesInv'
    <3>1. IsFiniteSet(files \ {f0}) /\ files \in SUBSET FileSet /\ next_file \in Nat
      BY <1>3, FS_Subset DEF Places, FilesInv
    <3>2. IsFiniteSet((files \ {f0}) \cup {new})
      BY <3>1, FS_AddElement
    <3> QED
      BY <1>2, <2>6, <2>7, <3>1, <3>2 DEF FilesInv
  <2>9. CandidateInv' /\ CallInv' /\ BgInv'
    BY <2>1 DEF CandidateInv, CallInv, BgInv, Places
  <2>10. LevelsInv'
    <3>1. EntriesOf(c.in0 \cup c.in1) = new.entries
      BY <2>1, <2>4, <2>6 DEF EntriesOf
    <3>2. ASSUME NEW g \in files, g.level = c.level + 1
          PROVE  Apart(g.entries, new.entries) \/ Apart(new.entries, g.entries)
      BY <2>1, <3>1, <3>2 DEF Taken, Beside
    <3>3. LevelsInv
      BY DEF Places
    <3>4. ASSUME NEW k \in Nat, k > 0, NEW f \in files', NEW g \in files', f # g, f.level = k, g.level = k
          PROVE  Apart(f.entries, g.entries) \/ Apart(g.entries, f.entries)
      <4>1. CASE f # new /\ g # new
        <5>1. f \in files /\ g \in files
          BY <2>7, <4>1
        <5> QED
          BY <3>3, <3>4, <5>1 DEF LevelsInv, InLine
      <4>2. CASE f = new
        <5>1. g \in files /\ g.level = c.level + 1
          BY <2>6, <2>7, <3>4, <4>2
        <5> QED
          BY <3>2, <4>2, <5>1
      <4>3. CASE g = new
        <5>1. f \in files /\ f.level = c.level + 1
          BY <2>6, <2>7, <3>4, <4>3
        <5> QED
          BY <3>2, <4>3, <5>1
      <4> QED
        BY <4>1, <4>2, <4>3
    <3> QED
      BY <3>4 DEF LevelsInv, InLine
  <2> QED
    BY <1>1, <2>8, <2>9, <2>10 DEF Places
<1>5. CASE ~(~c.manual /\ IsTrivialMove(c))
  <2>1. bg' = c /\ files' = files /\ file_to_compact' = file_to_compact /\ next_file' = next_file /\ call' = call
    BY <1>5 DEF Begin
  <2>2. FilesInv' /\ LevelsInv' /\ CandidateInv'
    BY <1>2, <2>1 DEF FilesInv, LevelsInv, CandidateInv, Places
  <2>3. BgInv'
    BY <2>1 DEF BgInv, Taken
  <2>4. CallInv'
    BY <2>1 DEF CallInv, Places
  <2> QED
    BY <1>1, <2>2, <2>3, <2>4 DEF Places
<1> QED
  BY <1>4, <1>5

\* For size or seeks.
LEMMA StartCompactionPlaces ==
    ASSUME Places, LevelTablesAssumption, StartCompaction
    PROVE  Places'
<1>1. Written(Range(ops)) /\ \A f \in files : f.level \in Nat
  BY WrittenIs DEF Places
<1>2. PICK l \in Nat : \E A \in SUBSET { f \in files : f.level = l } :
        A # {} /\ Covered(A) /\ PickCompaction = Compaction(l, A)
  BY <1>1, PickCompactionIs DEF StartCompaction, Places, CandidateInv
<1>3. PICK A \in SUBSET { f \in files : f.level = l } :
        A # {} /\ Covered(A) /\ PickCompaction = Compaction(l, A)
  BY <1>2
<1> DEFINE c == PickCompaction
<1>4. InLine({ f \in files : f.level = l + 1 })
  BY SMTT(30) DEF Places, LevelsInv
<1>5. Taken(c) /\ c.manual = FALSE /\ Covered(c.in0 \cup c.in1)
  <2> HIDE DEF c
  <2>1. c = Compaction(l, A)
    BY <1>3 DEF c
  <2> QED
    BY <1>1, <1>3, <1>4, <2>1, CompactionIs
<1>6. bg = Nothing /\ Begin(c) /\ UNCHANGED <<memVars, next_file, call>>
  BY DEF StartCompaction
<1> HIDE DEF c
<1> QED
  BY <1>5, <1>6, BeginPlaces

\* For CompactRange, which need not be Covered.
LEMMA StartRangePlaces ==
    ASSUME Places, LevelTablesAssumption, StartRange
    PROVE  Places'
<1>1. Written(Range(ops)) /\ \A f \in files : f.level \in Nat
  BY WrittenIs DEF Places
<1> DEFINE l == call.at
           A == RangeInputs
           d == Compaction(l, A)
           c == [d EXCEPT !.manual = TRUE]
<1>2. bg = Nothing /\ call # Nothing /\ A # {} /\ Begin(c) /\ UNCHANGED <<memVars, next_file, call>> /\ l \in Nat
  BY DEF StartRange, Places, CallInv
<1>3. A \in SUBSET { f \in files : f.level = l }
  BY <1>1, RangeInputsIs
<1>4. InLine({ f \in files : f.level = l + 1 })
  <2> DEFINE m == l + 1
  <2>1. LevelsInv /\ m \in Nat /\ m > 0
    BY <1>2 DEF Places
  <2> HIDE DEF m
  <2>2. InLine({ f \in files : f.level = m })
    BY <2>1 DEF LevelsInv
  <2> QED
    BY <2>2 DEF m
<1>5. c.manual = TRUE /\ c.level = d.level /\ c.in0 = d.in0 /\ c.in1 = d.in1
  BY DEF Compaction
<1>6. Taken(d)
  <2> HIDE DEF l, A
  <2> QED
    BY <1>1, <1>2, <1>3, <1>4, CompactionIs
<1> HIDE DEF c, d
<1>7. Taken(c)
  BY <1>5, <1>6 DEF Taken
<1> QED
  BY <1>2, <1>5, <1>7, BeginPlaces

\* Its outputs take the place of its inputs, beside all others of their level.
LEMMA FinishCompactionPlaces ==
    ASSUME Places, LevelTablesAssumption, FinishCompaction
    PROVE  Places'
<1> DEFINE outs == Outputs(bg)
           n == Len(outs)
           E == EntriesOf(bg.in0 \cup bg.in1)
           U == Range(ops)
           File(i) == [number |-> next_file + i - 1, level |-> bg.level + 1, entries |-> outs[i]]
           old == files \ (bg.in0 \cup bg.in1)
           new == { File(i) : i \in 1 .. n }
<1>1. /\ bg # Nothing /\ bg' = Nothing /\ file_to_compact' = Nothing /\ next_file' = next_file + n
      /\ files' = old \cup { File(i) : i \in DOMAIN outs }
      /\ UNCHANGED memVars
  BY DEF FinishCompaction, Install
<1>2. Written(U) /\ Tables(files, U) /\ Entries(U) /\ IsFiniteSet(U) /\ \A f \in files : f.level \in Nat
  BY WrittenIs DEF Places, Written, Tables
<1>3. Taken(bg)
  BY <1>1 DEF Places, BgInv
<1>4. E \in SUBSET U
  BY <1>2, <1>3 DEF Taken, EntriesOf, Tables
<1>5. Pile(outs, {}, E)
  <2>1. IsFiniteSet(E)
    BY <1>2, <1>4, FS_Subset
  <2> HIDE DEF E, U
  <2> QED
    BY <1>2, <1>4, <2>1, OutputsIs DEF E
<1>6. n \in Nat /\ DOMAIN outs = 1 .. n /\ \A i \in 1 .. n : outs[i] \in SUBSET E /\ outs[i] # {}
  <2> HIDE DEF outs, E
  <2> QED
    BY <1>5 DEF Pile
<1>7. \A i, j \in 1 .. n : i < j => Apart(outs[i], outs[j])
  BY <1>5 DEF Pile
<1> HIDE DEF outs, n
<1>8. files' = old \cup new
  BY <1>1, <1>6
<1>9. next_file \in Nat /\ bg.level \in Nat /\ files \in SUBSET FileSet
  BY <1>3 DEF Places, FilesInv, Taken
<1>10. \A i \in 1 .. n : File(i) \in FileSet /\ File(i).level = bg.level + 1 /\ File(i).entries = outs[i]
  <2> HIDE DEF E
  <2> QED
    BY <1>4, <1>6, <1>9 DEF FileSet
<1> HIDE DEF File, E, U
<1>11. OpsInv' /\ MemInv' /\ CandidateInv' /\ BgInv'
  BY <1>1 DEF OpsInv, MemInv, CandidateInv, BgInv, Places, memVars
<1>12. CallInv'
  <2>1. CASE bg.manual
    <3>1. {"at", "posted"} \subseteq DOMAIN call /\ call.at \in Int
      BY <1>1, <2>1 DEF Places, CallInv
    <3>2. PICK x : call' = [call EXCEPT !.posted = FALSE, !.begin = x]
      BY <2>1 DEF FinishCompaction
    <3> QED
      BY <3>1, <3>2 DEF CallInv
  <2>2. CASE ~bg.manual
    <3>1. call' = call
      BY <2>2 DEF FinishCompaction
    <3> QED
      BY <1>1, <3>1 DEF Places, CallInv
  <2> QED
    BY <2>1, <2>2
<1>13. FilesInv'
  <2>1. FileSet' = FileSet
    BY <1>1 DEF FileSet, memVars
  <2>2. IsFiniteSet(old) /\ old \in SUBSET FileSet
    BY <1>2, <1>9, FS_Subset DEF Tables
  <2>3. IsFiniteSet(new) /\ new \in SUBSET FileSet
    <3> DEFINE f == [i \in 1 .. n |-> File(i)]
    <3>1. f \in Surjection(1 .. n, new)
      BY DEF Surjection
    <3>2. IsFiniteSet(1 .. n)
      BY <1>6, FS_Interval
    <3>3. new \in SUBSET FileSet
      BY <1>10
    <3> HIDE DEF f, new
    <3> QED
      BY <3>1, <3>2, <3>3, FS_Surjection
  <2> HIDE DEF old, new
  <2>4. IsFiniteSet(old \cup new)
    BY <2>2, <2>3, FS_Union
  <2>5. next_file' \in Nat
    BY <1>1, <1>6, <1>9
  <2>6. files' \in SUBSET FileSet' /\ IsFiniteSet(files')
    BY <1>8, <2>1, <2>2, <2>3, <2>4
  <2> QED
    BY <2>5, <2>6 DEF FilesInv
<1>14. LevelsInv'
  <2>1. \A g \in old : g \in files /\ (g.level = bg.level + 1 => Beside(g, E))
    BY <1>3 DEF Taken, E
  <2>2. \A f \in new : \E i \in 1 .. n : f = File(i) /\ f.level = bg.level + 1 /\ f.entries = outs[i]
    BY <1>10
  <2> HIDE DEF old, new
  <2>3. ASSUME NEW g \in old, NEW f \in new, g.level = f.level
        PROVE  Apart(f.entries, g.entries) \/ Apart(g.entries, f.entries)
    <3>1. f.entries \in SUBSET E /\ f.level = bg.level + 1
      BY <1>6, <2>2
    <3>2. Beside(g, E)
      BY <2>1, <2>3, <3>1
    <3> QED
      BY <3>1, <3>2 DEF Beside, Apart
  <2>4. ASSUME NEW f \in new, NEW g \in new, f # g
        PROVE  Apart(f.entries, g.entries) \/ Apart(g.entries, f.entries)
    <3>1. PICK i \in 1 .. n : f = File(i) /\ f.entries = outs[i]
      BY <2>2
    <3>2. PICK j \in 1 .. n : g = File(j) /\ g.entries = outs[j]
      BY <2>2
    <3>3. i < j \/ j < i
      BY <2>4, <3>1, <3>2
    <3> QED
      BY <1>7, <3>1, <3>2, <3>3
  <2>5. LevelsInv
    BY DEF Places
  <2>6. ASSUME NEW k \in Nat, k > 0, NEW f \in files', NEW g \in files', f # g, f.level = k, g.level = k
        PROVE  Apart(f.entries, g.entries) \/ Apart(g.entries, f.entries)
    <3>1. CASE f \in old /\ g \in old
      BY <2>1, <2>5, <2>6, <3>1 DEF LevelsInv, InLine
    <3>2. CASE f \in new /\ g \in new
      BY <2>4, <2>6, <3>2
    <3>3. CASE f \in new /\ g \in old
      BY <2>3, <2>6, <3>3
    <3>4. CASE f \in old /\ g \in new
      BY <2>3, <2>6, <3>4
    <3> QED
      BY <1>8, <3>1, <3>2, <3>3, <3>4
  <2> QED
    BY <2>6 DEF LevelsInv, InLine
<1> QED
  BY <1>11, <1>12, <1>13, <1>14 DEF Places

\* The invariant.
PlacesOrHole == hole \/ Places

\* Each step keeps it, unless it makes a hole.
LEMMA NextPlaces ==
    ASSUME PlacesOrHole, LevelTablesAssumption, [Next]_vars
    PROVE  PlacesOrHole'
<1> USE DEF PlacesOrHole
<1>1. CASE hole
  <2>1. hole'
    BY <1>1 DEF Next, vars, memVars, faults, Background, Write, ChargeSeek, GetSnapshot, ReleaseSnapshot, NewIterator,
                MoveIterator, Moves, RecordReadSample, CompactRange, ForceSwitch, PostRange, CompactMemTable,
                StartCompaction, StartRange, RangeDone, FinishCompaction
  <2> QED
    BY <2>1
<1>2. CASE Places
  <2>1. CASE \E k \in 1 .. NumKeys : Write(k, "value") \/ Write(k, "deletion")
    BY <1>2, <2>1, WritePlaces
  <2>2. CASE \E k \in 1 .. NumKeys : ChargeSeek(k)
    BY <1>2, <2>2, ChargeSeekPlaces
  <2>3. CASE RecordReadSample
    BY <1>2, <2>3, RecordReadSamplePlaces
  <2>4. CASE \/ GetSnapshot \/ \E s \in snapshots : ReleaseSnapshot(s)
             \/ \E s \in snapshots \cup {last_sequence} : NewIterator(s)
             \/ MoveIterator \/ UNCHANGED vars
    BY <1>2, <2>4, ClientPlaces
  <2>5. CASE CompactRange \/ ForceSwitch \/ PostRange \/ RangeDone
    BY <1>2, <2>5, CallPlaces
  <2>6. CASE CompactMemTable
    BY <1>2, <2>6, CompactMemTablePlaces
  <2>7. CASE StartCompaction
    BY <1>2, <2>7, StartCompactionPlaces
  <2>8. CASE StartRange
    BY <1>2, <2>8, StartRangePlaces
  <2>9. CASE FinishCompaction
    BY <1>2, <2>9, FinishCompactionPlaces
  <2> QED
    BY <2>1, <2>2, <2>3, <2>4, <2>5, <2>6, <2>7, <2>8, <2>9 DEF Next, Background
<1> QED
  BY <1>1, <1>2

\* The tables of a level from 1 never overlap, for any number of keys, levels and writes and limits
\* of any size, wherever flushes, size, seek and manual compactions put them, unless a memtable went
\* to where a manual compaction was about to write.
THEOREM DisjointCorrect == Spec => []LevelsDisjoint
<1> USE LevelTablesAssumption, StartsAssumption
<1>1. Init => PlacesOrHole
  BY InitPlaces DEF PlacesOrHole
<1>2. PlacesOrHole /\ [Next]_vars => PlacesOrHole'
  BY NextPlaces
<1>3. PlacesOrHole => LevelsDisjoint
  <2> SUFFICES ASSUME Places PROVE Disjoint(files)
    BY DEF PlacesOrHole, LevelsDisjoint
  <2>1. Tables(files, Range(ops)) /\ \A f \in files : f.level \in Nat
    BY WrittenIs DEF Places, Written
  <2> QED
    BY <2>1, InLineIs DEF Places, LevelsInv
<1> QED
  BY <1>1, <1>2, <1>3, PTL DEF Spec

-----------------------------------------------------------------------------
(* What a read finds *)

\* The binary search leads to the file with the newest entry of a user key that a read may see.
LEMMA AtHas ==
    ASSUME NEW U, Tables(files, U), NEW l, InLine({ f \in files : f.level = l }), NEW k \in Nat, NEW s \in Nat,
           NEW f \in files, f.level = l, NEW e \in f.entries, e.key = k, e.seq <= s
    PROVE  \E g \in Range(At(l, k, s)) : \E d \in g.entries : d.key = k /\ d.seq <= s /\ e.seq <= d.seq
<1> DEFINE S == { x \in files : x.level = l }
           fs == Level(l)
           key == [key |-> k, seq |-> s]
           i == FindFile(fs, key)
<1>1. Tables(S, U) /\ f \in S /\ InLine(S)
  BY TablesOf
<1>2. fs = Sorted(S)
  BY DEF Level
<1>3. /\ fs \in Seq(S) /\ \A x \in S : \E j \in 1 .. Len(fs) : fs[j] = x
      /\ \A j, m \in 1 .. Len(fs) : j < m => Apart(fs[j].entries, fs[m].entries)
  <2> HIDE DEF S, fs
  <2> QED
    BY <1>1, <1>2, SortedIs
<1>4. key.key = k /\ key.seq = s
  OBVIOUS
<1> HIDE DEF fs, key
<1>5. /\ \A j \in 1 .. i - 1 : Before(Final(fs[j].entries), key)
      /\ i <= Len(fs) => ~Before(Final(fs[i].entries), key)
      /\ i \in 1 .. Len(fs) + 1
  <2> HIDE DEF S
  <2> QED
    BY <1>1, <1>3, <1>4, FindFileIs, FindFileRange
<1>6. At(l, k, s) = IF i <= Len(fs) /\ First(fs[i].entries).key <= k THEN <<fs[i]>> ELSE <<>>
  BY DEF At, fs, key
<1>7. PICK j \in 1 .. Len(fs) : fs[j] = f
  BY <1>1, <1>3
<1>8. \A x \in U : x.key \in Nat /\ x.seq \in Nat
  BY DEF Tables, Entries
<1>9. \A x \in files : x.entries \subseteq U
  BY DEF Tables
<1>10. ~Before(Final(f.entries), key)
  <2>1. /\ Final(f.entries) \in f.entries
        /\ e = Final(f.entries) \/ Before(e, Final(f.entries))
    BY TableEnds
  <2> DEFINE x == Final(f.entries)
  <2>2. x.key \in Nat /\ x.seq \in Nat /\ e.seq \in Nat
    BY <1>8, <1>9, <2>1
  <2> HIDE DEF x
  <2>3. ~Before(x, key)
    BY <1>4, <2>1, <2>2 DEF Before, x
  <2> QED
    BY <2>3 DEF x
<1> HIDE DEF i
<1>11. i <= j /\ i \in 1 .. Len(fs) /\ Len(fs) \in Nat
  <2>1. Len(fs) \in Nat
    BY <1>3
  <2>2. j \notin 1 .. i - 1
    BY <1>5, <1>7, <1>10
  <2> QED
    BY <1>5, <2>1, <2>2
<1> DEFINE g == fs[i]
<1>12. g \in files /\ g.entries \subseteq U
  <2>1. fs \in Seq(S)
    BY <1>3
  <2>2. g \in S
    <3> HIDE DEF S
    <3> QED
      BY <1>11, <2>1
  <2> QED
    BY <1>9, <2>2
<1>13. \E d \in g.entries : d.key = k /\ d.seq <= s /\ e.seq <= d.seq
  <2>1. CASE i = j
    <3>1. e.seq \in Nat
      BY <1>8, <1>9
    <3> QED
      BY <1>7, <2>1, <3>1
  <2>2. CASE i < j
    <3> DEFINE x == Final(g.entries)
    <3>1. x \in g.entries
      BY <1>12, TableEnds
    <3>2. Before(x, e)
      BY <1>3, <1>7, <1>11, <2>2, <3>1 DEF Apart
    <3>3. ~Before(x, key)
      BY <1>5, <1>11
    <3>4. x.key \in Nat /\ x.seq \in Nat /\ e.seq \in Nat
      BY <1>8, <1>9, <1>12, <3>1
    <3> HIDE DEF x
    <3>5. x.key = k /\ x.seq <= s /\ e.seq <= x.seq
      BY <1>4, <3>2, <3>3, <3>4 DEF Before
    <3> QED
      BY <3>1, <3>5
  <2>3. i = j \/ i < j
    BY <1>11
  <2> QED
    BY <2>1, <2>2, <2>3
<1> HIDE DEF g
<1>14. PICK d \in g.entries : d.key = k /\ d.seq <= s /\ e.seq <= d.seq
  BY <1>13
<1>15. First(g.entries).key <= k
  BY <1>12, <1>14, TableKeys
<1>16. At(l, k, s) = <<g>>
  BY <1>6, <1>11, <1>15 DEF g
<1>17. g \in Range(<<g>>)
  BY DEF Range
<1> QED
  BY <1>14, <1>16, <1>17

\* What a lookup comes upon first of a user key is the newest it may see.
LEMMA SearchedHas ==
    ASSUME LevelTablesAssumption, NEW U, Written(U), LevelsInv, NewestAbove(files),
           \A f \in files : f.number \in Nat /\ f.level \in Nat /\ f.level < NumLevels,
           NEW k \in Nat, NEW s \in Nat
    PROVE  /\ Searched(k, s) \in Seq(files)
           /\ \A f \in files, e \in U : e \in f.entries /\ e.key = k /\ e.seq <= s =>
                \E i \in 1 .. Len(Searched(k, s)) : \E d \in Searched(k, s)[i].entries :
                  d.key = k /\ d.seq <= s /\ e.seq <= d.seq
           /\ \A i, j \in 1 .. Len(Searched(k, s)) : i < j =>
                \A d \in Searched(k, s)[i].entries, e \in Searched(k, s)[j].entries : d.key = e.key => d.seq > e.seq
<1> DEFINE q == Searched(k, s)
<1>1. Tables(files, U) /\ \A e \in U : e.key \in Nat /\ e.seq \in Nat
  BY DEF Written, Tables, Entries
<1>2. /\ q \in Seq(files) /\ Range(Young(k)) \subseteq Range(q)
      /\ \A l \in 1 .. NumLevels - 1 : Range(At(l, k, s)) \subseteq Range(q)
      /\ Runs(q, Precede)
  <2>1. \A f, g \in files : f.level = 0 /\ g.level = 0 /\ f.number = g.number => f = g
    BY DEF NewestAbove
  <2> QED
    BY <1>1, <2>1, SearchedIs
<1> HIDE DEF q
<1>3. \A i, j \in 1 .. Len(q) : i < j => \A d \in q[i].entries, e \in q[j].entries : d.key = e.key => d.seq > e.seq
  <2> SUFFICES ASSUME NEW i \in 1 .. Len(q), NEW j \in 1 .. Len(q), i < j
               PROVE  \A d \in q[i].entries, e \in q[j].entries : d.key = e.key => d.seq > e.seq
    OBVIOUS
  <2>1. q[i] \in files /\ q[j] \in files /\ Above(q[i], q[j])
    BY <1>2 DEF Runs, Precede
  <2> QED
    BY <2>1 DEF NewestAbove
<1>4. ASSUME NEW f \in files, NEW e \in U, e \in f.entries, e.key = k, e.seq <= s
      PROVE  \E i \in 1 .. Len(q) : \E d \in q[i].entries : d.key = k /\ d.seq <= s /\ e.seq <= d.seq
  <2>1. \E g \in Range(q) : \E d \in g.entries : d.key = k /\ d.seq <= s /\ e.seq <= d.seq
    <3>1. CASE f.level = 0
      <4>1. Meets(f, k, k)
        BY <1>1, <1>4, TableKeys DEF Meets
      <4>2. f \in Range(Young(k))
        BY <1>1, <3>1, <4>1, YoungIs DEF Tables
      <4>3. e.seq <= e.seq
        BY <1>1
      <4> QED
        BY <1>2, <1>4, <4>2, <4>3
    <3>2. CASE f.level # 0
      <4> DEFINE l == f.level
      <4>1. l \in Nat /\ l > 0 /\ l \in 1 .. NumLevels - 1
        BY <3>2 DEF LevelTablesAssumption
      <4>2. InLine({ x \in files : x.level = l })
        BY <4>1 DEF LevelsInv
      <4> HIDE DEF l
      <4>3. \E g \in Range(At(l, k, s)) : \E d \in g.entries : d.key = k /\ d.seq <= s /\ e.seq <= d.seq
        BY SMTT(30), <1>1, <1>4, <4>2, AtHas DEF l
      <4> QED
        BY <1>2, <4>1, <4>3
    <3> QED
      BY <3>1, <3>2
  <2>2. PICK g \in Range(q) : \E d \in g.entries : d.key = k /\ d.seq <= s /\ e.seq <= d.seq
    BY <2>1
  <2>3. PICK i \in 1 .. Len(q) : q[i] = g
    BY <1>2, RangeHas
  <2> QED
    BY <2>2, <2>3
<1> QED
  BY <1>2, <1>3, <1>4 DEF q

\* What is stored somewhere.
Imm == IF imm = Nothing THEN {} ELSE imm
Stored == mem \cup Imm \cup EntriesOf(files)

\* The memtables are newer than the tables.
MemOrder == /\ \A d \in mem, e \in Imm \cup EntriesOf(files) : e.seq < d.seq
            /\ \A d \in Imm, e \in EntriesOf(files) : e.seq < d.seq

\* A write is the one with its sequence number.
LEMMA WriteAt ==
    ASSUME OpsInv, NEW e \in Range(ops)
    PROVE  e.seq \in 1 .. Len(ops) /\ ops[e.seq] = e /\ e \in Entry
  BY DEF OpsInv, Range

\* What is stored was written.
LEMMA StoredIs ==
    ASSUME MemInv, FilesInv
    PROVE  Stored \subseteq Range(ops) /\ Imm \subseteq Range(ops) /\ EntriesOf(files) \subseteq Range(ops)
<1>1. EntriesOf(files) \subseteq Range(ops)
  BY DEF FilesInv, FileSet, EntriesOf
<1> QED
  BY <1>1 DEF MemInv, Imm, Stored

\* Get finds of the entries of a user key the newest it may see.
LEMMA GetIs ==
    ASSUME LevelTablesAssumption, OpsInv, MemInv, FilesInv, LevelsInv, MemOrder, NewestAbove(files),
           \A f \in files : f.level < NumLevels,
           NEW k \in Nat, NEW s \in Nat
    PROVE  /\ Hits(Stored, k, s) = {} => Get(k, s) = 0
           /\ Hits(Stored, k, s) # {} =>
                \E e \in Hits(Stored, k, s) :
                  /\ \A d \in Hits(Stored, k, s) : d.seq <= e.seq
                  /\ Get(k, s) = IF e.type = "deletion" THEN 0 ELSE e.seq
<1> DEFINE U == Range(ops)
           q == Searched(k, s)
           n == Len(q)
           P == <<mem, Imm>> \o [i \in DOMAIN q |-> q[i].entries]
<1>1. /\ Written(U) /\ Entries(U) /\ IsFiniteSet(U)
      /\ \A f \in files : f.level \in Nat /\ f.number \in Nat
  BY WrittenIs, WritesAre
<1>2. /\ q \in Seq(files)
      /\ \A f \in files, e \in U : e \in f.entries /\ e.key = k /\ e.seq <= s =>
           \E i \in 1 .. n : \E d \in q[i].entries : d.key = k /\ d.seq <= s /\ e.seq <= d.seq
      /\ \A i, j \in 1 .. n : i < j =>
           \A d \in q[i].entries, e \in q[j].entries : d.key = e.key => d.seq > e.seq
  <2> HIDE DEF U
  <2> QED
    BY <1>1, SearchedHas
<1>3. \A e \in U : e.key \in Nat /\ e.seq \in Nat
  BY <1>1 DEF Entries
<1>4. Stored \subseteq U /\ Imm \subseteq U /\ EntriesOf(files) \subseteq U
  BY StoredIs
<1>5. \A i \in 1 .. n : q[i] \in files /\ q[i].entries \subseteq EntriesOf(files)
  BY <1>2 DEF EntriesOf
<1> HIDE DEF q
<1>6. /\ n \in Nat /\ DOMAIN P = 1 .. n + 2 /\ P[1] = mem /\ P[2] = Imm
      /\ \A i \in 1 .. n : P[i + 2] = q[i].entries /\ i + 2 \in 1 .. n + 2
      /\ \A i \in 3 .. n + 2 : i - 2 \in 1 .. n /\ P[i] = q[i - 2].entries
  <2> DEFINE r == [i \in DOMAIN q |-> q[i].entries]
  <2>1. n \in Nat /\ DOMAIN q = 1 .. n
    BY <1>2
  <2>2. r \in Seq(SUBSET EntriesOf(files)) /\ Len(r) = n /\ \A i \in 1 .. n : r[i] = q[i].entries
    BY <1>5, <2>1
  <2> HIDE DEF r, n
  <2>3. /\ DOMAIN P = 1 .. n + 2 /\ P[1] = mem /\ P[2] = Imm
        /\ \A i \in 3 .. n + 2 : P[i] = r[i - 2] /\ i - 2 \in 1 .. n
        /\ \A i \in 1 .. n : P[i + 2] = r[i] /\ i + 2 \in 1 .. n + 2
    BY <2>1, <2>2 DEF r
  <2> QED
    BY <2>1, <2>2, <2>3
<1> HIDE DEF P, n
<1> DEFINE D == 1 .. n + 2
<1>7. \A i \in D : i = 1 \/ i = 2 \/ i \in 3 .. n + 2
  BY <1>6
<1>8. \A i \in D : P[i] \subseteq Stored
  BY <1>5, <1>6, <1>7 DEF Stored
<1>8a. \A i \in 3 .. n + 2 : P[i] \subseteq EntriesOf(files)
  BY <1>5, <1>6
<1>9. ASSUME NEW i \in D, NEW j \in D, i < j, NEW d \in P[i], NEW e \in P[j], d.key = e.key PROVE d.seq > e.seq
  <2>1. d.seq \in Nat /\ e.seq \in Nat
    BY <1>3, <1>4, <1>8
  <2>2. CASE i = 1
    <3>1. e \in Imm \cup EntriesOf(files)
      <4>1. j = 2 \/ j \in 3 .. n + 2
        BY <1>7, <1>9, <2>2
      <4> QED
        BY <1>6, <1>8a, <4>1
    <3>2. e.seq < d.seq
      BY <1>6, <2>2, <3>1 DEF MemOrder
    <3> QED
      BY <2>1, <3>2
  <2>3. CASE i = 2
    <3>1. j \in 3 .. n + 2
      BY <1>7, <1>9, <2>3
    <3>2. e \in EntriesOf(files) /\ d \in Imm
      BY <1>6, <1>8a, <2>3, <3>1
    <3>3. e.seq < d.seq
      BY <3>2 DEF MemOrder
    <3> QED
      BY <2>1, <3>3
  <2>4. CASE i \in 3 .. n + 2
    <3>1. j \in 3 .. n + 2
      BY <1>6, <1>9, <2>4
    <3>2. /\ i - 2 \in 1 .. n /\ j - 2 \in 1 .. n /\ i - 2 < j - 2
          /\ P[i] = q[i - 2].entries /\ P[j] = q[j - 2].entries
      <4>1. /\ i - 2 \in 1 .. n /\ P[i] = q[i - 2].entries
            /\ j - 2 \in 1 .. n /\ P[j] = q[j - 2].entries
        BY <1>6, <2>4, <3>1
      <4>2. i \in Int /\ j \in Int /\ i < j
        BY <1>6, <1>9
      <4>3. i - 2 < j - 2
        BY <4>2
      <4> QED
        BY <4>1, <4>3
    <3> QED
      BY <1>2, <1>9, <3>2 DEF n
  <2> QED
    BY <1>7, <2>2, <2>3, <2>4
<1> DEFINE H == Hits(Stored, k, s)
           Found(i) == Hits(P[i], k, s)
<1>10. \A i \in D : Found(i) \subseteq H
  BY <1>8 DEF Hits
<1>11. ASSUME NEW e \in H PROVE \E i \in D : \E d \in Found(i) : e.seq <= d.seq
  <2>1. e \in Stored /\ e.key = k /\ e.seq <= s /\ e.seq \in Nat /\ e \in U
    BY <1>3, <1>4 DEF Hits
  <2>2. CASE e \in mem
    <3>1. 1 \in D /\ e \in Found(1)
      BY <1>6, <2>1, <2>2 DEF Hits
    <3> HIDE DEF Found, D
    <3> QED
      BY <2>1, <3>1
  <2>3. CASE e \in Imm
    <3>1. 2 \in D /\ e \in Found(2)
      BY <1>6, <2>1, <2>3 DEF Hits
    <3> HIDE DEF Found, D
    <3> QED
      BY <2>1, <3>1
  <2>4. CASE e \in EntriesOf(files)
    <3>1. PICK f \in files : e \in f.entries
      BY <2>4 DEF EntriesOf
    <3>2. PICK i \in 1 .. n : \E d \in q[i].entries : d.key = k /\ d.seq <= s /\ e.seq <= d.seq
      BY <1>2, <2>1, <3>1 DEF n
    <3>3. PICK d \in q[i].entries : d.key = k /\ d.seq <= s /\ e.seq <= d.seq
      BY <3>2
    <3>4. i + 2 \in D /\ d \in Found(i + 2)
      BY <1>6, <3>3 DEF Hits
    <3> HIDE DEF Found, D
    <3> QED
      BY <3>3, <3>4
  <2> QED
    BY <2>1, <2>2, <2>3, <2>4 DEF Stored
<1> DEFINE found == { i \in DOMAIN P : Hits(P[i], k, s) # {} }
           first == First(Hits(P[Min(found)], k, s))
<1>12. Get(k, s) = IF found = {} \/ first.type = "deletion" THEN 0 ELSE first.seq
  BY DEF Get, P, q, Imm
<1>13. found = { i \in D : Found(i) # {} }
  BY <1>6
<1>14. CASE H = {}
  <2>1. found = {}
    BY <1>10, <1>13, <1>14
  <2> QED
    BY <1>12, <1>14, <2>1
<1>15. CASE H # {}
  <2>1. found # {} /\ found \in SUBSET Nat
    <3>1. PICK e \in H : TRUE
      BY <1>15
    <3>2. PICK i \in D : \E d \in Found(i) : e.seq <= d.seq
      BY <1>11
    <3>3. D \subseteq Nat
      BY <1>6
    <3> HIDE DEF D, Found, found
    <3> QED
      BY <1>13, <3>2, <3>3
  <2> DEFINE m == Min(found)
  <2>2. m \in found /\ \A i \in found : m <= i
    <3> HIDE DEF found
    <3> QED
      BY <2>1, MinIs
  <2>3. m \in D /\ Found(m) # {}
    BY <1>13, <2>2
  <2>4. first = First(Found(m))
    OBVIOUS
  <2> HIDE DEF first, found, m
  <2>5. Found(m) \in SUBSET U /\ IsFiniteSet(Found(m)) /\ \A d \in Found(m) : d.key = k
    <3>1. Found(m) \subseteq U /\ \A d \in Found(m) : d.key = k
      BY <1>4, <1>8, <2>3 DEF Hits
    <3> HIDE DEF Found, U
    <3> QED
      BY <1>1, <3>1, FS_Subset
  <2>6. first \in Found(m) /\ \A d \in Found(m) : d = first \/ Before(first, d)
    <3> HIDE DEF Found, U
    <3> QED
      BY <1>1, <2>3, <2>4, <2>5, FirstIs
  <2>7. first \in H /\ first.seq \in Nat /\ first.key = k
    BY <1>3, <1>10, <2>3, <2>5, <2>6
  <2>8. ASSUME NEW i \in D, NEW d \in Found(i) PROVE d.seq <= first.seq
    <3>1. i \in found
      BY <1>13, <2>8
    <3>2. m <= i /\ m \in Nat /\ i \in Nat
      BY <1>6, <2>2, <2>3, <3>1
    <3>3. d.seq \in Nat /\ d \in P[i] /\ d.key = k /\ first \in P[m]
      BY <1>3, <1>4, <1>8, <2>6 DEF Hits
    <3>4. CASE m = i
      <4>1. d = first \/ Before(first, d)
        BY <2>6, <3>4
      <4> HIDE DEF H, D, Found
      <4> QED
        BY <2>7, <3>3, <4>1 DEF Before
    <3>5. CASE m < i
      <4>1. first.seq > d.seq
        BY <1>9, <2>3, <2>7, <3>3, <3>5
      <4> HIDE DEF H, D, Found
      <4> QED
        BY <2>7, <3>3, <4>1
    <3> QED
      BY <3>2, <3>4, <3>5
  <2>9. ASSUME NEW d \in H PROVE d.seq <= first.seq
    <3>1. PICK i \in D : \E x \in Found(i) : d.seq <= x.seq
      BY <1>11
    <3>2. PICK x \in Found(i) : d.seq <= x.seq
      BY <3>1
    <3>3. x.seq <= first.seq
      BY <2>8
    <3>4. d.seq \in Nat /\ x.seq \in Nat
      BY <1>3, <1>4, <1>10 DEF Hits
    <3> HIDE DEF H, D, Found
    <3> QED
      BY <2>7, <3>2, <3>3, <3>4
  <2>10. Get(k, s) = IF first.type = "deletion" THEN 0 ELSE first.seq
    BY <1>12, <2>1
  <2> HIDE DEF H
  <2> QED
    BY <1>15, <2>7, <2>9, <2>10 DEF H
<1> QED
  BY <1>14, <1>15

\* A read is right where what is to be read of the writes is stored in its place.
LEMMA ReadIs ==
    ASSUME LevelTablesAssumption, OpsInv, MemInv, FilesInv, LevelsInv, MemOrder, NewestAbove(files),
           \A f \in files : f.level < NumLevels,
           NEW k \in Nat, NEW s \in 0 .. last_sequence, Complete(ops, Stored, s)
    PROVE  Get(k, s) = Latest(k, s)
<1> DEFINE H == Hits(Stored, k, s)
           J == { i \in 1 .. s : ops[i].key = k }
<1>1. s \in Nat /\ 1 .. s \subseteq 1 .. Len(ops)
  BY DEF OpsInv
<1>2. /\ H = {} => Get(k, s) = 0
      /\ H # {} => \E e \in H : /\ \A d \in H : d.seq <= e.seq
                                /\ Get(k, s) = IF e.type = "deletion" THEN 0 ELSE e.seq
  BY <1>1, GetIs
<1>3. ASSUME NEW e \in H PROVE e.seq \in J /\ ops[e.seq] = e
  <2>1. e \in Range(ops) /\ e.key = k /\ e.seq <= s
    BY StoredIs DEF Hits
  <2> QED
    BY <1>1, <2>1, WriteAt
<1>4. Latest(k, s) = IF J = {} \/ ops[Max(J)].type = "deletion" THEN 0 ELSE Max(J)
  BY DEF Latest
<1>5. CASE J = {}
  BY <1>2, <1>3, <1>4, <1>5
<1>6. CASE J # {}
  <2> DEFINE m == Max(J)
  <2>1. m \in J /\ \A i \in J : i <= m
    <3>1. J \in SUBSET Int /\ IsFiniteSet(J)
      <4>1. J \subseteq 1 .. s /\ 1 .. s \subseteq Int
        BY <1>1
      <4>2. IsFiniteSet(1 .. s)
        BY <1>1, FS_Interval
      <4> HIDE DEF J
      <4> QED
        BY <4>1, <4>2, FS_Subset
    <3> HIDE DEF J
    <3> QED
      BY <1>6, <3>1, MaxIs
  <2> HIDE DEF m
  <2>2. m \in 1 .. s /\ ops[m].key = k /\ m \in 1 .. Len(ops) /\ ops[m].seq = m
    BY <1>1, <2>1 DEF OpsInv
  <2>3. \A j \in m + 1 .. s : ops[j].key # ops[m].key
    <3> SUFFICES ASSUME NEW j \in m + 1 .. s, ops[j].key = k PROVE FALSE
      BY <2>2
    <3>1. j \in 1 .. s
      BY <1>1, <2>2
    <3>2. j \in J
      BY <3>1
    <3> QED
      BY <1>1, <2>1, <2>2, <3>2
  <2>4. ops[m] \in Stored \/ (ops[m].type = "deletion" /\ H = {})
    BY <2>2, <2>3 DEF Complete
  <2>5. CASE ops[m] \in Stored
    <3>1. ops[m] \in H
      BY <1>1, <2>2, <2>5 DEF Hits
    <3>2. PICK e \in H : /\ \A d \in H : d.seq <= e.seq
                         /\ Get(k, s) = IF e.type = "deletion" THEN 0 ELSE e.seq
      BY <1>2, <3>1
    <3>3. e.seq <= m /\ m <= e.seq /\ ops[e.seq] = e /\ e.seq \in Nat
      <4>1. e.seq \in J /\ ops[e.seq] = e
        BY <1>3
      <4>2. e.seq \in Nat
        BY <1>1, <4>1
      <4>3. ops[m].seq <= e.seq
        BY <3>1, <3>2
      <4> HIDE DEF H, J
      <4> QED
        BY <2>1, <2>2, <4>1, <4>2, <4>3
    <3>4. e.seq = m
      BY <2>2, <3>3
    <3> HIDE DEF H, J
    <3> QED
      BY <1>4, <1>6, <3>2, <3>3, <3>4 DEF m
  <2>6. CASE ops[m].type = "deletion" /\ H = {}
    BY <1>2, <1>4, <1>6, <2>6 DEF m
  <2> QED
    BY <2>4, <2>5, <2>6
<1> QED
  BY <1>5, <1>6

-----------------------------------------------------------------------------
(* What a compaction drops *)

\* The files of q and the open one have the entries in K.
Held(q, open, K) == /\ \E V : q \in Seq(V)
                    /\ \A x : x \in K <=> (x \in open \/ \E i \in 1 .. Len(q) : x \in q[i])

\* The open file is closed.
LEMMA HeldAppend ==
    ASSUME NEW q, NEW open, NEW K, Held(q, open, K)
    PROVE  Held(Append(q, open), {}, K)
<1>1. PICK V : q \in Seq(V)
  BY DEF Held
<1> DEFINE p == Append(q, open)
           n == Len(q)
           W == V \cup {open}
<1>2. q \in Seq(W) /\ n \in Nat
  BY <1>1
<1>3. p \in Seq(W) /\ Len(p) = n + 1 /\ p[n + 1] = open /\ \A i \in 1 .. n : p[i] = q[i]
  <2> HIDE DEF W
  <2>1. open \in W
    BY DEF W
  <2> QED
    BY <1>2, <2>1
<1> HIDE DEF p
<1>4. \A i \in 1 .. n + 1 : i \in 1 .. n \/ i = n + 1
  BY <1>2
<1>5. 1 .. n \subseteq 1 .. n + 1 /\ n + 1 \in 1 .. n + 1
  BY <1>2
<1>6. \A x : x \in K <=> (x \in open \/ \E i \in 1 .. n : x \in q[i])
  BY DEF Held
<1>7. \A x : x \in K <=> \E i \in 1 .. Len(p) : x \in p[i]
  <2> HIDE DEF n
  <2> QED
    BY <1>3, <1>4, <1>5, <1>6
<1>8. Held(p, {}, K)
  BY <1>3, <1>7 DEF Held
<1> QED
  BY <1>8 DEF p

\* What the loop of DoCompactionWork has with one entry more.
LEMMA HeldGoes ==
    ASSUME NEW c, NEW es, NEW i, NEW r, NEW K, Held(r.done, r.open, K)
    PROVE  Held(Goes(c, es, i, r).done, Goes(c, es, i, r).open, K \cup IF Drops(c, es, i) THEN {} ELSE {es[i]})
<1> DEFINE overlapped == r.overlapped + IF i = 1 THEN 0 ELSE Size(Passed(c, es[i]) \ Passed(c, es[i - 1]))
           stop == overlapped > MaxGrandParentOverlap
           new == IF Drops(c, es, i) THEN {} ELSE {es[i]}
           kept == IF stop THEN {} ELSE r.open
           open == kept \cup new
           done == IF stop THEN Finished(r) ELSE r.done
           full == Cardinality(open) >= TargetFileSize
           s == Goes(c, es, i, r)
<1>1. s.done = (IF full THEN Append(done, open) ELSE done) /\ s.open = (IF full THEN {} ELSE open)
  BY DEF Goes
<1>2. Held(done, kept, K)
  <2>1. Held(Finished(r), {}, K)
    <3>1. CASE r.open = {}
      BY <3>1 DEF Finished
    <3>2. CASE r.open # {}
      BY <3>2, HeldAppend DEF Finished
    <3> QED
      BY <3>1, <3>2
  <2> HIDE DEF stop
  <2> QED
    BY <2>1
<1> HIDE DEF done, kept, new, s
<1>3. Held(done, open, K \cup new)
  BY <1>2 DEF Held
<1> HIDE DEF open, full
<1>4. Held(s.done, s.open, K \cup new)
  BY <1>1, <1>3, HeldAppend
<1> QED
  BY <1>4 DEF s, new

\* A compaction writes what the loop does not drop.
LEMMA OutputsHold ==
    ASSUME NEW c, NEW es, es = InOrder(EntriesOf(c.in0 \cup c.in1)), Len(es) \in Nat
    PROVE  \A x : (\E i \in 1 .. Len(Outputs(c)) : x \in Outputs(c)[i])
                    <=> \E j \in 1 .. Len(es) : es[j] = x /\ ~Drops(c, es, j)
<1> DEFINE n == Len(es)
           start == [done |-> <<>>, open |-> {}, overlapped |-> 0]
           K(k) == { x \in { es[j] : j \in 1 .. k } : \E j \in 1 .. k : es[j] = x /\ ~Drops(c, es, j) }
<1>1. PICK f : /\ f[0] = start /\ \A k \in 0 .. n : k # 0 => f[k] = Goes(c, es, k, f[k - 1])
               /\ Outputs(c) = Finished(f[n])
  BY OutputsSteps
<1>2. f[0].done = <<>> /\ f[0].open = {} /\ n \in Nat
  BY <1>1
<1> DEFINE G == { k \in Nat : k <= n => Held(f[k].done, f[k].open, K(k)) }
<1>3. 0 \in G
  <2>1. Held(<<>>, {}, {})
    <3>1. <<>> \in Seq({}) /\ Len(<<>>) = 0
      OBVIOUS
    <3> QED
      BY <3>1 DEF Held
  <2>2. K(0) = {}
    OBVIOUS
  <2>3. Held(f[0].done, f[0].open, K(0))
    BY <1>2, <2>1, <2>2
  <2> QED
    BY <2>3
<1> HIDE DEF start, n
<1>4. ASSUME NEW k \in Nat, k \in G PROVE k + 1 \in G
  <2> SUFFICES ASSUME k + 1 <= n PROVE Held(f[k + 1].done, f[k + 1].open, K(k + 1))
    OBVIOUS
  <2> DEFINE i == k + 1
             r == f[k]
             new == IF Drops(c, es, i) THEN {} ELSE {es[i]}
  <2>1. i \in 0 .. n /\ i # 0 /\ i - 1 = k /\ k <= n
    BY <1>2
  <2>2. \A j \in 1 .. i : j \in 1 .. k \/ j = i
    OBVIOUS
  <2>3. 1 .. k \subseteq 1 .. i /\ i \in 1 .. i
    OBVIOUS
  <2>4. Held(r.done, r.open, K(k))
    BY <1>4, <2>1
  <2> HIDE DEF i
  <2>5. f[i] = Goes(c, es, i, r)
    BY <1>1, <2>1
  <2>6. K(i) = K(k) \cup new
    BY <2>2, <2>3
  <2> HIDE DEF K, r, G
  <2>7. Held(Goes(c, es, i, r).done, Goes(c, es, i, r).open, K(k) \cup new)
    BY <2>4, HeldGoes
  <2>8. Held(f[i].done, f[i].open, K(i))
    BY <2>5, <2>6, <2>7
  <2> QED
    BY <2>8 DEF i
<1>5. Held(f[n].done, f[n].open, K(n))
  <2> HIDE DEF G, K
  <2>1. Nat \subseteq G
    BY <1>3, <1>4, StepInduction
  <2>2. n \in G /\ n <= n
    BY <1>2, <2>1
  <2> QED
    BY <2>2 DEF G
<1>6. Held(Finished(f[n]), {}, K(n))
  <2> DEFINE r == f[n]
             k == K(n)
  <2>1. Held(r.done, r.open, k)
    BY <1>5
  <2> HIDE DEF r, k
  <2>2. Held(Finished(r), {}, k)
    BY <2>1, HeldAppend DEF Finished
  <2> QED
    BY <2>2 DEF r, k
<1>7. \A x : x \in K(n) <=> \E j \in 1 .. n : es[j] = x /\ ~Drops(c, es, j)
  OBVIOUS
<1> HIDE DEF K
<1> QED
  BY <1>1, <1>6, <1>7 DEF Held, n

\* What an entry has to be to go: an older one of a user key than one the compaction keeps for
\* all snapshots, or a deletion with nothing below.
LEMMA KeptOr ==
    ASSUME NEW U, Entries(U), NEW c, NEW E, E = EntriesOf(c.in0 \cup c.in1), E \in SUBSET U, IsFiniteSet(E),
           c.smallest_snapshot \in Nat, NEW x \in E, ~\E i \in 1 .. Len(Outputs(c)) : x \in Outputs(c)[i]
    PROVE  \/ \E y \in E : y.key = x.key /\ y.seq > x.seq /\ y.seq <= c.smallest_snapshot
           \/ Obsolete(c, x)
<1> DEFINE es == InOrder(EntriesOf(c.in0 \cup c.in1))
           n == Len(es)
<1>1. /\ es \in Seq(E) /\ n \in Nat /\ \A i \in 1 .. n : es[i] \in E
      /\ \E i \in 1 .. n : es[i] = x
      /\ \A i, j \in 1 .. n : i < j => Before(es[i], es[j])
  <2>1. es = InOrder(E)
    OBVIOUS
  <2> HIDE DEF es
  <2>2. es \in Seq(E) /\ \A y \in E : \E i \in 1 .. n : es[i] = y
    BY <2>1, InOrderIs
  <2>3. \A i, j \in 1 .. n : i < j => Before(es[i], es[j])
    BY <2>1, InOrderIs
  <2>4. n \in Nat /\ \A i \in 1 .. n : es[i] \in E
    BY <2>2
  <2> HIDE DEF n
  <2> QED
    BY <2>2, <2>3, <2>4
<1>2. es = InOrder(EntriesOf(c.in0 \cup c.in1))
  OBVIOUS
<1> HIDE DEF es
<1>3. PICK j \in 1 .. n : es[j] = x
  BY <1>1
<1>4. Drops(c, es, j)
  BY <1>1, <1>2, <1>3, OutputsHold
<1>5. CASE j > 1 /\ es[j - 1].key = x.key /\ es[j - 1].seq <= c.smallest_snapshot
  <2> DEFINE y == es[j - 1]
  <2>1. j - 1 \in 1 .. n /\ j - 1 < j
    BY <1>1, <1>5
  <2>2. y \in E /\ Before(y, x)
    BY <1>1, <1>3, <2>1
  <2>3. y.seq \in Nat /\ x.seq \in Nat /\ y.key \in Nat
    BY <2>2 DEF Entries
  <2>4. y.key = x.key /\ y.seq <= c.smallest_snapshot
    BY <1>5
  <2> HIDE DEF y
  <2>5. y.seq > x.seq
    BY <2>2, <2>3, <2>4 DEF Before
  <2> QED
    BY <2>2, <2>4, <2>5
<1> QED
  BY <1>3, <1>4, <1>5 DEF Drops

\* And older entries go with an obsolete deletion.
LEMMA OlderGo ==
    ASSUME NEW U, Entries(U), NEW c, NEW E, E = EntriesOf(c.in0 \cup c.in1), E \in SUBSET U, IsFiniteSet(E),
           c.smallest_snapshot \in Nat, NEW x \in E, NEW y \in E, y.key = x.key, y.seq < x.seq,
           x.seq <= c.smallest_snapshot
    PROVE  ~\E i \in 1 .. Len(Outputs(c)) : y \in Outputs(c)[i]
<1> DEFINE es == InOrder(EntriesOf(c.in0 \cup c.in1))
           n == Len(es)
<1>1. /\ es \in Seq(E) /\ n \in Nat /\ \A i \in 1 .. n : es[i] \in E
      /\ \A z \in E : \E i \in 1 .. n : es[i] = z
      /\ \A i, j \in 1 .. n : i < j => Before(es[i], es[j])
  <2>1. es = InOrder(E)
    OBVIOUS
  <2> HIDE DEF es
  <2>2. es \in Seq(E) /\ \A z \in E : \E i \in 1 .. n : es[i] = z
    BY <2>1, InOrderIs
  <2>3. \A i, j \in 1 .. n : i < j => Before(es[i], es[j])
    BY <2>1, InOrderIs
  <2>4. n \in Nat /\ \A i \in 1 .. n : es[i] \in E
    BY <2>2
  <2> HIDE DEF n
  <2> QED
    BY <2>2, <2>3, <2>4
<1>2. es = InOrder(EntriesOf(c.in0 \cup c.in1))
  OBVIOUS
<1> HIDE DEF es
<1>3. \A d \in E : d.key \in Nat /\ d.seq \in Nat
  BY DEF Entries
<1> SUFFICES ASSUME NEW j \in 1 .. n, es[j] = y PROVE Drops(c, es, j)
  BY <1>1, <1>2, OutputsHold
<1>4. PICK i \in 1 .. n : es[i] = x
  BY <1>1
<1>5. i < j
  <2>0. x.key \in Nat /\ x.seq \in Nat /\ y.key \in Nat /\ y.seq \in Nat
    BY <1>3
  <2>1. Before(x, y) /\ x # y
    BY <2>0 DEF Before
  <2>2. ~Before(y, x)
    BY <2>0 DEF Before
  <2>3. i # j
    BY <1>4, <2>1
  <2>4. ~(j < i)
    BY <1>1, <1>4, <2>2
  <2> QED
    BY <1>1, <2>3, <2>4
<1> DEFINE m == j - 1
<1>6. m \in 1 .. n /\ m < j /\ (m = i \/ i < m) /\ j > 1
  BY <1>1, <1>5
<1> DEFINE z == es[m]
<1>7. z \in E /\ Before(z, y) /\ (z = x \/ Before(x, z))
  BY <1>1, <1>4, <1>6
<1>8. es[j - 1] = z
  OBVIOUS
<1> HIDE DEF z
<1>9. z.key = y.key /\ z.seq <= x.seq
  <2>0. /\ x.key \in Nat /\ x.seq \in Nat /\ y.key \in Nat /\ y.seq \in Nat
        /\ z.key \in Nat /\ z.seq \in Nat
    BY <1>3, <1>7
  <2>1. CASE z = x
    BY <2>0, <2>1
  <2>2. CASE Before(x, z)
    BY <1>7, <2>0, <2>2 DEF Before
  <2> QED
    BY <1>7, <2>1, <2>2
<1>10. z.seq <= c.smallest_snapshot
  <2>1. z.seq \in Nat /\ x.seq \in Nat
    BY <1>3, <1>7
  <2> QED
    BY <1>9, <2>1
<1> QED
  BY <1>6, <1>8, <1>9, <1>10 DEF Drops

\* What a compaction chose, when it did.
Chosen(c) ==
  /\ c.in1 = OverlappingFiles(c.level + 1, c.in0) /\ c.base = files
  /\ c.smallest_snapshot = Min({last_sequence} \cup snapshots)

\* SetupOtherInputs chooses so.
LEMMA CompactionChosen ==
    ASSUME NEW l, NEW A, NEW c, c = Compaction(l, A)
    PROVE  Chosen(c) /\ c.level = l
<1> DEFINE next == OverlappingFiles(l + 1, A)
           wider == OverlappingFiles(l, A \cup next)
           wider_next == OverlappingFiles(l + 1, wider)
           expand == /\ next # {}
                     /\ Cardinality(wider) > Cardinality(A)
                     /\ Size(next) + Size(wider) < ExpandedCompactionLimit
                     /\ Cardinality(wider_next) = Cardinality(next)
           in0 == IF expand THEN wider ELSE A
           in1 == IF expand THEN wider_next ELSE next
<1>1. /\ c.level = l /\ c.in0 = in0 /\ c.in1 = in1 /\ c.base = files
      /\ c.smallest_snapshot = Min({last_sequence} \cup snapshots)
  BY DEF Compaction
<1>2. in1 = OverlappingFiles(l + 1, in0)
  <2> HIDE DEF expand
  <2>1. CASE expand
    BY <2>1
  <2>2. CASE ~expand
    BY <2>2
  <2> QED
    BY <2>1, <2>2
<1> HIDE DEF in0, in1
<1> QED
  BY <1>1, <1>2 DEF Chosen

\* What it leaves on a level has no user key with what it is to overlap.
LEMMA NotOverlapping ==
    ASSUME NEW U, Written(U), NEW l \in Nat, NEW A \in SUBSET files, A # {},
           NEW g \in files, g.level = l, g \notin OverlappingFiles(l, A),
           NEW d \in g.entries, NEW e \in EntriesOf(A)
    PROVE  d.key # e.key
<1>1. Tables(files, U) /\ Tables(A, U)
  BY TablesOf DEF Written
<1> DEFINE begin == First(EntriesOf(A)).key
           end == Final(EntriesOf(A)).key
<1>2. begin <= e.key /\ e.key <= end /\ e.key \in Nat
  BY <1>1, Hull
<1>3. ~Meets(g, begin, end)
  BY OverlappingFilesIs
<1>4. begin \in Nat /\ end \in Nat
  <2>1. First(EntriesOf(A)) \in U /\ Final(EntriesOf(A)) \in U
    BY <1>1, Hull
  <2>2. \A x \in U : x.key \in Nat
    BY <1>1 DEF Tables, Entries
  <2> QED
    BY <2>1, <2>2
<1> HIDE DEF begin, end
<1>5. /\ First(g.entries).key \in Nat /\ Final(g.entries).key \in Nat /\ d.key \in Nat
      /\ First(g.entries).key <= d.key /\ d.key <= Final(g.entries).key
  BY <1>1, TableKeys
<1> SUFFICES ASSUME d.key = e.key PROVE Meets(g, begin, end)
  BY <1>3
<1> QED
  BY <1>2, <1>4, <1>5 DEF Meets

\* Nor has a level from the second below it one of a deletion that is obsolete.
LEMMA NotBelow ==
    ASSUME NEW U, Written(U), NEW c, NEW k, IsBaseLevelForKey(c, k), NEW g \in c.base, g \in files, g.level >= c.level + 2,
           NEW d \in g.entries
    PROVE  d.key # k
<1>1. ~Meets(g, k, k)
  BY DEF IsBaseLevelForKey
<1>2. First(g.entries).key <= d.key /\ d.key <= Final(g.entries).key
  BY TableKeys DEF Written
<1> QED
  BY <1>1, <1>2 DEF Meets

\* Two files of a level have no entry in common.
LEMMA OneFile ==
    ASSUME NEW U, Written(U), LevelsInv, NewestAbove(files),
           NEW f \in files, NEW g \in files, f # g, f.level = g.level,
           f.level \in Nat, f.number \in Nat, g.number \in Nat,
           NEW d \in f.entries, NEW e \in g.entries, d.key = e.key
    PROVE  d.seq # e.seq
<1>1. /\ d.key \in Nat /\ d.seq \in Nat /\ e.key \in Nat /\ e.seq \in Nat
  BY DEF Written, Tables, Entries
<1>2. CASE f.level = 0
  <2>1. f.number # g.number
    BY <1>2 DEF NewestAbove
  <2>2. CASE f.number > g.number
    <3>1. Above(f, g)
      BY <1>2, <2>2 DEF Above
    <3>2. d.seq > e.seq
      BY <3>1 DEF NewestAbove
    <3> QED
      BY <1>1, <3>2
  <2>3. CASE g.number > f.number
    <3>1. Above(g, f)
      BY <1>2, <2>3 DEF Above
    <3>2. e.seq > d.seq
      BY <3>1 DEF NewestAbove
    <3> QED
      BY <1>1, <3>2
  <2>4. f.number > g.number \/ g.number > f.number
    BY <2>1
  <2> QED
    BY <2>2, <2>3, <2>4
<1>3. CASE f.level # 0
  <2>1. InLine({ x \in files : x.level = f.level })
    BY <1>3 DEF LevelsInv
  <2>2. Apart(f.entries, g.entries) \/ Apart(g.entries, f.entries)
    BY <2>1 DEF InLine
  <2>3. Before(d, e) \/ Before(e, d)
    BY <2>2 DEF Apart
  <2> QED
    BY <1>1, <2>3 DEF Before
<1> QED
  BY <1>2, <1>3

\* What a compaction under way counts on: what is left on its level is newer than what it
\* takes from there, and what is left below is newer than a deletion that it drops.
Spared(c) ==
  /\ \A g \in files \ c.in0 : g.level = c.level =>
       \A d \in g.entries, e \in EntriesOf(c.in0) : d.key = e.key => d.seq > e.seq
  /\ \A g \in files \ (c.in0 \cup c.in1) : g.level > c.level =>
       \A d \in g.entries, e \in EntriesOf(c.in0 \cup c.in1) : d.key = e.key /\ Obsolete(c, e) => d.seq > e.seq
  /\ c.smallest_snapshot \in Nat /\ \A s \in snapshots \cup {last_sequence} : c.smallest_snapshot <= s

\* It can at first, unless it parts a user key.
LEMMA SparedIs ==
    ASSUME NEW U, Written(U), LevelsInv, NewestAbove(files), snapshots \subseteq Nat,
           \A f \in files : f.level \in Nat /\ f.number \in Nat,
           NEW c, Taken(c), Chosen(c), ~Parts(c)
    PROVE  Spared(c)
<1>1. /\ c.level \in Nat /\ c.in0 # {} /\ c.in0 \in SUBSET files /\ c.in1 \in SUBSET files
      /\ \A f \in c.in0 : f.level = c.level
      /\ \A f \in c.in1 : f.level = c.level + 1
  BY DEF Taken
<1>2. \A f \in files : \A d \in f.entries : d.key \in Nat /\ d.seq \in Nat
  BY DEF Written, Tables, Entries
<1>3. ASSUME NEW g \in files \ c.in0, g.level = c.level, NEW d \in g.entries, NEW e \in EntriesOf(c.in0), d.key = e.key
      PROVE  d.seq > e.seq
  <2>1. PICK f \in c.in0 : e \in f.entries
    BY DEF EntriesOf
  <2>2. g \in files \ (c.in0 \cup c.in1)
    BY <1>1, <1>3
  <2>3. ~(d.seq < e.seq)
    BY <1>3, <2>2 DEF Parts
  <2>4. d.seq # e.seq
    <3>1. f \in files /\ g \in files /\ f # g /\ g.level = f.level
      BY <1>1, <1>3, <2>1
    <3> QED
      BY <1>3, <2>1, <3>1, OneFile
  <2>5. d.seq \in Nat /\ e.seq \in Nat
    BY <1>1, <1>2, <2>1
  <2> QED
    BY <2>3, <2>4, <2>5
<1>4. ASSUME NEW g \in files \ (c.in0 \cup c.in1), g.level > c.level,
             NEW d \in g.entries, NEW e \in EntriesOf(c.in0 \cup c.in1), d.key = e.key, Obsolete(c, e)
      PROVE  d.seq > e.seq
  <2>1. g.level = c.level + 1 \/ g.level >= c.level + 2
    BY <1>1, <1>4
  <2>2. CASE g.level >= c.level + 2
    <3>1. g \in c.base /\ IsBaseLevelForKey(c, e.key)
      BY <1>4 DEF Chosen, Obsolete
    <3>2. d.key # e.key
      BY <2>2, <3>1, NotBelow
    <3> QED
      BY <1>4, <3>2
  <2>3. CASE g.level = c.level + 1
    <3>1. e \in EntriesOf(c.in0) \/ e \in EntriesOf(c.in1)
      BY DEF EntriesOf
    <3>2. e \notin EntriesOf(c.in0)
      <4>1. g \notin OverlappingFiles(c.level + 1, c.in0) /\ c.level + 1 \in Nat
        BY <1>1 DEF Chosen
      <4> QED
        BY <1>1, <1>4, <2>3, <4>1, NotOverlapping
    <3>3. e \in EntriesOf(c.in1)
      BY <3>1, <3>2
    <3>4. PICK f \in c.in1 : e \in f.entries
      BY <3>3 DEF EntriesOf
    <3>5. ~(d.seq < e.seq)
      BY <1>4, <2>3, <3>3 DEF Parts
    <3>6. d.seq # e.seq
      <4>1. f \in files /\ g \in files /\ f # g /\ g.level = f.level
        BY <1>1, <2>3, <3>4
      <4> QED
        BY <1>4, <3>4, <4>1, OneFile
    <3>7. d.seq \in Nat /\ e.seq \in Nat
      BY <1>1, <1>2, <3>4
    <3> QED
      BY <3>5, <3>6, <3>7
  <2> QED
    BY <2>1, <2>2, <2>3
<1>5. c.smallest_snapshot \in Nat /\ \A s \in snapshots \cup {last_sequence} : c.smallest_snapshot <= s
  <2> DEFINE S == {last_sequence} \cup snapshots
  <2>1. S \in SUBSET Nat /\ S # {}
    BY DEF Written
  <2> HIDE DEF S
  <2>2. Min(S) \in S /\ \A y \in S : Min(S) <= y
    BY <2>1, MinIs
  <2>3. c.smallest_snapshot = Min(S) /\ \A s \in snapshots \cup {last_sequence} : s \in S
    BY DEF Chosen, S
  <2> QED
    BY <2>1, <2>2, <2>3
<1> QED
  BY <1>3, <1>4, <1>5 DEF Spared

-----------------------------------------------------------------------------
(* The invariant of reads *)

\* The calls of CompactRange that end above the last level.
Fits(c) == "max" \in DOMAIN c /\ c.at < c.max /\ c.max \in 1 .. NumLevels - 1

\* A read finds what it should: numbers that are not used up, newer entries above older ones,
\* and at each snapshot what is to be read somewhere; and for what is to come, a compaction that
\* can count on what it chose, and levels that there are.
NumbersInv == \A f \in files : f.number < next_file
CompleteInv == \A s \in snapshots \cup {last_sequence} : Complete(ops, Stored, s)
SnapshotsInv == snapshots \subseteq 0 .. last_sequence
SparedInv == bg # Nothing => Spared(bg)
ActiveCall == call # Nothing \/ (bg # Nothing /\ bg.manual)
BoundsInv == /\ \A f \in files : f.level < NumLevels
             /\ file_to_compact # Nothing => file_to_compact.level + 1 < NumLevels
             /\ bg # Nothing => bg.level + 1 < NumLevels
             /\ ActiveCall => Fits(call)
Found == NumbersInv /\ MemOrder /\ NewestAbove(files) /\ CompleteInv /\ SnapshotsInv /\ SparedInv /\ BoundsInv

\* At the start.
LEMMA InitFound ==
    ASSUME LevelTablesAssumption, StartsAssumption, Init
    PROVE  Found
<1>1. PICK s \in Starts : files = s.files /\ ops = s.ops /\ last_sequence = Len(s.ops)
  BY DEF Init
<1>2. /\ \A f \in s.files : f.level < NumLevels
      /\ NewestAbove(s.files) /\ Complete(s.ops, EntriesOf(s.files), Len(s.ops))
  BY <1>1 DEF StartsAssumption
<1>3. mem = {} /\ imm = Nothing /\ file_to_compact = Nothing /\ snapshots = {} /\ bg = Nothing /\ call = Nothing
  BY DEF Init
<1>4. Imm = {} /\ Stored = EntriesOf(files)
  BY <1>3 DEF Imm, Stored
<1>5. NumbersInv
  BY InitPlaces DEF NumbersInv
<1>6. CompleteInv
  BY <1>1, <1>2, <1>3, <1>4 DEF CompleteInv
<1>7. MemOrder /\ SnapshotsInv /\ SparedInv
  BY <1>3, <1>4 DEF MemOrder, SnapshotsInv, SparedInv
<1>8. BoundsInv
  BY <1>1, <1>2, <1>3 DEF BoundsInv, ActiveCall
<1> QED
  BY <1>1, <1>2, <1>5, <1>6, <1>7, <1>8 DEF Found

\* What is stored stays where it is.
LEMMA StillFound ==
    ASSUME Found, Still, UNCHANGED <<mem, imm>>, SnapshotsInv', BoundsInv',
           snapshots' \cup {last_sequence} \subseteq snapshots \cup {last_sequence}
    PROVE  Found'
<1>1. /\ files' = files /\ mem' = mem /\ imm' = imm /\ ops' = ops /\ next_file' = next_file
      /\ last_sequence' = last_sequence /\ bg' = bg
  BY DEF Still
<1>2. Stored' = Stored /\ Imm' = Imm
  BY <1>1 DEF Stored, Imm
<1>3. NumbersInv' /\ MemOrder' /\ NewestAbove(files)'
  BY <1>1, <1>2 DEF NumbersInv, MemOrder, Found
<1>4. CompleteInv'
  BY <1>1, <1>2 DEF CompleteInv, Found
<1>5. SparedInv'
  <2> SUFFICES ASSUME bg # Nothing PROVE Spared(bg)'
    BY <1>1 DEF SparedInv
  <2>1. Spared(bg)
    BY DEF SparedInv, Found
  <2> QED
    BY <1>1, <2>1 DEF Spared
<1> QED
  BY <1>3, <1>4, <1>5 DEF Found

\* A lookup that goes on to a second file has found nothing on the last level.
LEMMA CandidateIs ==
    ASSUME LevelTablesAssumption, NEW U, Tables(files, U), NewestAbove(files),
           \A f \in files : f.number \in Nat /\ f.level \in Nat /\ f.level < NumLevels,
           NEW k, NEW s, Len(Searched(k, s)) > 1
    PROVE  Searched(k, s)[1] \in files /\ Searched(k, s)[1].level + 1 < NumLevels
<1> DEFINE q == Searched(k, s)
<1>1. q \in Seq(files) /\ Runs(q, Precede)
  <2>1. \A f, g \in files : f.level = 0 /\ g.level = 0 /\ f.number = g.number => f = g
    BY DEF NewestAbove
  <2> QED
    BY <2>1, SearchedIs
<1>2. Len(q) > 1
  OBVIOUS
<1> HIDE DEF q
<1>3. 1 \in 1 .. Len(q) /\ 2 \in 1 .. Len(q) /\ 1 < 2
  BY <1>1, <1>2
<1>4. q[1] \in files /\ q[2] \in files
  BY <1>1, <1>3
<1>5. Above(q[1], q[2])
  BY <1>1, <1>3 DEF Runs, Precede
<1>6. NumLevels \in Nat /\ 1 < NumLevels
  BY DEF LevelTablesAssumption
<1>7. q[1].level + 1 < NumLevels
  <2>1. /\ q[1].level \in Nat /\ q[1].level < NumLevels
        /\ q[2].level \in Nat /\ q[2].level < NumLevels
    BY <1>4
  <2>2. CASE q[1].level < q[2].level
    BY <1>6, <2>1, <2>2
  <2>3. CASE q[1].level = 0
    BY <1>6, <2>3
  <2> QED
    BY <1>5, <2>2, <2>3 DEF Above
<1> QED
  BY <1>4, <1>7 DEF q

\* Reads, iterators, and the end of the release of a snapshot.
LEMMA ReadsFound ==
    ASSUME LevelTablesAssumption, Places, Found,
           \/ \E k \in 1 .. NumKeys : ChargeSeek(k)
           \/ RecordReadSample
    PROVE  Found'
<1>1. PICK k, s : Len(Searched(k, s)) > 1 /\ file_to_compact' = Searched(k, s)[1]
  <2>1. CASE \E k \in 1 .. NumKeys : ChargeSeek(k)
    BY <2>1 DEF ChargeSeek
  <2>2. CASE RecordReadSample
    BY <2>2 DEF RecordReadSample
  <2> QED
    BY <2>1, <2>2
<1>2. UNCHANGED <<memVars, files, next_file, snapshots, bg, call>>
  BY DEF ChargeSeek, RecordReadSample
<1>3. file_to_compact'.level + 1 < NumLevels
  <2>1. Written(Range(ops)) /\ \A f \in files : f.level \in Nat /\ f.number \in Nat
    BY WrittenIs DEF Places
  <2>2. NewestAbove(files) /\ \A f \in files : f.level < NumLevels
    BY DEF Found, BoundsInv
  <2> QED
    BY <1>1, <2>1, <2>2, CandidateIs DEF Written
<1>4. BoundsInv'
  BY <1>2, <1>3 DEF BoundsInv, ActiveCall, Found
<1>5. SnapshotsInv'
  BY <1>2 DEF SnapshotsInv, Found, memVars
<1>6. Still /\ UNCHANGED <<mem, imm>> /\ snapshots' = snapshots
  BY <1>2 DEF Still, memVars
<1> QED
  BY <1>4, <1>5, <1>6, StillFound

\* Snapshots and iterators.
LEMMA ClientFound ==
    ASSUME Places, Found,
           \/ GetSnapshot \/ \E s \in snapshots : ReleaseSnapshot(s)
           \/ \E s \in snapshots \cup {last_sequence} : NewIterator(s)
           \/ MoveIterator \/ UNCHANGED vars
    PROVE  Found'
<1>1. /\ UNCHANGED <<mem, imm, last_sequence, ops, versionVars, bg, call>>
      /\ snapshots' \subseteq snapshots \cup {last_sequence}
  <2>1. CASE GetSnapshot
    BY <2>1 DEF GetSnapshot, memVars
  <2>2. CASE \E s \in snapshots : ReleaseSnapshot(s)
    BY <2>2 DEF ReleaseSnapshot, memVars
  <2>3. CASE \E s \in snapshots \cup {last_sequence} : NewIterator(s)
    BY <2>3 DEF NewIterator
  <2>4. CASE MoveIterator
    BY <2>4 DEF MoveIterator, Moves
  <2>5. CASE UNCHANGED vars
    BY <2>5 DEF vars, memVars
  <2> QED
    BY <2>1, <2>2, <2>3, <2>4, <2>5
<1>2. Still /\ UNCHANGED <<mem, imm>>
  BY <1>1 DEF Still, versionVars
<1>3. SnapshotsInv'
  <2>1. snapshots \subseteq 0 .. last_sequence /\ last_sequence \in Nat
    BY DEF SnapshotsInv, Found, Places, OpsInv
  <2>2. last_sequence \in 0 .. last_sequence
    BY <2>1
  <2> QED
    BY <1>1, <2>1, <2>2 DEF SnapshotsInv
<1>4. BoundsInv'
  BY <1>1 DEF BoundsInv, ActiveCall, Found, versionVars
<1> QED
  BY <1>1, <1>2, <1>3, <1>4, StillFound

\* Three of the steps of CompactRange.
LEMMA CallFound ==
    ASSUME LevelTablesAssumption, Places, Found, CompactRange \/ PostRange \/ RangeDone
    PROVE  Found'
<1>1. UNCHANGED <<memVars, versionVars, snapshots, bg>>
  BY DEF CompactRange, PostRange, RangeDone
<1>2. Still /\ UNCHANGED <<mem, imm>> /\ snapshots' = snapshots /\ file_to_compact' = file_to_compact
  BY <1>1 DEF Still, memVars, versionVars
<1>3. SnapshotsInv'
  BY <1>1 DEF SnapshotsInv, Found, memVars
<1>4. ActiveCall => Fits(call)
  BY DEF Found, BoundsInv, Fits
<1>5. ActiveCall => {"at", "posted"} \subseteq DOMAIN call /\ call.at \in Int /\ (call.posted => call.at \in Nat)
  BY DEF Places, CallInv, ActiveCall
<1>6. ActiveCall' => Fits(call')
  <2>1. CASE CompactRange
    <3> DEFINE S == { l \in 1 .. NumLevels - 1 : OverlapInLevel(l, Head(todo.ranges)[1], Head(todo.ranges)[2]) }
               m == Max({1} \cup S)
    <3>1. "max" \in DOMAIN call' /\ call'.at = -2 /\ call'.max = m
      BY <2>1 DEF CompactRange
    <3>2. m \in 1 .. NumLevels - 1
      <4> DEFINE T == 1 .. NumLevels - 1
                 R == {1} \cup S
      <4>1. NumLevels - 1 \in Nat /\ 1 \in T /\ T \subseteq Int
        BY DEF LevelTablesAssumption
      <4>2. IsFiniteSet(T)
        BY <4>1, FS_Interval
      <4>3. R \subseteq T /\ R # {}
        BY <4>1
      <4> HIDE DEF T, R
      <4>4. IsFiniteSet(R) /\ R \in SUBSET Int
        BY <4>1, <4>2, <4>3, FS_Subset
      <4>5. Max(R) \in R
        BY <4>3, <4>4, MaxIs
      <4> QED
        BY <4>3, <4>5 DEF R, T
    <3> HIDE DEF m
    <3> QED
      BY <3>1, <3>2 DEF Fits
  <2>2. CASE PostRange
    <3> DEFINE m == Max({0, call.at})
    <3>1. call' = [call EXCEPT !.at = m, !.posted = TRUE] /\ call # Nothing
      BY <2>2 DEF PostRange
    <3>2. Fits(call) /\ "at" \in DOMAIN call /\ call.at \in Int
      BY <1>4, <1>5, <3>1 DEF ActiveCall
    <3>3. m < call.max
      <4>1. IsFiniteSet({0, call.at})
        <5>1. IsFiniteSet({} \cup {0})
          BY FS_EmptySet, FS_AddElement
        <5>2. IsFiniteSet(({} \cup {0}) \cup {call.at})
          BY <5>1, FS_AddElement
        <5>3. ({} \cup {0}) \cup {call.at} = {0, call.at}
          OBVIOUS
        <5> QED
          BY <5>2, <5>3
      <4>2. m \in {0, call.at}
        <5> DEFINE S == {0, call.at}
        <5>1. S \in SUBSET Int /\ S # {} /\ IsFiniteSet(S)
          BY <3>2, <4>1
        <5> HIDE DEF S
        <5>2. Max(S) \in S
          BY <5>1, MaxIs
        <5> QED
          BY <5>2 DEF S
      <4> HIDE DEF m
      <4> QED
        BY <3>2, <4>2 DEF Fits
    <3> HIDE DEF m
    <3> QED
      BY <3>1, <3>2, <3>3 DEF Fits
  <2>3. CASE RangeDone
    <3>1. /\ call # Nothing /\ call.posted /\ bg = Nothing /\ bg' = Nothing
          /\ call' = IF call.at + 1 = call.max THEN Nothing
                     ELSE [call EXCEPT !.at = @ + 1, !.begin = call.from, !.posted = FALSE]
      BY <2>3 DEF RangeDone
    <3>2. Fits(call) /\ "at" \in DOMAIN call /\ call.at \in Int
      BY <1>4, <1>5, <3>1 DEF ActiveCall
    <3>3. CASE call.at + 1 = call.max
      BY <3>1, <3>3 DEF ActiveCall
    <3>4. CASE call.at + 1 # call.max
      <4>1. call' = [call EXCEPT !.at = @ + 1, !.begin = call.from, !.posted = FALSE]
        BY <3>1, <3>4
      <4>2. "max" \in DOMAIN call' /\ call'.max = call.max /\ call'.at = call.at + 1
        BY <3>2, <4>1 DEF Fits
      <4> QED
        BY <3>2, <3>4, <4>2 DEF Fits
    <3> QED
      BY <3>3, <3>4
  <2> QED
    BY <2>1, <2>2, <2>3
<1>7. BoundsInv'
  BY <1>2, <1>6 DEF BoundsInv, Fits, Found, Still
<1> QED
  BY <1>2, <1>3, <1>7, StillFound

\* Nothing is not a memtable, as NULL is not.  (TLC, where it is a model value, cannot evaluate this.)
NullApart == Nothing \notin Entry \cup SUBSET Entry

LEMMA MemIs ==
    ASSUME NullApart, OpsInv, MemInv
    PROVE  mem # Nothing
<1>1. Range(ops) \subseteq Entry
  BY WriteAt
<1> QED
  BY <1>1 DEF NullApart, MemInv

\* The memtable is left for a new one.
LEMMA ForceSwitchFound ==
    ASSUME NullApart, LevelTablesAssumption, Places, Found, ForceSwitch
    PROVE  Found'
<1>1. /\ call # Nothing /\ call.at = -2 /\ imm = Nothing /\ imm' = mem /\ mem' = {}
      /\ call' = [call EXCEPT !.at = -1]
      /\ UNCHANGED <<last_sequence, ops, versionVars, snapshots, bg>>
  BY DEF ForceSwitch
<1>2. mem # Nothing
  BY MemIs DEF Places
<1>3. Imm = {} /\ Imm' = mem /\ Stored' = Stored
  BY <1>1, <1>2 DEF Imm, Stored, versionVars
<1>4. /\ files' = files /\ ops' = ops /\ next_file' = next_file /\ last_sequence' = last_sequence
      /\ snapshots' = snapshots /\ bg' = bg /\ file_to_compact' = file_to_compact
  BY <1>1 DEF versionVars
<1>5. NumbersInv' /\ NewestAbove(files)' /\ CompleteInv' /\ SnapshotsInv'
  BY <1>3, <1>4 DEF NumbersInv, CompleteInv, SnapshotsInv, Found
<1>6. MemOrder'
  BY <1>1, <1>3, <1>4 DEF MemOrder, Found
<1>7. SparedInv'
  BY <1>4 DEF SparedInv, Spared, Found
<1>8. BoundsInv'
  <2>1. ActiveCall /\ Fits(call) /\ "at" \in DOMAIN call
    BY <1>1 DEF ActiveCall, Found, BoundsInv, Fits, Places, CallInv
  <2>2. Fits(call')
    BY <1>1, <2>1 DEF Fits
  <2> QED
    BY <1>4, <2>2 DEF BoundsInv, Fits, Found
<1> QED
  BY <1>5, <1>6, <1>7, <1>8 DEF Found

\* A write is the newest entry there is.
LEMMA WriteFound ==
    ASSUME NullApart, LevelTablesAssumption, Places, Found,
           NEW k \in 1 .. NumKeys, NEW type \in {"value", "deletion"}, Write(k, type)
    PROVE  Found'
<1> DEFINE e == [key |-> k, seq |-> last_sequence + 1, type |-> type]
           n == last_sequence
<1>1. PICK full \in BOOLEAN :
        /\ full => imm = Nothing
        /\ mem' = (IF full THEN {} ELSE mem) \cup {e}
        /\ imm' = IF full THEN mem ELSE imm
        /\ last_sequence' = last_sequence + 1
        /\ ops' = Append(ops, e)
        /\ UNCHANGED <<versionVars, snapshots, bg, call>>
  BY DEF Write
<1>2. /\ files' = files /\ next_file' = next_file /\ snapshots' = snapshots /\ bg' = bg
      /\ file_to_compact' = file_to_compact /\ call' = call /\ last_sequence' = n + 1
  BY <1>1 DEF versionVars
<1>3. ops \in Seq(Entry) /\ n \in Nat /\ n = Len(ops)
  BY DEF Places, OpsInv
<1>4. e.key = k /\ e.seq = n + 1
  OBVIOUS
<1> HIDE DEF e
<1>5. ops'[n + 1] = e /\ \A i \in 1 .. n : ops'[i] = ops[i]
  BY <1>1, <1>3
<1> HIDE DEF n
<1>6. mem # Nothing
  BY MemIs DEF Places
<1>7. /\ Imm' = (IF full THEN mem ELSE Imm) /\ (full => Imm = {})
      /\ Stored' = Stored \cup {e}
  <2>1. CASE full
    BY <1>1, <1>2, <1>6, <2>1 DEF Imm, Stored
  <2>2. CASE ~full
    BY <1>1, <1>2, <2>2 DEF Imm, Stored
  <2> QED
    BY <2>1, <2>2
<1>8. \A d \in Stored : d.seq \in Nat /\ d.seq < e.seq
  <2> SUFFICES ASSUME NEW d \in Stored PROVE d.seq \in Nat /\ d.seq < e.seq
    OBVIOUS
  <2>1. d \in Range(ops)
    BY StoredIs DEF Places
  <2>2. d.seq \in 1 .. Len(ops)
    BY <2>1, WriteAt DEF Places
  <2> QED
    BY <1>3, <1>4, <2>2
<1>9. MemOrder'
  <2>1. MemOrder /\ Imm \subseteq Stored /\ EntriesOf(files) \subseteq Stored /\ mem \subseteq Stored
    BY DEF Found, Stored
  <2>2. \A d \in mem', x \in Imm' \cup EntriesOf(files) : x.seq < d.seq
    BY <1>1, <1>7, <1>8, <2>1 DEF MemOrder
  <2>3. \A d \in Imm', x \in EntriesOf(files) : x.seq < d.seq
    BY <1>7, <2>1 DEF MemOrder
  <2> QED
    BY <1>2, <2>2, <2>3 DEF MemOrder
<1>10. SnapshotsInv' /\ \A s \in snapshots : s \in 0 .. n
  BY <1>2, <1>3 DEF SnapshotsInv, Found, n
<1>11. CompleteInv'
  <2>1. \A s \in snapshots \cup {n} : Complete(ops, Stored, s) /\ s \in 0 .. n
    BY <1>3, <1>10 DEF Found, CompleteInv, n
  <2>2. ASSUME NEW s \in snapshots PROVE Complete(ops', Stored', s)
    <3> SUFFICES ASSUME NEW i \in 1 .. s, \A j \in i + 1 .. s : ops'[j].key # ops'[i].key
                 PROVE  ops'[i] \in Stored' \/ (ops'[i].type = "deletion" /\ Hits(Stored', ops'[i].key, s) = {})
      BY DEF Complete
    <3>1. s \in 0 .. n
      BY <2>1
    <3>2. ops'[i] = ops[i] /\ i \in Nat /\ \A j \in i + 1 .. s : ops'[j] = ops[j]
      BY <1>3, <1>5, <3>1
    <3>3. ops[i] \in Stored \/ (ops[i].type = "deletion" /\ Hits(Stored, ops[i].key, s) = {})
      BY <2>1, <3>2 DEF Complete
    <3>4. Hits(Stored', ops[i].key, s) = Hits(Stored, ops[i].key, s)
      <4>1. ~(e.seq <= s)
        BY <1>3, <1>4, <3>1
      <4> QED
        BY <1>7, <4>1 DEF Hits
    <3> QED
      BY <1>7, <3>2, <3>3, <3>4
  <2>3. Complete(ops', Stored', n + 1)
    <3> SUFFICES ASSUME NEW i \in 1 .. n + 1, \A j \in i + 1 .. n + 1 : ops'[j].key # ops'[i].key
                 PROVE  ops'[i] \in Stored' \/ (ops'[i].type = "deletion" /\ Hits(Stored', ops'[i].key, n + 1) = {})
      BY DEF Complete
    <3>1. CASE i = n + 1
      BY <1>5, <1>7, <3>1
    <3>2. CASE i # n + 1
      <4>1. /\ i \in 1 .. n /\ n + 1 \in i + 1 .. n + 1
            /\ \A j \in i + 1 .. n : j \in 1 .. n /\ j \in i + 1 .. n + 1
        <5>1. n \in Nat /\ i \in Nat /\ 1 <= i /\ i <= n + 1 /\ i # n + 1
          BY <1>3, <3>2
        <5>2. i <= n /\ i + 1 <= n + 1 /\ i + 1 >= 1
          BY <5>1
        <5> QED
          BY <5>1, <5>2
      <4>2. ops'[i] = ops[i] /\ ops[i].key # e.key /\ \A j \in i + 1 .. n : ops[j].key # ops[i].key
        BY <1>5, <4>1
      <4>3. ops[i] \in Stored \/ (ops[i].type = "deletion" /\ Hits(Stored, ops[i].key, n) = {})
        BY <2>1, <4>1, <4>2 DEF Complete
      <4>4. Hits(Stored', ops[i].key, n + 1) = Hits(Stored, ops[i].key, n)
        <5>1. \A d \in Stored : d.seq <= n /\ d.seq <= n + 1
          BY <1>3, <1>4, <1>8
        <5> QED
          BY <1>7, <4>2, <5>1 DEF Hits
      <4> QED
        BY <1>7, <4>2, <4>3, <4>4
    <3> QED
      BY <3>1, <3>2
  <2> QED
    BY <1>2, <2>2, <2>3 DEF CompleteInv
<1>12. SparedInv'
  <2> SUFFICES ASSUME bg # Nothing PROVE Spared(bg)'
    BY <1>2 DEF SparedInv
  <2>1. Spared(bg)
    BY DEF SparedInv, Found
  <2>2. \A s \in snapshots' \cup {last_sequence'} : bg.smallest_snapshot <= s
    <3>1. bg.smallest_snapshot <= n /\ bg.smallest_snapshot \in Nat
      BY <2>1 DEF Spared, n
    <3>2. bg.smallest_snapshot <= n + 1
      BY <1>3, <3>1
    <3> QED
      BY <1>2, <2>1, <3>2 DEF Spared
  <2> QED
    BY <1>2, <2>1, <2>2 DEF Spared
<1>13. NumbersInv' /\ NewestAbove(files)'
  BY <1>2 DEF NumbersInv, Found
<1>14. BoundsInv'
  BY <1>2 DEF BoundsInv, ActiveCall, Found
<1> QED
  BY <1>9, <1>10, <1>11, <1>12, <1>13, <1>14 DEF Found

\* The table of a memtable has no user key with a table above it.
LEMMA FlushIs ==
    ASSUME Places, LevelTablesAssumption, CompactMemTable, imm # {}
    PROVE  \E new :
             /\ new.number = next_file /\ new.entries = imm /\ new.level \in Nat /\ new.level < NumLevels
             /\ files' = files \cup {new} /\ file_to_compact' = Nothing /\ next_file' = next_file + 1
             /\ \A f \in files : f.level < new.level => \A d \in f.entries, e \in imm : d.key # e.key
<1> DEFINE U == Range(ops)
           begin == First(imm).key
           end == Final(imm).key
           l == PickLevelForMemTableOutput(begin, end)
           new == [number |-> next_file, level |-> l, entries |-> imm]
<1>1. imm # Nothing /\ files' = files \cup {new} /\ file_to_compact' = Nothing /\ next_file' = next_file + 1
  BY DEF CompactMemTable, Install
<1>2. Written(U) /\ Tables(files, U) /\ Entries(U) /\ IsFiniteSet(U) /\ \A f \in files : f.level \in Nat
  BY WrittenIs DEF Places, Written, Tables
<1>3. imm \in SUBSET U /\ IsFiniteSet(imm)
  BY <1>1, <1>2, FS_Subset DEF Places, MemInv
<1>4. /\ begin \in Nat /\ end \in Nat /\ \A e \in imm : e.key \in Nat /\ begin <= e.key /\ e.key <= end
  <2> HIDE DEF U
  <2>1. First(imm) \in imm /\ \A e \in imm : e = First(imm) \/ Before(First(imm), e)
    BY <1>2, <1>3, FirstIs
  <2>2. Final(imm) \in imm /\ \A e \in imm : e = Final(imm) \/ Before(e, Final(imm))
    BY <1>2, <1>3, FinalIs
  <2>3. \A e \in imm : e.key \in Nat /\ e.seq \in Nat
    BY <1>2, <1>3 DEF Entries
  <2> QED
    BY SMTT(30), <2>1, <2>2, <2>3 DEF Before
<1>5. l \in Nat /\ l < NumLevels /\ (l > 0 => \A m \in 0 .. l : ~OverlapInLevel(m, begin, end))
  <2> HIDE DEF begin, end, l
  <2> QED
    BY PickLevelIs DEF l
<1>6. new.number = next_file /\ new.level = l /\ new.entries = imm
  OBVIOUS
<1> HIDE DEF U, begin, end, l, new
<1>7. ASSUME NEW f \in files, f.level < l, NEW d \in f.entries, NEW e \in imm, d.key = e.key PROVE FALSE
  <2>1. f.level \in 0 .. l /\ l > 0 /\ f.level \in Nat
    BY <1>2, <1>5, <1>7
  <2>2. ~OverlapInLevel(f.level, begin, end)
    BY <1>5, <2>1
  <2>3. f.level > 0 => InLine({ g \in files : g.level = f.level })
    BY <2>1 DEF LevelsInv, Places
  <2>4. ~Meets(f, begin, end)
    BY <1>2, <1>4, <2>1, <2>2, <2>3, OverlapIs
  <2>5. /\ First(f.entries).key \in Nat /\ Final(f.entries).key \in Nat
        /\ First(f.entries).key <= d.key /\ d.key <= Final(f.entries).key
    BY <1>2, TableKeys
  <2> QED
    BY <1>4, <1>7, <2>4, <2>5 DEF Meets
<1> QED
  BY <1>1, <1>5, <1>6, <1>7

\* So it is among the newest where it is; the compaction under way takes older tables only.
LEMMA CompactMemTableFound ==
    ASSUME Places, LevelTablesAssumption, Found, CompactMemTable
    PROVE  Found'
<1>1. imm # Nothing /\ UNCHANGED <<mem, last_sequence, ops, snapshots, bg, call>> /\ imm' = Nothing
  BY DEF CompactMemTable
<1>2. Imm = imm /\ Imm' = {}
  BY <1>1 DEF Imm
<1>3. SnapshotsInv'
  BY <1>1 DEF SnapshotsInv, Found
<1>4. CASE imm = {}
  <2>1. files' = files /\ next_file' = next_file /\ file_to_compact' = file_to_compact
    BY <1>4 DEF CompactMemTable
  <2>2. Stored' = Stored
    BY <1>1, <1>2, <1>4, <2>1 DEF Stored
  <2>3. NumbersInv' /\ NewestAbove(files)' /\ CompleteInv' /\ BoundsInv'
    BY <1>1, <2>1, <2>2 DEF NumbersInv, CompleteInv, BoundsInv, ActiveCall, Found
  <2>4. MemOrder'
    BY <1>1, <1>2, <2>1 DEF MemOrder, Found
  <2>5. SparedInv'
    BY <1>1, <2>1 DEF SparedInv, Spared, Found
  <2> QED
    BY <1>3, <2>3, <2>4, <2>5 DEF Found
<1>5. CASE imm # {}
  <2>1. PICK new :
          /\ new.number = next_file /\ new.entries = imm /\ new.level \in Nat /\ new.level < NumLevels
          /\ files' = files \cup {new} /\ file_to_compact' = Nothing /\ next_file' = next_file + 1
          /\ \A f \in files : f.level < new.level => \A d \in f.entries, e \in imm : d.key # e.key
    BY <1>5, FlushIs
  <2>2. /\ next_file \in Nat /\ new \notin files
        /\ \A f \in files : f.number \in Nat /\ f.number < next_file /\ f.level \in Nat
    <3>1. next_file \in Nat /\ \A f \in files : f.number \in Nat /\ f.level \in Nat
      BY WrittenIs DEF Places, FilesInv
    <3>2. \A f \in files : f.number < next_file
      BY DEF Found, NumbersInv
    <3> QED
      BY <2>1, <3>1, <3>2
  <2>3. EntriesOf(files') = EntriesOf(files) \cup imm
    BY <2>1 DEF EntriesOf
  <2>4. Stored' = Stored
    BY <1>1, <1>2, <2>3 DEF Stored
  <2>5. CompleteInv'
    BY <1>1, <2>4 DEF CompleteInv, Found
  <2>6. MemOrder'
    BY <1>1, <1>2, <2>3 DEF MemOrder, Found
  <2>7. NumbersInv'
    BY <2>1, <2>2 DEF NumbersInv
  <2>8. BoundsInv'
    BY <1>1, <2>1 DEF BoundsInv, ActiveCall, Found
  <2>9. \A d \in imm, e \in EntriesOf(files) : d.seq > e.seq
    <3>1. \A d \in imm \cup EntriesOf(files) : d.seq \in Nat
      BY <1>1, StoredIs, WritesAre DEF Places, MemInv
    <3> QED
      BY <1>2, <3>1 DEF MemOrder, Found
  <2>10. NewestAbove(files)'
    <3>1. ASSUME NEW f \in files', NEW g \in files', f.level = 0, g.level = 0, f.number = g.number
          PROVE  f = g
      BY <2>1, <2>2, <3>1 DEF Found, NewestAbove
    <3>2. ASSUME NEW f \in files', NEW g \in files', Above(f, g), NEW d \in f.entries, NEW e \in g.entries, d.key = e.key
          PROVE  d.seq > e.seq
      <4>1. CASE f \in files /\ g \in files
        BY <3>2, <4>1 DEF Found, NewestAbove
      <4>2. CASE f = new /\ g = new
        BY <2>1, <2>2, <3>2, <4>2 DEF Above
      <4>3. CASE f = new /\ g \in files
        BY <2>1, <2>9, <3>2, <4>3 DEF EntriesOf
      <4>4. CASE f \in files /\ g = new
        <5>1. ~(f.level < new.level)
          BY <2>1, <3>2, <4>4
        <5>2. ~(f.number > new.number)
          BY <2>1, <2>2, <4>4
        <5> QED
          BY <3>2, <4>4, <5>1, <5>2 DEF Above
      <4> QED
        BY <2>1, <4>1, <4>2, <4>3, <4>4
    <3> QED
      BY <3>1, <3>2 DEF NewestAbove
  <2>11. SparedInv'
    <3> SUFFICES ASSUME bg # Nothing PROVE Spared(bg)'
      BY <1>1 DEF SparedInv
    <3>1. Spared(bg)
      BY DEF SparedInv, Found
    <3>2. bg.in0 \subseteq files /\ bg.in1 \subseteq files
      BY DEF Places, BgInv, Taken
    <3>3. \A d \in imm, e \in EntriesOf(bg.in0 \cup bg.in1) : d.seq > e.seq
      BY <2>9, <3>2 DEF EntriesOf
    <3>4. EntriesOf(bg.in0) \subseteq EntriesOf(bg.in0 \cup bg.in1)
      BY DEF EntriesOf
    <3>5. ASSUME NEW g \in files' \ bg.in0, g.level = bg.level,
                 NEW d \in g.entries, NEW e \in EntriesOf(bg.in0), d.key = e.key
          PROVE  d.seq > e.seq
      <4>1. CASE g = new
        BY <2>1, <3>3, <3>4, <4>1
      <4>2. CASE g \in files
        BY <3>1, <3>5, <4>2 DEF Spared
      <4> QED
        BY <2>1, <4>1, <4>2
    <3>6. ASSUME NEW g \in files' \ (bg.in0 \cup bg.in1), g.level > bg.level,
                 NEW d \in g.entries, NEW e \in EntriesOf(bg.in0 \cup bg.in1), d.key = e.key, Obsolete(bg, e)
          PROVE  d.seq > e.seq
      <4>1. CASE g = new
        BY <2>1, <3>3, <4>1
      <4>2. CASE g \in files
        BY <3>1, <3>6, <4>2 DEF Spared
      <4> QED
        BY <2>1, <4>1, <4>2
    <3> QED
      BY <1>1, <3>1, <3>5, <3>6 DEF Spared
  <2> QED
    BY <1>3, <2>5, <2>6, <2>7, <2>8, <2>10, <2>11 DEF Found
<1> QED
  BY <1>4, <1>5

\* A compaction begins, or moves its only table down, below newer ones of its level.
LEMMA BeginFound ==
    ASSUME Places, LevelTablesAssumption, Found, NEW c, Taken(c), Chosen(c), ~Parts(c), c.level + 1 < NumLevels,
           c.manual => call # Nothing, bg = Nothing,
           Begin(c), UNCHANGED <<memVars, next_file, snapshots, call>>
    PROVE  Found'
<1>1. /\ mem' = mem /\ imm' = imm /\ ops' = ops /\ last_sequence' = last_sequence
      /\ next_file' = next_file /\ snapshots' = snapshots /\ call' = call
  BY DEF memVars
<1>2. Imm' = Imm /\ SnapshotsInv'
  BY <1>1 DEF Imm, SnapshotsInv, Found
<1>3. Written(Range(ops)) /\ \A f \in files : f.level \in Nat /\ f.number \in Nat
  BY WrittenIs DEF Places
<1>4. Spared(c)
  <2>1. snapshots \subseteq Nat /\ LevelsInv /\ NewestAbove(files)
    BY <1>3 DEF Written, Found, SnapshotsInv, Places
  <2> QED
    BY <1>3, <2>1, SparedIs
<1>5. CASE ~c.manual /\ IsTrivialMove(c)
  <2>1. /\ files' = (files \ c.in0) \cup { [f EXCEPT !.level = @ + 1] : f \in c.in0 }
        /\ file_to_compact' = Nothing /\ bg' = bg
    BY <1>5 DEF Begin, Install
  <2>2. c.in0 \in SUBSET files /\ IsFiniteSet(c.in0) /\ c.level \in Nat
    BY <1>3, FS_Subset DEF Taken, Written, Tables
  <2>3. Cardinality(c.in0) = 1
    BY <1>5 DEF IsTrivialMove
  <2>4. PICK f0 : c.in0 = {f0}
    BY <2>2, <2>3, FS_Singleton
  <2> DEFINE new == [f0 EXCEPT !.level = @ + 1]
  <2>5. f0 \in files /\ f0.level = c.level /\ f0 \in FileSet
    BY <2>4 DEF Taken, Places, FilesInv
  <2>6. new.level = c.level + 1 /\ new.entries = f0.entries /\ new.number = f0.number
    BY <2>5 DEF FileSet
  <2>7. files' = (files \ {f0}) \cup {new}
    BY <2>1, <2>4
  <2> HIDE DEF new
  <2>8. EntriesOf(files') = EntriesOf(files) /\ EntriesOf(c.in0) = f0.entries
    BY <2>4, <2>5, <2>6, <2>7 DEF EntriesOf
  <2>9. Stored' = Stored
    BY <1>1, <1>2, <2>8 DEF Stored
  <2>10. CompleteInv' /\ MemOrder'
    BY <1>1, <1>2, <2>8, <2>9 DEF CompleteInv, MemOrder, Found
  <2>11. NumbersInv'
    BY <1>1, <2>5, <2>6, <2>7 DEF NumbersInv, Found
  <2>12. SparedInv'
    BY <2>1 DEF SparedInv
  <2>13. BoundsInv'
    BY <1>1, <2>1, <2>5, <2>6, <2>7 DEF BoundsInv, ActiveCall, Found
  <2>14. NewestAbove(files)'
    <3>1. ASSUME NEW f \in files', NEW g \in files', f.level = 0, g.level = 0, f.number = g.number
          PROVE  f = g
      BY <2>2, <2>6, <2>7, <3>1 DEF Found, NewestAbove
    <3>2. ASSUME NEW f \in files', NEW g \in files', Above(f, g), NEW d \in f.entries, NEW e \in g.entries, d.key = e.key
          PROVE  d.seq > e.seq
      <4>0. \A x \in files' : x = new \/ (x \in files /\ x # f0)
        BY <2>7
      <4>1. CASE f \in files /\ g \in files
        BY <3>2, <4>1 DEF Found, NewestAbove
      <4>2. CASE f = new /\ g = new
        BY <2>2, <2>6, <3>2, <4>2 DEF Above
      <4>3. CASE f = new /\ g \in files
        <5>1. Above(f0, g)
          BY <1>3, <2>2, <2>5, <2>6, <3>2, <4>3 DEF Above
        <5> QED
          BY <2>5, <2>6, <3>2, <4>3, <5>1 DEF Found, NewestAbove
      <4>4. CASE f \in files /\ f # f0 /\ g = new
        <5>1. f.level < c.level \/ f.level = c.level
          BY <1>3, <2>2, <2>6, <3>2, <4>4 DEF Above
        <5>2. CASE f.level < c.level
          <6>1. Above(f, f0)
            BY <2>5, <5>2 DEF Above
          <6> QED
            BY <2>5, <2>6, <3>2, <4>4, <6>1 DEF Found, NewestAbove
        <5>3. CASE f.level = c.level
          <6>1. f \in files \ c.in0 /\ e \in EntriesOf(c.in0)
            BY <2>4, <2>6, <2>8, <4>4
          <6> QED
            BY <1>4, <3>2, <5>3, <6>1 DEF Spared
        <5> QED
          BY <5>1, <5>2, <5>3
      <4> QED
        BY <4>0, <4>1, <4>2, <4>3, <4>4
    <3> QED
      BY <3>1, <3>2 DEF NewestAbove
  <2> QED
    BY <1>2, <2>10, <2>11, <2>12, <2>13, <2>14 DEF Found
<1>6. CASE ~(~c.manual /\ IsTrivialMove(c))
  <2>1. bg' = c /\ files' = files /\ file_to_compact' = file_to_compact
    BY <1>6 DEF Begin
  <2>2. Stored' = Stored
    BY <1>1, <1>2, <2>1 DEF Stored
  <2>3. NumbersInv' /\ MemOrder' /\ NewestAbove(files)' /\ CompleteInv'
    BY <1>1, <1>2, <2>1, <2>2 DEF NumbersInv, MemOrder, CompleteInv, Found
  <2>4. SparedInv'
    BY <1>1, <1>4, <2>1 DEF SparedInv, Spared
  <2>5. BoundsInv'
    BY <1>1, <2>1 DEF BoundsInv, ActiveCall, Found
  <2> QED
    BY <1>2, <2>3, <2>4, <2>5 DEF Found
<1> QED
  BY <1>5, <1>6

\* For size or seeks, if it does not part a user key.
LEMMA StartCompactionFound ==
    ASSUME Places, LevelTablesAssumption, Found, StartCompaction, ~parted'
    PROVE  Found'
<1>1. Written(Range(ops)) /\ \A f \in files : f.level \in Nat
  BY WrittenIs DEF Places
<1>2. PICK l \in Nat :
        /\ l + 1 < NumLevels \/ (file_to_compact # Nothing /\ l = file_to_compact.level)
        /\ \E A \in SUBSET { f \in files : f.level = l } :
             A # {} /\ Covered(A) /\ PickCompaction = Compaction(l, A)
  BY <1>1, PickCompactionIs DEF StartCompaction, Places, CandidateInv
<1>3. PICK A \in SUBSET { f \in files : f.level = l } :
        A # {} /\ Covered(A) /\ PickCompaction = Compaction(l, A)
  BY <1>2
<1> DEFINE c == PickCompaction
<1>4. InLine({ f \in files : f.level = l + 1 })
  BY SMTT(30) DEF Places, LevelsInv
<1>5. Taken(c) /\ c.manual = FALSE
  <2> HIDE DEF c
  <2>1. c = Compaction(l, A)
    BY <1>3 DEF c
  <2> QED
    BY <1>1, <1>3, <1>4, <2>1, CompactionIs
<1>6. Chosen(c) /\ c.level = l
  <2> HIDE DEF c
  <2>1. c = Compaction(l, A)
    BY <1>3 DEF c
  <2> QED
    BY <2>1, CompactionChosen
<1>7. l + 1 < NumLevels
  BY <1>2 DEF Found, BoundsInv
<1>8. bg = Nothing /\ Begin(c) /\ ~Parts(c) /\ UNCHANGED <<memVars, next_file, snapshots, call>>
  BY DEF StartCompaction, Begin
<1> HIDE DEF c
<1> QED
  BY <1>5, <1>6, <1>7, <1>8, BeginFound

\* For CompactRange.
LEMMA StartRangeFound ==
    ASSUME Places, LevelTablesAssumption, Found, StartRange, ~parted'
    PROVE  Found'
<1>1. Written(Range(ops)) /\ \A f \in files : f.level \in Nat
  BY WrittenIs DEF Places
<1> DEFINE l == call.at
           A == RangeInputs
           d == Compaction(l, A)
           c == [d EXCEPT !.manual = TRUE]
<1>2. /\ bg = Nothing /\ call # Nothing /\ A # {} /\ Begin(c) /\ ~Parts(c) /\ l \in Nat
      /\ UNCHANGED <<memVars, next_file, snapshots, call>>
  BY DEF StartRange, Begin, Places, CallInv
<1>3. A \in SUBSET { f \in files : f.level = l }
  BY <1>1, RangeInputsIs
<1>4. InLine({ f \in files : f.level = l + 1 })
  <2> DEFINE m == l + 1
  <2>1. LevelsInv /\ m \in Nat /\ m > 0
    BY <1>2 DEF Places
  <2> HIDE DEF m
  <2>2. InLine({ f \in files : f.level = m })
    BY <2>1 DEF LevelsInv
  <2> QED
    BY <2>2 DEF m
<1>5. /\ c.level = d.level /\ c.in0 = d.in0 /\ c.in1 = d.in1 /\ c.base = d.base
      /\ c.smallest_snapshot = d.smallest_snapshot
  BY DEF Compaction
<1>6. l + 1 < NumLevels
  <2>1. Fits(call)
    BY <1>2 DEF Found, BoundsInv, ActiveCall, Fits
  <2>2. NumLevels \in Nat
    BY DEF LevelTablesAssumption
  <2> QED
    BY <1>2, <2>1, <2>2 DEF Fits
<1>7. Taken(d) /\ Chosen(d) /\ d.level = l
  <2> HIDE DEF l, A
  <2> QED
    BY <1>1, <1>2, <1>3, <1>4, CompactionIs, CompactionChosen
<1> HIDE DEF c, d, l
<1>8. Taken(c) /\ Chosen(c) /\ c.level + 1 < NumLevels
  BY <1>5, <1>6, <1>7 DEF Taken, Chosen
<1> QED
  BY <1>2, <1>8, BeginFound

\* The files of a compaction that has ended.
LEMMA FinishIs ==
    ASSUME Places, LevelTablesAssumption, FinishCompaction, NEW E, E = EntriesOf(bg.in0 \cup bg.in1)
    PROVE  \E new :
             /\ files' = (files \ (bg.in0 \cup bg.in1)) \cup new
             /\ \A f \in new : /\ f.level = bg.level + 1 /\ f.number \in Nat /\ f.number < next_file'
                               /\ f.entries \in SUBSET E
             /\ \A x : x \in EntriesOf(new) <=> \E i \in 1 .. Len(Outputs(bg)) : x \in Outputs(bg)[i]
             /\ next_file' \in Nat /\ next_file <= next_file'
             /\ E \in SUBSET Range(ops) /\ IsFiniteSet(E)
<1> DEFINE outs == Outputs(bg)
           n == Len(outs)
           U == Range(ops)
           File(i) == [number |-> next_file + i - 1, level |-> bg.level + 1, entries |-> outs[i]]
           old == files \ (bg.in0 \cup bg.in1)
           new == { File(i) : i \in 1 .. n }
<1>1. /\ bg # Nothing /\ next_file' = next_file + n
      /\ files' = old \cup { File(i) : i \in DOMAIN outs }
  BY DEF FinishCompaction, Install
<1>2. Tables(files, U) /\ Entries(U) /\ IsFiniteSet(U)
  BY WrittenIs DEF Places, Written, Tables
<1>3. Taken(bg)
  BY <1>1 DEF Places, BgInv
<1>4. E \in SUBSET U
  BY <1>2, <1>3 DEF Taken, EntriesOf, Tables
<1>5. IsFiniteSet(E)
  BY <1>2, <1>4, FS_Subset
<1>6. Pile(outs, {}, E)
  <2> HIDE DEF U
  <2> QED
    BY <1>2, <1>4, <1>5, OutputsIs
<1>7. n \in Nat /\ DOMAIN outs = 1 .. n /\ \A i \in 1 .. n : outs[i] \in SUBSET E
  <2> DEFINE T == SUBSET E
  <2> HIDE DEF outs, T
  <2>1. outs \in Seq(T)
    BY <1>6 DEF Pile, T
  <2>2. n \in Nat /\ DOMAIN outs = 1 .. n /\ \A i \in 1 .. n : outs[i] \in T
    BY <2>1
  <2> QED
    BY <2>2 DEF T
<1> HIDE DEF outs, n
<1>8. files' = old \cup new
  BY <1>1, <1>7
<1>9. next_file \in Nat /\ next_file' \in Nat /\ next_file <= next_file'
  BY <1>1, <1>7 DEF Places, FilesInv
<1>10. \A i \in 1 .. n : /\ File(i).level = bg.level + 1 /\ File(i).number \in Nat /\ File(i).number < next_file'
                         /\ File(i).entries = outs[i]
  BY <1>1, <1>7, <1>9
<1> HIDE DEF File
<1>11. \A x : x \in EntriesOf(new) <=> \E i \in 1 .. n : x \in outs[i]
  BY SMTT(30), <1>10 DEF EntriesOf
<1>12. \A f \in new : f.level = bg.level + 1 /\ f.number \in Nat /\ f.number < next_file' /\ f.entries \in SUBSET E
  BY <1>7, <1>10
<1> HIDE DEF new, U
<1> QED
  BY <1>4, <1>5, <1>8, <1>9, <1>11, <1>12 DEF n, outs, U

\* What a compaction leaves on its level and above is newer than what it takes.
LEMMA LeftIs ==
    ASSUME NEW c, Taken(c), Spared(c), NewestAbove(files), \A f \in files : f.level \in Nat,
           NEW g \in files \ (c.in0 \cup c.in1), g.level <= c.level,
           NEW d \in g.entries, NEW e \in EntriesOf(c.in0 \cup c.in1), d.key = e.key
    PROVE  d.seq > e.seq
<1>1. PICK h \in c.in0 \cup c.in1 : e \in h.entries
  BY DEF EntriesOf
<1>2. /\ h \in files /\ c.level \in Nat /\ h.level \in Nat /\ g.level \in Nat
      /\ (h \in c.in0 /\ h.level = c.level) \/ h.level = c.level + 1
  BY DEF Taken
<1>3. CASE Above(g, h)
  BY <1>1, <1>2, <1>3 DEF NewestAbove
<1>4. CASE h \in c.in0 /\ g.level = c.level
  <2>1. e \in EntriesOf(c.in0)
    BY <1>1, <1>4 DEF EntriesOf
  <2> QED
    BY <1>4, <2>1 DEF Spared
<1>5. g.level < h.level \/ (h \in c.in0 /\ g.level = c.level)
  BY <1>2
<1> QED
  BY <1>3, <1>4, <1>5 DEF Above

\* Its outputs are as new above and below as its inputs were, and what it drops is not to be read.
LEMMA FinishCompactionFound ==
    ASSUME Places, LevelTablesAssumption, Found, FinishCompaction
    PROVE  Found'
<1> DEFINE E == EntriesOf(bg.in0 \cup bg.in1)
           old == files \ (bg.in0 \cup bg.in1)
           U == Range(ops)
           Kept(x) == \E i \in 1 .. Len(Outputs(bg)) : x \in Outputs(bg)[i]
<1>1. /\ bg # Nothing /\ bg' = Nothing /\ file_to_compact' = Nothing
      /\ mem' = mem /\ imm' = imm /\ ops' = ops /\ last_sequence' = last_sequence /\ snapshots' = snapshots
  BY DEF FinishCompaction, Install, memVars
<1>2. PICK new :
        /\ files' = old \cup new
        /\ \A f \in new : /\ f.level = bg.level + 1 /\ f.number \in Nat /\ f.number < next_file'
                          /\ f.entries \in SUBSET E
        /\ \A x : x \in EntriesOf(new) <=> Kept(x)
        /\ next_file' \in Nat /\ next_file <= next_file'
        /\ E \in SUBSET U /\ IsFiniteSet(E)
  BY FinishIs
<1>3. Written(U) /\ Entries(U) /\ \A f \in files : f.level \in Nat /\ f.number \in Nat
  BY WrittenIs DEF Places, Written, Tables
<1>4. /\ Taken(bg) /\ bg.level \in Nat /\ bg.in0 \cup bg.in1 \subseteq files
      /\ \A h \in bg.in0 \cup bg.in1 : h.level = bg.level \/ h.level = bg.level + 1
  BY <1>1 DEF Places, BgInv, Taken
<1>5. Spared(bg) /\ NewestAbove(files)
  BY <1>1 DEF Found, SparedInv
<1> HIDE DEF Kept
<1>6. ASSUME NEW g \in old, g.level <= bg.level, NEW d \in g.entries, NEW e \in E, d.key = e.key
      PROVE  d.seq > e.seq
  BY <1>3, <1>4, <1>5, <1>6, LeftIs
<1>7. /\ Imm' = Imm /\ EntriesOf(files') = EntriesOf(old) \cup EntriesOf(new)
      /\ EntriesOf(files) = EntriesOf(old) \cup E /\ EntriesOf(new) \subseteq E
  <2>1. EntriesOf(files') = EntriesOf(old) \cup EntriesOf(new)
    BY <1>2 DEF EntriesOf
  <2>2. EntriesOf(files) = EntriesOf(old) \cup E
    BY <1>4 DEF EntriesOf
  <2>3. EntriesOf(new) \subseteq E
    <3> HIDE DEF E
    <3> QED
      BY <1>2 DEF EntriesOf
  <2> QED
    BY <1>1, <2>1, <2>2, <2>3 DEF Imm
<1>8. SnapshotsInv' /\ SparedInv'
  BY <1>1 DEF SnapshotsInv, SparedInv, Found
<1>9. NumbersInv'
  <2>1. \A f \in old : f.number < next_file'
    <3>1. next_file \in Nat /\ \A f \in old : f.number \in Nat /\ f.number < next_file
      BY <1>3 DEF Found, NumbersInv, Places, FilesInv
    <3> HIDE DEF old
    <3> QED
      BY <1>2, <3>1
  <2> HIDE DEF old, E
  <2> QED
    BY <1>2, <2>1 DEF NumbersInv
<1>10. MemOrder'
  BY <1>1, <1>7 DEF MemOrder, Found
<1>11. BoundsInv'
  <2>1. \A f \in files' : f.level < NumLevels
    <3>1. bg.level + 1 < NumLevels /\ \A f \in old : f.level < NumLevels
      BY <1>1 DEF Found, BoundsInv
    <3> HIDE DEF old, E
    <3> QED
      BY <1>2, <3>1
  <2>2. ActiveCall' => Fits(call')
    <3> SUFFICES ASSUME ActiveCall' PROVE Fits(call')
      OBVIOUS
    <3>1. call' # Nothing
      BY <1>1 DEF ActiveCall
    <3>2. CASE bg.manual
      <4>1. Fits(call) /\ "at" \in DOMAIN call
        BY <1>1, <3>2 DEF Found, BoundsInv, ActiveCall, Fits, Places, CallInv
      <4>2. PICK x : call' = [call EXCEPT !.posted = FALSE, !.begin = x]
        BY <3>2 DEF FinishCompaction
      <4> QED
        BY <4>1, <4>2 DEF Fits
    <3>3. CASE ~bg.manual
      <4>1. call' = call
        BY <3>3 DEF FinishCompaction
      <4> QED
        BY <3>1, <4>1 DEF Found, BoundsInv, ActiveCall, Fits
    <3> QED
      BY <3>2, <3>3
  <2> QED
    BY <1>1, <2>1, <2>2 DEF BoundsInv, Fits
<1>12. NewestAbove(files)'
  <2>1. \A f \in new : f.level \in Nat /\ f.level > bg.level /\ f.level # 0
    BY <1>2, <1>4
  <2>2. ASSUME NEW f \in files', NEW g \in files', f.level = 0, g.level = 0, f.number = g.number
        PROVE  f = g
    <3>1. f \in files /\ g \in files
      BY <1>2, <2>1, <2>2
    <3> QED
      BY <1>5, <2>2, <3>1 DEF NewestAbove
  <2>3. ASSUME NEW f \in files', NEW g \in files', Above(f, g), NEW d \in f.entries, NEW e \in g.entries, d.key = e.key
        PROVE  d.seq > e.seq
    <3>1. CASE f \in old /\ g \in old
      BY <1>5, <2>3, <3>1 DEF NewestAbove
    <3>2. CASE f \in new /\ g \in new
      BY <1>2, <1>4, <2>1, <2>3, <3>2 DEF Above
    <3>3. CASE f \in new /\ g \in old
      <4>1. f.level < g.level /\ f.level = bg.level + 1 /\ g \in files
        BY <2>1, <2>3, <3>3, <1>2 DEF Above
      <4>2. d \in E
        BY <1>2, <3>3
      <4>3. PICK h \in bg.in0 \cup bg.in1 : d \in h.entries
        BY <4>2 DEF EntriesOf
      <4>4. h \in files /\ h.level < g.level
        BY <1>3, <1>4, <4>1, <4>3
      <4> QED
        BY <1>5, <2>3, <4>1, <4>3, <4>4 DEF NewestAbove, Above
    <3>4. CASE f \in old /\ g \in new
      <4>1. f.level <= bg.level
        <5>1. f.level < g.level /\ g.level = bg.level + 1 /\ f \in files
          BY <2>1, <2>3, <3>4, <1>2 DEF Above
        <5> QED
          BY <1>3, <1>4, <5>1
      <4>2. e \in E
        BY <1>2, <3>4
      <4> HIDE DEF E, old
      <4> QED
        BY <1>6, <2>3, <3>4, <4>1, <4>2
    <3> QED
      BY <1>2, <3>1, <3>2, <3>3, <3>4
  <2> QED
    BY <2>2, <2>3 DEF NewestAbove
<1>13. Stored' = mem \cup Imm \cup EntriesOf(old) \cup EntriesOf(new) /\ Stored = mem \cup Imm \cup EntriesOf(old) \cup E
  BY <1>1, <1>7 DEF Stored
<1>14. CompleteInv'
  <2> SUFFICES ASSUME NEW s \in snapshots \cup {last_sequence} PROVE Complete(ops, Stored', s)
    BY <1>1 DEF CompleteInv
  <2>1. Complete(ops, Stored, s) /\ bg.smallest_snapshot \in Nat /\ bg.smallest_snapshot <= s
    BY <1>5 DEF Found, CompleteInv, Spared
  <2>2. s \in Nat /\ s <= Len(ops)
    BY DEF Found, SnapshotsInv, Places, OpsInv
  <2> SUFFICES ASSUME NEW i \in 1 .. s, \A j \in i + 1 .. s : ops[j].key # ops[i].key, ops[i] \notin Stored'
               PROVE  ops[i].type = "deletion" /\ Hits(Stored', ops[i].key, s) = {}
    BY DEF Complete
  <2> DEFINE x == ops[i]
  <2>3. x \in Stored \/ (x.type = "deletion" /\ Hits(Stored, x.key, s) = {})
    BY <2>1 DEF Complete
  <2>4. i \in 1 .. Len(ops) /\ x.seq = i /\ i \in Nat
    BY <2>2 DEF Places, OpsInv
  <2>5. \A y \in Stored : y.seq \in 1 .. Len(ops) /\ ops[y.seq] = y
    BY StoredIs, WriteAt DEF Places
  <2>6. Stored' \subseteq Stored
    BY <1>7, <1>13
  <2> HIDE DEF E, old, U
  <2>7. CASE x \notin Stored
    BY <2>3, <2>6, <2>7 DEF Hits
  <2>8. CASE x \in Stored
    <3>1. x \in E /\ ~Kept(x)
      BY <1>2, <1>13, <2>8
    <3>2. \/ \E y \in E : y.key = x.key /\ y.seq > x.seq /\ y.seq <= bg.smallest_snapshot
          \/ Obsolete(bg, x)
      <4> HIDE DEF x
      <4> QED
        BY <1>2, <1>3, <2>1, <3>1, KeptOr DEF E, Kept
    <3> HIDE DEF x
    <3>3. \A j \in i + 1 .. s : ops[j].key # x.key
      BY DEF x
    <3>4. ~\E y \in E : y.key = x.key /\ y.seq > x.seq /\ y.seq <= bg.smallest_snapshot
      <4> SUFFICES ASSUME NEW y \in E, y.key = x.key, y.seq > x.seq, y.seq <= bg.smallest_snapshot PROVE FALSE
        OBVIOUS
      <4>1. y.seq \in Nat /\ ops[y.seq] = y
        BY <1>13, <2>5
      <4>2. y.seq \in i + 1 .. s
        BY <2>1, <2>2, <2>4, <4>1
      <4> QED
        BY <3>3, <4>1, <4>2
    <3>5. Obsolete(bg, x)
      BY <3>2, <3>4
    <3>6. x.type = "deletion" /\ x.seq <= bg.smallest_snapshot
      BY <3>5 DEF Obsolete
    <3>7. ASSUME NEW y \in Stored', y.key = x.key, y.seq <= s PROVE FALSE
      <4>1. y \in Stored /\ y.seq \in Nat /\ ops[y.seq] = y
        BY <2>5, <2>6
      <4>2. y.seq <= x.seq
        <5> SUFFICES ASSUME y.seq > x.seq PROVE FALSE
          BY <2>4, <4>1
        <5>1. y.seq \in i + 1 .. s
          BY <2>2, <2>4, <3>7, <4>1
        <5> QED
          BY <3>3, <3>7, <4>1, <5>1
      <4>3. y.seq # x.seq
        <5>1. x \notin Stored' /\ x = ops[x.seq]
          BY <2>4 DEF x
        <5> QED
          BY <3>7, <4>1, <5>1
      <4>4. y.seq < x.seq
        BY <2>4, <4>1, <4>2, <4>3
      <4>5. CASE y \in mem \cup Imm
        <5>1. x.seq < y.seq
          BY <1>7, <3>1, <4>5 DEF MemOrder, Found
        <5> QED
          BY <2>4, <4>1, <4>4, <5>1
      <4>6. CASE y \in EntriesOf(new)
        <5>1. y \in E /\ Kept(y)
          BY <1>2, <1>7, <4>6
        <5>2. ~Kept(y)
          BY <1>2, <1>3, <2>1, <3>1, <3>6, <3>7, <4>4, <5>1, OlderGo DEF E, Kept
        <5> QED
          BY <5>1, <5>2
      <4>7. CASE y \in EntriesOf(old)
        <5>1. PICK g \in old : y \in g.entries
          BY <4>7 DEF EntriesOf
        <5>2. g.level <= bg.level \/ g.level > bg.level
          BY <1>3, <1>4 DEF old
        <5>3. CASE g.level <= bg.level
          <6>1. y.seq > x.seq
            BY <1>6, <3>1, <3>7, <5>1, <5>3
          <6> QED
            BY <2>4, <4>1, <4>4, <6>1
        <5>4. CASE g.level > bg.level
          <6>1. y.seq > x.seq
            BY <1>5, <3>1, <3>5, <3>7, <5>1, <5>4 DEF Spared, old, E
          <6> QED
            BY <2>4, <4>1, <4>4, <6>1
        <5> QED
          BY <5>2, <5>3, <5>4
      <4> QED
        BY <1>13, <3>7, <4>5, <4>6, <4>7
    <3> QED
      BY <3>6, <3>7 DEF Hits, x
  <2> QED
    BY <2>7, <2>8
<1> QED
  BY <1>8, <1>9, <1>10, <1>11, <1>12, <1>14 DEF Found

\* What went wrong stays so.
LEMMA FaultsStay ==
    ASSUME [Next]_vars
    PROVE  (hole => hole') /\ (parted => parted')
<1>1. CASE UNCHANGED vars
  BY <1>1 DEF vars, faults
<1>2. CASE CompactMemTable
  BY <1>2 DEF CompactMemTable
<1>3. CASE StartCompaction \/ StartRange
  <2>1. hole' = hole /\ \E c : Begin(c)
    BY <1>3 DEF StartCompaction, StartRange
  <2> QED
    BY <2>1 DEF Begin
<1>4. CASE FinishCompaction
  BY <1>4 DEF FinishCompaction, faults
<1>5. CASE CompactRange \/ ForceSwitch \/ PostRange \/ RangeDone
  BY <1>5 DEF CompactRange, ForceSwitch, PostRange, RangeDone, faults
<1>6. CASE \E k \in 1 .. NumKeys : Write(k, "value") \/ Write(k, "deletion") \/ ChargeSeek(k)
  <2>1. PICK k \in 1 .. NumKeys : Write(k, "value") \/ Write(k, "deletion") \/ ChargeSeek(k)
    BY <1>6
  <2>2. UNCHANGED faults
    BY <2>1 DEF Write, ChargeSeek
  <2> QED
    BY <2>2 DEF faults
<1>7. CASE \/ GetSnapshot \/ \E s \in snapshots : ReleaseSnapshot(s)
           \/ \E s \in snapshots \cup {last_sequence} : NewIterator(s)
  BY <1>7 DEF GetSnapshot, ReleaseSnapshot, NewIterator, faults
<1>8. CASE MoveIterator
  <2>1. \E it, cursor : Moves(it, cursor)
    BY <1>8 DEF MoveIterator
  <2> QED
    BY <2>1 DEF Moves, faults
<1>9. CASE RecordReadSample
  BY <1>9 DEF RecordReadSample, faults
<1> QED
  BY <1>1, <1>2, <1>3, <1>4, <1>5, <1>6, <1>7, <1>8, <1>9 DEF Next, Background

\* Each step keeps it, unless it makes a hole or parts a user key.
FoundOrNot == hole \/ (Places /\ (parted \/ Found))

LEMMA NextFound ==
    ASSUME NullApart, FoundOrNot, LevelTablesAssumption, [Next]_vars
    PROVE  FoundOrNot'
<1>1. (hole => hole') /\ (parted => parted')
  BY FaultsStay
<1>2. CASE hole
  BY <1>1, <1>2 DEF FoundOrNot
<1>3. CASE Places /\ hole'
  BY <1>3 DEF FoundOrNot
<1>4. CASE Places /\ ~hole'
  <2>1. Places'
    BY <1>4, NextPlaces DEF PlacesOrHole
  <2>2. CASE parted
    BY <1>1, <2>1, <2>2 DEF FoundOrNot
  <2>3. CASE parted'
    BY <2>1, <2>3 DEF FoundOrNot
  <2>4. CASE Found /\ ~parted'
    <3> SUFFICES Found'
      BY <2>1 DEF FoundOrNot
    <3>1. CASE \E k \in 1 .. NumKeys : Write(k, "value") \/ Write(k, "deletion")
      BY <1>4, <2>4, <3>1, WriteFound
    <3>2. CASE (\E k \in 1 .. NumKeys : ChargeSeek(k)) \/ RecordReadSample
      BY <1>4, <2>4, <3>2, ReadsFound
    <3>3. CASE \/ GetSnapshot \/ \E s \in snapshots : ReleaseSnapshot(s)
               \/ \E s \in snapshots \cup {last_sequence} : NewIterator(s)
               \/ MoveIterator \/ UNCHANGED vars
      BY <1>4, <2>4, <3>3, ClientFound
    <3>4. CASE CompactRange \/ PostRange \/ RangeDone
      BY <1>4, <2>4, <3>4, CallFound
    <3>5. CASE ForceSwitch
      BY <1>4, <2>4, <3>5, ForceSwitchFound
    <3>6. CASE CompactMemTable
      BY <1>4, <2>4, <3>6, CompactMemTableFound
    <3>7. CASE StartCompaction
      BY <1>4, <2>4, <3>7, StartCompactionFound
    <3>8. CASE StartRange
      BY <1>4, <2>4, <3>8, StartRangeFound
    <3>9. CASE FinishCompaction
      BY <1>4, <2>4, <3>9, FinishCompactionFound
    <3> QED
      BY <3>1, <3>2, <3>3, <3>4, <3>5, <3>6, <3>7, <3>8, <3>9 DEF Next, Background
  <2>5. parted \/ Found
    BY <1>1, <1>4 DEF FoundOrNot
  <2> QED
    BY <2>2, <2>3, <2>4, <2>5
<1>5. hole \/ Places
  BY DEF FoundOrNot
<1> QED
  BY <1>2, <1>3, <1>4, <1>5

\* A read, also at a snapshot, gets the newest write it may see, for any number of keys, levels,
\* writes and snapshots and limits of any size, whatever compactions move and drop, unless one took
\* only the newer part of a user key, or a memtable went to where a manual one was about to write.
THEOREM ReadsCorrect ==
    ASSUME NullApart
    PROVE  Spec => []ReadsRight
<1> USE LevelTablesAssumption, StartsAssumption, NullApart
<1>1. Init => FoundOrNot
  BY InitPlaces, InitFound DEF FoundOrNot
<1>2. FoundOrNot /\ [Next]_vars => FoundOrNot'
  BY NextFound
<1>3. FoundOrNot => ReadsRight
  <2> SUFFICES ASSUME Places, Found, NEW k \in 1 .. NumKeys, NEW s \in snapshots \cup {last_sequence}
               PROVE  Get(k, s) = Latest(k, s)
    BY DEF FoundOrNot, ReadsRight
  <2>1. k \in Nat
    OBVIOUS
  <2>2. s \in 0 .. last_sequence
    <3>1. last_sequence \in Nat
      BY DEF Places, OpsInv
    <3> QED
      BY <3>1 DEF Found, SnapshotsInv
  <2>3. Complete(ops, Stored, s) /\ NewestAbove(files) /\ MemOrder /\ \A f \in files : f.level < NumLevels
    BY DEF Found, CompleteInv, BoundsInv
  <2> QED
    BY <2>1, <2>2, <2>3, ReadIs DEF Places
<1> QED
  BY <1>1, <1>2, <1>3, PTL DEF Spec

-----------------------------------------------------------------------------
(* What a merge reads *)

\* In the direction of a merge: d is met before e.
Toward(back, d, e) == IF back THEN Before(e, d) ELSE Before(d, e)

\* Sources that have no entry in common, and what is in them.
Separate(C, U) ==
  /\ C \in Seq(SUBSET U) /\ \A i \in DOMAIN C : IsFiniteSet(C[i])
  /\ \A i, j \in DOMAIN C : i # j => C[i] \cap C[j] = {}

Pool(C) == UNION { C[i] : i \in DOMAIN C }

\* A merge of them, each of which is on an entry of its own or on none.
Positions(C, U) ==
  [children : {C}, at : [DOMAIN C -> U \cup {Nothing}], current : {0} \cup DOMAIN C, back : BOOLEAN]

OnOwn(m) == \A i \in DOMAIN m.children : m.at[i] # Nothing => m.at[i] \in m.children[i]

Mergers(C, U) == { m \in Positions(C, U) : OnOwn(m) /\ (Valid(m) => Key(m) # Nothing) }

\* No source is behind the current one, nor has it left out an entry of V from there on.
Stands(m, V) ==
  Valid(m) =>
    \A i \in DOMAIN m.children :
      /\ m.at[i] # Nothing => ~Toward(m.back, m.at[i], Key(m))
      /\ \A d \in m.children[i] \cap V :
           ~Toward(m.back, d, Key(m)) => m.at[i] # Nothing /\ ~Toward(m.back, d, m.at[i])

\* In each direction the entries are in order.
LEMMA TowardOrder ==
    ASSUME NEW U, Entries(U), NEW b
    PROVE  /\ \A d \in U : ~Toward(b, d, d)
           /\ \A d, e, f \in U : Toward(b, d, e) /\ Toward(b, e, f) => Toward(b, d, f)
           /\ \A d, e \in U : d # e => Toward(b, d, e) \/ Toward(b, e, d)
           /\ \A d, e \in U : Toward(b, d, e) => ~Toward(b, e, d)
           /\ \A d, e, f \in U : Toward(b, d, e) /\ ~Toward(b, f, e) => Toward(b, d, f)
           /\ \A d, e, f \in U : ~Toward(b, e, d) /\ Toward(b, e, f) => Toward(b, d, f)
<1>1. /\ \A d \in U : ~Before(d, d)
      /\ \A d, e, f \in U : Before(d, e) /\ Before(e, f) => Before(d, f)
      /\ \A d, e \in U : d # e => Before(d, e) \/ Before(e, d)
  BY BeforeOrder
<1>2. CASE b
  BY <1>1, <1>2 DEF Toward
<1>3. CASE ~b
  BY <1>1, <1>3 DEF Toward
<1> QED
  BY <1>2, <1>3

\* The first of some entries in a direction, or Nothing.
Foremost(b, S, e) ==
  IF S = {} THEN e = Nothing ELSE e \in S /\ \A d \in S : ~Toward(b, d, e)

LEMMA EdgeIs ==
    ASSUME NEW U, Entries(U), NEW S \in SUBSET U, IsFiniteSet(S)
    PROVE  Foremost(FALSE, S, SeekToFirst(S)) /\ Foremost(TRUE, S, SeekToLast(S))
<1>1. CASE S = {}
  BY <1>1 DEF Foremost, SeekToFirst, SeekToLast
<1>2. CASE S # {}
  <2>1. First(S) \in S /\ \A d \in S : d = First(S) \/ Before(First(S), d)
    BY <1>2, FirstIs
  <2>2. Final(S) \in S /\ \A d \in S : d = Final(S) \/ Before(d, Final(S))
    BY <1>2, FinalIs
  <2>3. \A d \in S : ~Before(d, First(S)) /\ ~Before(Final(S), d)
    BY <2>1, <2>2, BeforeOrder
  <2> QED
    BY <1>2, <2>1, <2>2, <2>3 DEF Foremost, SeekToFirst, SeekToLast, Toward
<1> QED
  BY <1>1, <1>2

\* What FindSmallest and FindLargest do.
Leads(m, n, b) ==
  /\ n = [m EXCEPT !.current = n.current, !.back = b]
  /\ n.current \in {0} \cup DOMAIN m.children
  /\ Valid(n) => n.at[n.current] # Nothing
  /\ \A i \in DOMAIN m.children :
       n.at[i] # Nothing => Valid(n) /\ ~Toward(b, n.at[i], Key(n))

LEMMA LeadsTo ==
    ASSUME NEW U, Entries(U), Nothing \notin U, NEW C, Separate(C, U), NEW m \in Positions(C, U)
    PROVE  Leads(m, FindSmallest(m), FALSE) /\ Leads(m, FindLargest(m), TRUE)
<1> DEFINE on == { i \in DOMAIN m.at : m.at[i] # Nothing }
           S == { m.at[i] : i \in on }
           x == CHOOSE i \in on : \A j \in on : ~Before(m.at[j], m.at[i])
           y == CHOOSE i \in on : \A j \in on : ~Before(m.at[i], m.at[j])
<1>1. /\ m.children = C /\ m.at \in [DOMAIN C -> U \cup {Nothing}]
      /\ m.current \in {0} \cup DOMAIN C /\ DOMAIN m.at = DOMAIN C
      /\ m = [children |-> C, at |-> m.at, current |-> m.current, back |-> m.back]
  BY DEF Positions
<1>2. 0 \notin DOMAIN C /\ IsFiniteSet(DOMAIN C)
  <2>1. DOMAIN C = 1 .. Len(C) /\ Len(C) \in Nat
    BY DEF Separate
  <2> QED
    BY <2>1, FS_Interval
<1>3. S \in SUBSET U /\ IsFiniteSet(S) /\ on \in SUBSET DOMAIN C
  <2> DEFINE f == [i \in on |-> m.at[i]]
  <2>1. f \in Surjection(on, S)
    BY DEF Surjection
  <2>2. IsFiniteSet(on)
    BY <1>1, <1>2, FS_Subset
  <2>3. IsFiniteSet(S)
    BY <2>1, <2>2, FS_Surjection
  <2> QED
    BY <1>1, <2>3
<1>4. on # {} => x \in on /\ (\A j \in on : ~Before(m.at[j], m.at[x]))
  <2> SUFFICES ASSUME on # {} PROVE \E i \in on : \A j \in on : ~Before(m.at[j], m.at[i])
    OBVIOUS
  <2>1. First(S) \in S /\ \A d \in S : d = First(S) \/ Before(First(S), d)
    BY <1>3, FirstIs
  <2>2. \A d \in S : ~Before(d, First(S))
    BY <1>3, <2>1, BeforeOrder
  <2> QED
    BY <2>1, <2>2
<1>5. on # {} => y \in on /\ (\A j \in on : ~Before(m.at[y], m.at[j]))
  <2> SUFFICES ASSUME on # {} PROVE \E i \in on : \A j \in on : ~Before(m.at[i], m.at[j])
    OBVIOUS
  <2>1. Final(S) \in S /\ \A d \in S : d = Final(S) \/ Before(d, Final(S))
    BY <1>3, FinalIs
  <2>2. \A d \in S : ~Before(Final(S), d)
    BY <1>3, <2>1, BeforeOrder
  <2> QED
    BY <2>1, <2>2
<1>6. FindSmallest(m) = [m EXCEPT !.back = FALSE, !.current = IF on = {} THEN 0 ELSE x]
  BY DEF FindSmallest
<1>7. FindLargest(m) = [m EXCEPT !.back = TRUE, !.current = IF on = {} THEN 0 ELSE y]
  BY DEF FindLargest
<1>8. \A i \in DOMAIN C : m.at[i] # Nothing => i \in on
  BY <1>1
<1>9. \A i \in on : m.at[i] # Nothing
  OBVIOUS
<1> HIDE DEF on, S, x, y
<1>10. ASSUME NEW n, NEW c, NEW b, n = [m EXCEPT !.back = b, !.current = c],
              (c = 0 /\ on = {}) \/ (c \in on /\ \A j \in on : ~Toward(b, m.at[j], m.at[c]))
       PROVE  Leads(m, n, b)
  <2>1. n.at = m.at /\ n.current = c /\ n = [m EXCEPT !.current = n.current, !.back = b]
    BY <1>1, <1>10
  <2> QED
    BY <1>1, <1>2, <1>3, <1>8, <1>9, <1>10, <2>1 DEF Leads, Valid, Key
<1>11. Leads(m, FindSmallest(m), FALSE)
  BY <1>4, <1>6, <1>10 DEF Toward
<1>12. Leads(m, FindLargest(m), TRUE)
  BY <1>5, <1>7, <1>10 DEF Toward
<1> QED
  BY <1>11, <1>12

\* Where it then is: of the entries W, of which none is left behind by the direction,
\* on the one that is met first, as far as those of V go.
Arrives(n, C, U, V, W, b) ==
  /\ n \in Mergers(C, U) /\ n.back = b /\ Stands(n, V)
  /\ IF Valid(n) THEN Key(n) \in W /\ Key(n) \in Pool(C) /\ \A d \in V \cap W : ~Toward(b, d, Key(n))
     ELSE V \cap W = {}

Onward(W, U, b) == W \in SUBSET U /\ \A d \in W, e \in U : ~Toward(b, e, d) => e \in W

\* Each source at the first of W, of those of V.
Ready(at, C, V, W, b) ==
  \A i \in DOMAIN C :
    \/ at[i] = Nothing /\ C[i] \cap V \cap W = {}
    \/ at[i] \in C[i] \cap W /\ \A d \in C[i] \cap V \cap W : ~Toward(b, d, at[i])

LEMMA Advances ==
    ASSUME NEW U, Entries(U), Nothing \notin U, NEW C, Separate(C, U), NEW V \in SUBSET Pool(C),
           NEW b \in BOOLEAN, NEW W, Onward(W, U, b), NEW m \in Positions(C, U), Ready(m.at, C, V, W, b),
           NEW n, Leads(m, n, b)
    PROVE  Arrives(n, C, U, V, W, b)
<1>1. /\ m.children = C /\ m.at \in [DOMAIN C -> U \cup {Nothing}]
      /\ m = [children |-> C, at |-> m.at, current |-> m.current, back |-> m.back]
  BY DEF Positions
<1>2. /\ n = [children |-> C, at |-> m.at, current |-> n.current, back |-> b]
      /\ n.current \in {0} \cup DOMAIN C
  BY <1>1 DEF Leads
<1>3. n.children = C /\ n.at = m.at /\ n.back = b
  BY <1>2
<1>4. 0 \notin DOMAIN C /\ \A i \in DOMAIN C : C[i] \in SUBSET U
  BY DEF Separate
<1>5. n \in Positions(C, U)
  BY <1>1, <1>2 DEF Positions
<1>6. OnOwn(n)
  BY <1>3 DEF Ready, OnOwn
<1>7. n \in Mergers(C, U)
  BY <1>3, <1>5, <1>6 DEF Mergers, Leads, Key
<1>8. \A i \in DOMAIN C : m.at[i] # Nothing => Valid(n) /\ ~Toward(b, m.at[i], Key(n))
  BY <1>1, <1>3 DEF Leads
<1>9. ASSUME Valid(n)
      PROVE  /\ n.current \in DOMAIN C /\ Key(n) \in C[n.current] \cap W
             /\ \A d \in V \cap W : ~Toward(b, d, Key(n))
  <2>1. n.current \in DOMAIN C /\ m.at[n.current] # Nothing /\ Key(n) = m.at[n.current]
    BY <1>2, <1>3, <1>9 DEF Leads, Valid, Key
  <2>2. Key(n) \in C[n.current] \cap W
    BY <2>1 DEF Ready
  <2>3. ASSUME NEW d \in V \cap W PROVE ~Toward(b, d, Key(n))
    <3>1. PICK i \in DOMAIN C : d \in C[i]
      BY DEF Pool
    <3>2. m.at[i] \in C[i] /\ ~Toward(b, d, m.at[i])
      BY <3>1 DEF Ready
    <3>3. m.at[i] \in U /\ d \in U /\ Key(n) \in U /\ ~Toward(b, m.at[i], Key(n))
      BY <1>4, <1>8, <2>1, <2>2, <3>1, <3>2
    <3> QED
      BY <3>2, <3>3, TowardOrder
  <2> QED
    BY <2>1, <2>2, <2>3
<1>10. ASSUME ~Valid(n) PROVE V \cap W = {}
  <2>1. \A i \in DOMAIN C : m.at[i] = Nothing
    BY <1>8, <1>10
  <2>2. \A i \in DOMAIN C : C[i] \cap V \cap W = {}
    BY <1>4, <2>1 DEF Ready
  <2> QED
    BY <2>2 DEF Pool
<1>11. Stands(n, V)
  <2> SUFFICES ASSUME Valid(n), NEW i \in DOMAIN C
               PROVE  /\ m.at[i] # Nothing => ~Toward(b, m.at[i], Key(n))
                      /\ \A d \in C[i] \cap V : ~Toward(b, d, Key(n)) => m.at[i] # Nothing /\ ~Toward(b, d, m.at[i])
    BY <1>3 DEF Stands
  <2>1. ASSUME NEW d \in C[i] \cap V, ~Toward(b, d, Key(n))
        PROVE  m.at[i] # Nothing /\ ~Toward(b, d, m.at[i])
    <3>1. d \in W
      BY <1>4, <1>9, <2>1 DEF Onward
    <3> QED
      BY <1>4, <3>1 DEF Ready
  <2> QED
    BY <1>8, <2>1
<1>12. Valid(n) => Key(n) \in Pool(C)
  BY <1>9 DEF Pool
<1> QED
  BY <1>3, <1>7, <1>9, <1>10, <1>11, <1>12 DEF Arrives

\* The sets of entries that the moves of a merge are about.
From(U, b, e) == { d \in U : ~Toward(b, d, e) }
Past(U, b, e) == { d \in U : Toward(b, e, d) }

LEMMA OnwardIs ==
    ASSUME NEW U, Entries(U), NEW b
    PROVE  /\ Onward(U, U, b)
           /\ \A e : e.key \in Nat /\ e.seq \in Nat => Onward(From(U, b, e), U, b)
           /\ \A e \in U : Onward(Past(U, b, e), U, b)
<1>1. ASSUME NEW e, e.key \in Nat, e.seq \in Nat PROVE Onward(From(U, b, e), U, b)
  <2> SUFFICES ASSUME NEW d \in U, ~Toward(b, d, e), NEW c \in U, ~Toward(b, c, d)
               PROVE  ~Toward(b, c, e)
    BY DEF Onward, From
  <2>1. /\ d.key \in Nat /\ d.seq \in Nat /\ c.key \in Nat /\ c.seq \in Nat
    BY DEF Entries
  <2> QED
    BY <1>1, <2>1 DEF Toward, Before
<1>2. \A e \in U : Onward(Past(U, b, e), U, b)
  BY TowardOrder DEF Onward, Past
<1> QED
  BY <1>1, <1>2 DEF Onward

\* A source that was sought for W, exactly.
LEMMA EachReady ==
    ASSUME NEW C, NEW V, NEW W, NEW b, NEW at,
           \A i \in DOMAIN C : Foremost(b, C[i] \cap W, at[i])
    PROVE  Ready(at, C, V, W, b)
  BY DEF Ready, Foremost

\* A source at the first of its entries from, or past, another.
LEMMA SeekIs ==
    ASSUME NEW U, Entries(U), NEW S \in SUBSET U, IsFiniteSet(S), NEW e
    PROVE  /\ Foremost(FALSE, S \cap U, SeekToFirst(S)) /\ Foremost(TRUE, S \cap U, SeekToLast(S))
           /\ Foremost(FALSE, S \cap From(U, FALSE, e), Seek(S, e))
           /\ Foremost(FALSE, S \cap Past(U, FALSE, e), After(S, e))
           /\ Foremost(TRUE, S \cap Past(U, TRUE, e), Ahead(S, e))
<1> DEFINE F == { d \in S : ~Before(d, e) }
           A == { d \in S : Before(e, d) }
           L == { d \in S : Before(d, e) }
<1>1. F = S \cap From(U, FALSE, e) /\ A = S \cap Past(U, FALSE, e) /\ L = S \cap Past(U, TRUE, e) /\ S = S \cap U
  BY DEF From, Past, Toward
<1>2. \A T \in SUBSET S : T \in SUBSET U /\ IsFiniteSet(T)
  BY FS_Subset
<1>3. Seek(S, e) = SeekToFirst(F) /\ After(S, e) = SeekToFirst(A) /\ Ahead(S, e) = SeekToLast(L)
  BY DEF Seek, After, Ahead
<1>4. F \in SUBSET S /\ A \in SUBSET S /\ L \in SUBSET S
  OBVIOUS
<1> HIDE DEF F, A, L
<1>5. \A T \in SUBSET S : Foremost(FALSE, T, SeekToFirst(T)) /\ Foremost(TRUE, T, SeekToLast(T))
  BY <1>2, EdgeIs
<1> QED
  BY <1>1, <1>3, <1>4, <1>5

\* The positions of a merge that are not from where it stood.
LEMMA SoughtIs ==
    ASSUME NEW U, Entries(U), Nothing \notin U, NEW C, Separate(C, U), NEW V \in SUBSET Pool(C),
           NEW m \in Mergers(C, U)
    PROVE  /\ Arrives(MergeToFirst(m), C, U, V, U, FALSE)
           /\ Arrives(MergeToLast(m), C, U, V, U, TRUE)
           /\ \A e : e.key \in Nat /\ e.seq \in Nat
                => Arrives(MergeSeek(m, e), C, U, V, From(U, FALSE, e), FALSE)
<1>1. /\ m \in Positions(C, U) /\ m.children = C /\ DOMAIN m.at = DOMAIN C
      /\ m = [children |-> C, at |-> m.at, current |-> m.current, back |-> m.back]
  BY DEF Mergers, Positions
<1>2. \A i \in DOMAIN C : C[i] \in SUBSET U /\ IsFiniteSet(C[i])
  BY DEF Separate
<1>3. ASSUME NEW W, NEW b \in BOOLEAN, Onward(W, U, b), NEW at \in [DOMAIN C -> U \cup {Nothing}],
             \A i \in DOMAIN C : Foremost(b, C[i] \cap W, at[i])
      PROVE  LET p == [m EXCEPT !.at = at]
             IN  Arrives(IF b THEN FindLargest(p) ELSE FindSmallest(p), C, U, V, W, b)
  <2> DEFINE p == [m EXCEPT !.at = at]
  <2>1. p \in Positions(C, U) /\ p.at = at
    BY <1>1 DEF Positions
  <2>2. Ready(at, C, V, W, b)
    BY <1>3, EachReady
  <2> HIDE DEF p
  <2>3. Leads(p, FindSmallest(p), FALSE) /\ Leads(p, FindLargest(p), TRUE)
    BY <2>1, LeadsTo
  <2>4. CASE b
    <3>1. Leads(p, FindLargest(p), b) /\ (b \in BOOLEAN)
      BY <2>3, <2>4
    <3>2. Arrives(FindLargest(p), C, U, V, W, b)
      BY <1>3, <2>1, <2>2, <3>1, Advances
    <3> QED
      BY <2>4, <3>2 DEF p
  <2>5. CASE ~b
    <3>1. Leads(p, FindSmallest(p), b) /\ (b \in BOOLEAN)
      BY <2>3, <2>5
    <3>2. Arrives(FindSmallest(p), C, U, V, W, b)
      BY <1>3, <2>1, <2>2, <3>1, Advances
    <3> QED
      BY <2>5, <3>2 DEF p
  <2> QED
    BY <2>4, <2>5
<1>4. \A b, W, e : \A i \in DOMAIN C : Foremost(b, C[i] \cap W, e) => e \in U \cup {Nothing}
  BY <1>2 DEF Foremost
<1>5. Arrives(MergeToFirst(m), C, U, V, U, FALSE)
  <2> DEFINE at == [i \in DOMAIN C |-> SeekToFirst(C[i])]
  <2>1. \A i \in DOMAIN C : Foremost(FALSE, C[i] \cap U, at[i])
    BY <1>2, SeekIs
  <2>2. at \in [DOMAIN C -> U \cup {Nothing}]
    <3>1. \A i \in DOMAIN C : at[i] \in U \cup {Nothing}
      <4> HIDE DEF at
      <4> QED
        BY <1>4, <2>1
    <3> QED
      BY <3>1
  <2>3. MergeToFirst(m) = FindSmallest([m EXCEPT !.at = at])
    BY <1>1 DEF MergeToFirst
  <2> HIDE DEF at
  <2> QED
    BY <1>3, <2>1, <2>2, <2>3, OnwardIs
<1>6. Arrives(MergeToLast(m), C, U, V, U, TRUE)
  <2> DEFINE at == [i \in DOMAIN C |-> SeekToLast(C[i])]
  <2>1. \A i \in DOMAIN C : Foremost(TRUE, C[i] \cap U, at[i])
    BY <1>2, SeekIs
  <2>2. at \in [DOMAIN C -> U \cup {Nothing}]
    <3>1. \A i \in DOMAIN C : at[i] \in U \cup {Nothing}
      <4> HIDE DEF at
      <4> QED
        BY <1>4, <2>1
    <3> QED
      BY <3>1
  <2>3. MergeToLast(m) = FindLargest([m EXCEPT !.at = at])
    BY <1>1 DEF MergeToLast
  <2> HIDE DEF at
  <2> QED
    BY <1>3, <2>1, <2>2, <2>3, OnwardIs
<1>7. ASSUME NEW e, e.key \in Nat, e.seq \in Nat
      PROVE  Arrives(MergeSeek(m, e), C, U, V, From(U, FALSE, e), FALSE)
  <2> DEFINE at == [i \in DOMAIN C |-> Seek(C[i], e)]
             W == From(U, FALSE, e)
  <2>1. \A i \in DOMAIN C : Foremost(FALSE, C[i] \cap W, at[i])
    BY <1>2, SeekIs
  <2>2. at \in [DOMAIN C -> U \cup {Nothing}]
    <3>1. \A i \in DOMAIN C : at[i] \in U \cup {Nothing}
      <4> HIDE DEF at
      <4> QED
        BY <1>4, <2>1
    <3> QED
      BY <3>1
  <2>3. MergeSeek(m, e) = FindSmallest([m EXCEPT !.at = at])
    BY <1>1 DEF MergeSeek
  <2>4. Onward(W, U, FALSE)
    BY <1>7, OnwardIs
  <2> HIDE DEF at, W
  <2>5. Arrives(MergeSeek(m, e), C, U, V, W, FALSE)
    BY <1>3, <2>1, <2>2, <2>3, <2>4
  <2> QED
    BY <2>5 DEF W
<1> QED
  BY <1>5, <1>6, <1>7

\* A step of a merge, also one that turns it: to the next entry, and over none of V.
LEMMA StepIs ==
    ASSUME NEW U, Entries(U), Nothing \notin U, NEW C, Separate(C, U), NEW V \in SUBSET Pool(C),
           NEW m \in Mergers(C, U), Stands(m, V), Valid(m)
    PROVE  /\ Key(m) \in U /\ Key(m) \in Pool(C)
           /\ Arrives(MergeNext(m), C, U, V, Past(U, FALSE, Key(m)), FALSE)
           /\ Arrives(MergePrev(m), C, U, V, Past(U, TRUE, Key(m)), TRUE)
<1> DEFINE p == Key(m)
           c == m.current
<1>1. /\ m \in Positions(C, U) /\ m.children = C /\ m.at \in [DOMAIN C -> U \cup {Nothing}]
      /\ m.back \in BOOLEAN /\ DOMAIN m.at = DOMAIN C
      /\ m = [children |-> C, at |-> m.at, current |-> m.current, back |-> m.back]
  BY DEF Mergers, Positions
<1>2. \A i \in DOMAIN C : C[i] \in SUBSET U /\ IsFiniteSet(C[i])
  BY DEF Separate
<1>3. c \in DOMAIN C /\ p = m.at[c] /\ p # Nothing /\ p \in C[c]
  BY <1>1 DEF Mergers, Positions, Valid, Key, OnOwn
<1>4. p \in U /\ p \in Pool(C)
  BY <1>2, <1>3 DEF Pool
<1>5. \A i \in DOMAIN C : i # c => p \notin C[i]
  BY <1>3 DEF Separate
<1>6. \A i \in DOMAIN C : m.at[i] # Nothing => m.at[i] \in C[i] /\ ~Toward(m.back, m.at[i], p)
  BY <1>1 DEF Mergers, OnOwn, Stands
<1>7. \A i \in DOMAIN C : \A d \in C[i] \cap V :
        ~Toward(m.back, d, p) => m.at[i] # Nothing /\ ~Toward(m.back, d, m.at[i])
  BY <1>1 DEF Stands
<1> HIDE DEF p, c
<1>8. ASSUME NEW b \in BOOLEAN, NEW i \in DOMAIN C, i # c, m.back = b
      PROVE  LET W == Past(U, b, p)
             IN  \/ m.at[i] = Nothing /\ C[i] \cap V \cap W = {}
                 \/ m.at[i] \in C[i] \cap W /\ \A d \in C[i] \cap V \cap W : ~Toward(b, d, m.at[i])
  <2> DEFINE W == Past(U, b, p)
  <2>1. ASSUME NEW d \in C[i] \cap V \cap W PROVE m.at[i] # Nothing /\ ~Toward(b, d, m.at[i])
    <3>1. ~Toward(b, d, p)
      BY <1>4, TowardOrder DEF Past
    <3> QED
      BY <1>7, <1>8, <3>1
  <2>2. ASSUME m.at[i] # Nothing PROVE m.at[i] \in C[i] \cap W
    <3>1. m.at[i] \in C[i] /\ ~Toward(b, m.at[i], p) /\ m.at[i] # p /\ m.at[i] \in U
      BY <1>2, <1>5, <1>6, <1>8, <2>2
    <3>2. Toward(b, p, m.at[i])
      BY <1>4, <3>1, TowardOrder
    <3> QED
      BY <3>1, <3>2 DEF Past
  <2> QED
    BY <2>1, <2>2
<1>9. ASSUME NEW i \in DOMAIN C, i # c
      PROVE  C[i] \cap From(U, FALSE, p) = C[i] \cap Past(U, FALSE, p)
  <2>1. \A d \in C[i] : d # p /\ d \in U
    BY <1>2, <1>5, <1>9
  <2>2. \A d \in C[i] : ~Toward(FALSE, d, p) <=> Toward(FALSE, p, d)
    BY <1>4, <2>1, TowardOrder
  <2> QED
    BY <2>2 DEF From, Past
<1>10. ASSUME NEW b \in BOOLEAN, NEW at \in [DOMAIN C -> U \cup {Nothing}], Ready(at, C, V, Past(U, b, p), b)
       PROVE  LET q == [m EXCEPT !.at = at]
              IN  Arrives(IF b THEN FindLargest(q) ELSE FindSmallest(q), C, U, V, Past(U, b, p), b)
  <2> DEFINE q == [m EXCEPT !.at = at]
             W == Past(U, b, p)
  <2>1. q \in Positions(C, U) /\ q.at = at
    BY <1>1 DEF Positions
  <2>2. Onward(W, U, b)
    BY <1>4, OnwardIs
  <2>3. Ready(at, C, V, W, b)
    BY <1>10
  <2> HIDE DEF q, W
  <2>4. Leads(q, FindSmallest(q), FALSE) /\ Leads(q, FindLargest(q), TRUE)
    BY <2>1, LeadsTo
  <2>5. \A n : Leads(q, n, b) => Arrives(n, C, U, V, W, b)
    BY <2>1, <2>2, <2>3, Advances
  <2>6. Leads(q, IF b THEN FindLargest(q) ELSE FindSmallest(q), b)
    BY <2>4
  <2>7. Arrives(IF b THEN FindLargest(q) ELSE FindSmallest(q), C, U, V, W, b)
    BY <2>5, <2>6
  <2> QED
    BY <2>7 DEF q, W
<1>11. Arrives(MergeNext(m), C, U, V, Past(U, FALSE, p), FALSE)
  <2> DEFINE at == [i \in DOMAIN C |-> IF i = c THEN After(C[i], p)
                                       ELSE IF m.back THEN Seek(C[i], p) ELSE m.at[i]]
             W == Past(U, FALSE, p)
  <2>1. ASSUME NEW i \in DOMAIN C, i = c \/ m.back PROVE Foremost(FALSE, C[i] \cap W, at[i])
    <3>1. Foremost(FALSE, C[i] \cap From(U, FALSE, p), Seek(C[i], p))
      BY <1>2, SeekIs
    <3>2. Foremost(FALSE, C[i] \cap W, After(C[i], p))
      BY <1>2, SeekIs
    <3> HIDE DEF W
    <3>3. i # c => C[i] \cap From(U, FALSE, p) = C[i] \cap W
      BY <1>9 DEF W
    <3>4. i # c => m.back
      BY <2>1
    <3> QED
      BY <3>1, <3>2, <3>3, <3>4
  <2>2. ASSUME NEW i \in DOMAIN C
        PROVE  /\ \/ at[i] = Nothing /\ C[i] \cap V \cap W = {}
                  \/ at[i] \in C[i] \cap W /\ \A d \in C[i] \cap V \cap W : ~Toward(FALSE, d, at[i])
               /\ at[i] \in U \cup {Nothing}
    <3>1. CASE i = c \/ m.back
      <4>1. Foremost(FALSE, C[i] \cap W, at[i])
        BY <2>1, <3>1
      <4> HIDE DEF at, W
      <4> QED
        BY <1>2, <4>1 DEF Foremost
    <3>2. CASE ~(i = c \/ m.back)
      <4>1. at[i] = m.at[i] /\ m.back = FALSE
        BY <1>1, <3>2
      <4> QED
        BY <1>1, <1>8, <3>2, <4>1
    <3> QED
      BY <3>1, <3>2
  <2>3. Ready(at, C, V, W, FALSE)
    <3> HIDE DEF at, W
    <3> QED
      BY <2>2 DEF Ready
  <2>4. at \in [DOMAIN C -> U \cup {Nothing}]
    BY <2>2
  <2>5. MergeNext(m) = FindSmallest([m EXCEPT !.at = at])
    BY <1>1 DEF MergeNext, p, c
  <2> HIDE DEF at
  <2> QED
    BY <1>10, <2>3, <2>4, <2>5
<1>12. Arrives(MergePrev(m), C, U, V, Past(U, TRUE, p), TRUE)
  <2> DEFINE at == [i \in DOMAIN C |-> IF i = c \/ ~m.back THEN Ahead(C[i], p) ELSE m.at[i]]
             W == Past(U, TRUE, p)
  <2>2. ASSUME NEW i \in DOMAIN C
        PROVE  /\ \/ at[i] = Nothing /\ C[i] \cap V \cap W = {}
                  \/ at[i] \in C[i] \cap W /\ \A d \in C[i] \cap V \cap W : ~Toward(TRUE, d, at[i])
               /\ at[i] \in U \cup {Nothing}
    <3>1. CASE i = c \/ ~m.back
      <4>1. Foremost(TRUE, C[i] \cap W, Ahead(C[i], p))
        BY <1>2, SeekIs
      <4>2. at[i] = Ahead(C[i], p)
        BY <3>1
      <4> HIDE DEF at, W
      <4> QED
        BY <1>2, <4>1, <4>2 DEF Foremost
    <3>2. CASE ~(i = c \/ ~m.back)
      <4>1. at[i] = m.at[i] /\ m.back = TRUE
        BY <1>1, <3>2
      <4> QED
        BY <1>1, <1>8, <3>2, <4>1
    <3> QED
      BY <3>1, <3>2
  <2>3. Ready(at, C, V, W, TRUE)
    <3> HIDE DEF at, W
    <3> QED
      BY <2>2 DEF Ready
  <2>4. at \in [DOMAIN C -> U \cup {Nothing}]
    BY <2>2
  <2>5. MergePrev(m) = FindLargest([m EXCEPT !.at = at])
    BY <1>1 DEF MergePrev, p, c
  <2> HIDE DEF at
  <2> QED
    BY <1>10, <2>3, <2>4, <2>5
<1> QED
  BY <1>4, <1>11, <1>12 DEF p

-----------------------------------------------------------------------------
(* The loops over what a merge reads *)

\* The sum of c over each part of a set, one element after the other.
Sums(f, T, c) ==
  f = [s \in SUBSET T |-> IF s = {} THEN 0 ELSE LET x == CHOOSE x \in s : TRUE IN c[x] + f[s \ {x}]]

LEMMA SumsExist ==
    ASSUME NEW T, IsFiniteSet(T), NEW c \in [T -> Nat]
    PROVE  \E f : Sums(f, T, c)
<1> DEFINE D == SUBSET T
           V == Nat
           m == [s \in D |-> Cardinality(s)]
           stop == {{}}
           next == [s \in D |-> s \ {CHOOSE x \in s : TRUE}]
           b == [s \in stop |-> 0]
           F == [s \in D |-> [v \in V |-> c[CHOOSE x \in s : TRUE] + v]]
<1>1. RecursionOn(D, V, m, stop, next, b, F)
  <2>1. m \in [D -> Nat]
    BY FS_Subset, FS_CardinalityType
  <2>2. \A s \in D : s \in stop => b[s] \in V
    OBVIOUS
  <2>3. ASSUME NEW s \in D, s \notin stop
        PROVE  next[s] \in D /\ m[next[s]] < m[s] /\ F[s] \in [V -> V]
    <3> DEFINE x == CHOOSE x \in s : TRUE
    <3>1. x \in s /\ x \in T
      BY <2>3
    <3>2. IsFiniteSet(s)
      BY FS_Subset
    <3>3. Cardinality(s) \in Nat
      BY <3>2, FS_CardinalityType
    <3>4. Cardinality(s \ {x}) = Cardinality(s) - 1
      BY <3>1, <3>2, FS_RemoveElement
    <3>5. next[s] = s \ {x} /\ next[s] \in D /\ F[s] = [v \in V |-> c[x] + v]
      OBVIOUS
    <3>6. m[next[s]] = Cardinality(s \ {x}) /\ m[s] = Cardinality(s) /\ c[x] \in Nat
      BY <3>1, <3>5
    <3> HIDE DEF x, m, next, F
    <3>7. m[next[s]] < m[s]
      BY <3>3, <3>4, <3>6
    <3>8. F[s] \in [V -> V]
      BY <3>5, <3>6
    <3> QED
      BY <3>5, <3>7, <3>8
  <2> HIDE DEF m, stop, next, b, F, V, D
  <2> QED
    BY <2>1, <2>2, <2>3 DEF RecursionOn
<1> HIDE DEF m, stop, next, b, F
<1>2. PICK f : Solves(f, D, V, stop, next, b, F)
  BY <1>1, RecursionExists
<1>3. ASSUME NEW s \in D
      PROVE  f[s] = IF s = {} THEN 0 ELSE c[CHOOSE x \in s : TRUE] + f[s \ {CHOOSE x \in s : TRUE}]
  <2>1. CASE s = {}
    BY <1>2, <2>1 DEF Solves, stop, b
  <2>2. CASE s # {}
    <3>1. s \notin stop /\ next[s] = s \ {CHOOSE x \in s : TRUE} /\ next[s] \in D
      BY <2>2 DEF stop, next
    <3>2. f[next[s]] \in V
      BY <1>2, <3>1 DEF Solves
    <3>3. F[s][f[next[s]]] = c[CHOOSE x \in s : TRUE] + f[next[s]]
      BY <3>2 DEF F
    <3> QED
      BY <1>2, <2>2, <3>1, <3>3 DEF Solves
  <2> QED
    BY <2>1, <2>2
<1>4. f \in [D -> V]
  BY <1>2 DEF Solves
<1>5. Sums(f, T, c)
  BY <1>3, <1>4 DEF Sums
<1> QED
  BY <1>5

\* The turns a loop may take are at least as many as there are entries.
Turns(C) == MapThenSumSet(LAMBDA i : Cardinality(C[i]), DOMAIN C)

LEMMA TurnsIs ==
    ASSUME NEW U, NEW C, Separate(C, U)
    PROVE  /\ Turns(C) \in Nat /\ IsFiniteSet(Pool(C)) /\ Cardinality(Pool(C)) \in Nat
           /\ Cardinality(Pool(C)) <= Turns(C)
<1> DEFINE T == DOMAIN C
           c == [i \in T |-> Cardinality(C[i])]
           In(s) == UNION { C[i] : i \in s }
           Eq(f) == f = [s \in SUBSET T |-> IF s = {} THEN 0
                          ELSE LET x == CHOOSE x \in s : TRUE IN Cardinality(C[x]) + f[s \ {x}]]
<1>1. IsFiniteSet(T)
  <2>1. T = 1 .. Len(C) /\ Len(C) \in Nat
    BY DEF Separate
  <2> QED
    BY <2>1, FS_Interval
<1>2. \A i \in T : IsFiniteSet(C[i]) /\ c[i] = Cardinality(C[i]) /\ Cardinality(C[i]) \in Nat
  BY FS_CardinalityType DEF Separate
<1>3. c \in [T -> Nat]
  BY <1>2
<1>4. Turns(C) = (CHOOSE f : Eq(f))[T]
  BY DEF Turns, MapThenSumSet, MapThenFoldSet
<1>5. \A f : Sums(f, T, c) <=> Eq(f)
  <2>1. \A s \in SUBSET T : s # {} => c[CHOOSE x \in s : TRUE] = Cardinality(C[CHOOSE x \in s : TRUE])
    OBVIOUS
  <2> HIDE DEF c
  <2> QED
    BY <2>1 DEF Sums
<1>6. PICK f : Sums(f, T, c) /\ Turns(C) = f[T]
  <2>1. \E f : Sums(f, T, c)
    BY <1>1, <1>3, SumsExist
  <2> HIDE DEF c, T, Eq
  <2> QED
    BY <1>4, <1>5, <2>1
<1> DEFINE OK(s) == /\ f[s] \in Nat /\ IsFiniteSet(In(s)) /\ Cardinality(In(s)) \in Nat
                    /\ Cardinality(In(s)) <= f[s]
           S == { n \in Nat : \A s \in SUBSET T : Cardinality(s) = n => OK(s) }
<1>7. 0 \in S
  <2> SUFFICES ASSUME NEW s \in SUBSET T, Cardinality(s) = 0 PROVE OK(s)
    OBVIOUS
  <2>1. s = {}
    BY <1>1, FS_Subset, FS_EmptySet
  <2>2. In(s) = {} /\ f[s] = 0
    BY <1>6, <2>1 DEF Sums
  <2> HIDE DEF In
  <2> QED
    BY <2>2, FS_EmptySet
<1>8. ASSUME NEW n \in Nat, n \in S PROVE n + 1 \in S
  <2> HIDE DEF OK
  <2> SUFFICES ASSUME NEW s \in SUBSET T, Cardinality(s) = n + 1 PROVE OK(s)
    OBVIOUS
  <2> DEFINE x == CHOOSE x \in s : TRUE
             r == s \ {x}
  <2>1. IsFiniteSet(s) /\ s # {}
    BY <1>1, FS_Subset, FS_EmptySet
  <2>2. x \in s /\ x \in T
    BY <2>1
  <2>3. Cardinality(r) = n /\ r \in SUBSET T
    <3>1. Cardinality(r) = Cardinality(s) - 1
      BY <2>1, <2>2, FS_RemoveElement
    <3> QED
      BY <3>1
  <2>4. f[s] = c[x] + f[r]
    BY <1>6, <2>1 DEF Sums
  <2> HIDE DEF x, r
  <2>5. In(s) = C[x] \cup In(r)
    BY <2>2 DEF r
  <2>6. OK(r)
    BY <1>8, <2>3
  <2> USE DEF OK
  <2> HIDE DEF In
  <2>7. IsFiniteSet(In(s)) /\ Cardinality(In(s)) = Cardinality(C[x]) + Cardinality(In(r)) - Cardinality(C[x] \cap In(r))
    BY <1>2, <2>2, <2>5, <2>6, FS_Union
  <2>8. IsFiniteSet(C[x] \cap In(r))
    BY <2>6, FS_Subset
  <2>9. Cardinality(C[x] \cap In(r)) \in Nat /\ Cardinality(In(s)) \in Nat
    BY <2>7, <2>8, FS_CardinalityType
  <2>10. c[x] = Cardinality(C[x]) /\ Cardinality(C[x]) \in Nat
    BY <1>2, <2>2
  <2> HIDE DEF c
  <2> QED
    BY <2>4, <2>6, <2>7, <2>9, <2>10
<1>9. Nat \subseteq S
  <2> HIDE DEF S
  <2> QED
    BY <1>7, <1>8, StepInduction
<1>10. Cardinality(T) \in S
  BY <1>1, <1>9, FS_CardinalityType
<1>11. OK(T)
  BY <1>10
<1>12. In(T) = Pool(C)
  BY DEF Pool
<1> HIDE DEF In
<1> QED
  BY <1>6, <1>11, <1>12

\* A loop that applies F until stop, and has less left each time.
Ends(V, stop, F, start, P, left) ==
  /\ start \in V /\ F \in [V -> V] /\ IsFiniteSet(P) /\ left \in [V -> SUBSET P]
  /\ \A x \in V : x \notin stop => /\ left[x] # {}
                                   /\ F[x] \in stop \/ (left[F[x]] \subseteq left[x] /\ left[F[x]] # left[x])

Follows(f, V, stop, F, start) ==
  /\ f[0] = start
  /\ \A n \in Nat : f[n] \in V => f[n + 1] = IF f[n] \in stop THEN f[n] ELSE F[f[n]]

\* There is a function with its values, and they are those of any such function.
LEMMA LoopHas ==
    ASSUME NEW V, NEW stop, NEW F \in [V -> V], NEW start \in V
    PROVE  \E f \in [Nat -> V] : Follows(f, V, stop, F, start)
<1> DEFINE G == [x \in V |-> IF x \in stop THEN x ELSE F[x]]
           m == [n \in Nat |-> n]
           first == {0}
           next == [n \in Nat |-> n - 1]
           b == [n \in first |-> start]
           Each == [n \in Nat |-> G]
<1>1. RecursionOn(Nat, V, m, first, next, b, Each)
  BY DEF RecursionOn
<1>2. PICK f : Solves(f, Nat, V, first, next, b, Each)
  <2> HIDE DEF m, first, next, b, Each
  <2> QED
    BY <1>1, RecursionExists
<1>3. f \in [Nat -> V] /\ f[0] = start
  BY <1>2 DEF Solves
<1>4. ASSUME NEW n \in Nat PROVE f[n + 1] = IF f[n] \in stop THEN f[n] ELSE F[f[n]]
  <2>1. n + 1 \notin first /\ next[n + 1] = n /\ n + 1 \in Nat
    OBVIOUS
  <2>2. f[n + 1] = Each[n + 1][f[next[n + 1]]]
    BY <1>2, <2>1 DEF Solves
  <2>3. f[n + 1] = G[f[n]] /\ f[n] \in V
    BY <1>3, <2>1, <2>2
  <2> QED
    BY <2>3
<1> QED
  BY <1>3, <1>4 DEF Follows

LEMMA LoopEnds ==
    ASSUME NEW V, NEW stop, NEW F, NEW start, NEW P, NEW left, Ends(V, stop, F, start, P, left),
           NEW f, Follows(f, V, stop, F, start), NEW N \in Nat, Cardinality(P) <= N
    PROVE  f[1 + N] \in V /\ f[1 + N] \in stop
<1> DEFINE card(x) == Cardinality(left[x])
           OK(n) == f[n] \in V /\ (f[n] \in stop \/ n + card(f[n]) <= Cardinality(P))
           S == { n \in Nat : OK(n) }
<1>1. \A x \in V : left[x] \in SUBSET P /\ IsFiniteSet(left[x])
  BY FS_Subset DEF Ends
<1>2. /\ \A x \in V : card(x) \in Nat /\ card(x) <= Cardinality(P) /\ (left[x] # {} => card(x) # 0)
      /\ Cardinality(P) \in Nat
  <2>1. IsFiniteSet(P)
    BY DEF Ends
  <2>2. ASSUME NEW x \in V
        PROVE  card(x) \in Nat /\ card(x) <= Cardinality(P) /\ (left[x] # {} => card(x) # 0)
    <3>1. card(x) \in Nat
      BY <1>1, FS_CardinalityType
    <3>2. card(x) <= Cardinality(P)
      BY <1>1, <2>1, FS_Subset
    <3>3. left[x] # {} => card(x) # 0
      BY <1>1, FS_EmptySet
    <3> QED
      BY <3>1, <3>2, <3>3
  <2>3. Cardinality(P) \in Nat
    BY <2>1, FS_CardinalityType
  <2> QED
    BY <2>2, <2>3
<1>3. 0 \in S
  <2>1. f[0] \in V
    BY DEF Ends, Follows
  <2> QED
    BY <1>2, <2>1
<1>4. ASSUME NEW n \in Nat, n \in S PROVE n + 1 \in S
  <2> DEFINE x == f[n]
             y == f[n + 1]
  <2>1. x \in V /\ y = IF x \in stop THEN x ELSE F[x]
    BY <1>4 DEF Follows
  <2>2. CASE x \in stop
    BY <2>1, <2>2
  <2>3. CASE x \notin stop
    <3>1. y = F[x] /\ y \in V /\ n + card(x) <= Cardinality(P)
      BY <1>4, <2>1, <2>3 DEF Ends
    <3>2. CASE y \in stop
      BY <3>1, <3>2
    <3>3. CASE y \notin stop
      <4>1. left[y] \subseteq left[x] /\ left[y] # left[x]
        BY <2>1, <2>3, <3>1, <3>3 DEF Ends
      <4>2. card(y) <= card(x) /\ card(y) # card(x)
        BY <1>1, <2>1, <3>1, <4>1, FS_Subset
      <4>3. card(x) \in Nat /\ card(y) \in Nat
        BY <1>2, <2>1, <3>1
      <4> HIDE DEF card, x, y
      <4>4. n + 1 + card(y) <= Cardinality(P)
        BY <1>2, <3>1, <4>2, <4>3
      <4> QED
        BY <3>1, <4>4 DEF y
    <3> QED
      BY <3>2, <3>3
  <2> QED
    BY <2>2, <2>3
<1>5. 1 + N \in S
  <2> HIDE DEF S
  <2> QED
    BY <1>3, <1>4, StepInduction
<1> DEFINE z == f[1 + N]
<1>6. z \in V /\ (z \in stop \/ (1 + N) + card(z) <= Cardinality(P))
  BY <1>5
<1>7. card(z) \in Nat
  BY <1>2, <1>6
<1> HIDE DEF z, card
<1>8. z \in V /\ z \in stop
  BY <1>2, <1>6, <1>7
<1> QED
  BY <1>8 DEF z

-----------------------------------------------------------------------------
(* What the database's iterator shows *)

\* What a snapshot sees.
Visible(C, s) == { d \in Pool(C) : d.seq <= s }

\* Of a user key the newest is shown, if it is a value.
Shows(x, V) == x \in V /\ x.type = "value" /\ \A d \in V : d.key = x.key => d.seq <= x.seq

Typed(U) == \A e \in U : e.type \in {"value", "deletion"}

\* On the way to the first key after b that is shown: what is to come, and what is
\* skipped of it.
Coming(R, skip, V, b) ==
  /\ \A d \in V : b < d.key /\ skip < d.key => d \in R
  /\ \A d \in R : d \in V /\ skip <= d.key /\ (b < d.key \/ d.key = skip)
  /\ \A x \in V : Shows(x, V) /\ b < x.key => skip < x.key

Rest(V, p) == { d \in V : ~Before(d, p) }
Later(V, p) == { d \in V : Before(p, d) }

Skips(p, V, skip) == IF p \in V /\ p.type = "deletion" THEN p.key ELSE skip

\* A value that is not skipped is the one to show.
LEMMA ComingShown ==
    ASSUME NEW U, Entries(U), NEW V \in SUBSET U, NEW b \in Nat, NEW skip \in Nat,
           NEW p \in V, Coming(Rest(V, p), skip, V, b), p.type = "value", skip < p.key
    PROVE  Shows(p, V) /\ b < p.key /\ \A x \in V : Shows(x, V) /\ b < x.key => p.key <= x.key
<1>1. \A d \in V : d.key \in Nat /\ d.seq \in Nat /\ d \in U
  BY DEF Entries
<1>2. p \in Rest(V, p)
  BY BeforeOrder DEF Rest
<1>3. b < p.key
  BY <1>1, <1>2 DEF Coming
<1>4. \A d \in V : b < d.key /\ skip < d.key => ~Before(d, p)
  BY DEF Coming, Rest
<1>5. \A d \in V : d.key = p.key => d.seq <= p.seq
  BY <1>1, <1>3, <1>4 DEF Before
<1>6. ASSUME NEW x \in V, Shows(x, V), b < x.key PROVE p.key <= x.key
  <2>1. skip < x.key
    BY <1>6 DEF Coming
  <2>2. ~Before(x, p)
    BY <1>4, <1>6, <2>1
  <2> QED
    BY <1>1, <2>2 DEF Before
<1> QED
  BY <1>3, <1>5, <1>6 DEF Shows

\* When another is passed, the keys up to a deletion are skipped.
LEMMA ComingOn ==
    ASSUME NEW U, Entries(U), Typed(U), NEW V \in SUBSET U, NEW b \in Nat, NEW skip \in Nat,
           NEW p \in U, Coming(Rest(V, p), skip, V, b),
           ~(p \in V /\ p.type = "value" /\ skip < p.key)
    PROVE  Coming(Later(V, p), Skips(p, V, skip), V, b)
<1> DEFINE R == Rest(V, p)
           Q == Later(V, p)
<1>1. \A d \in V : d.key \in Nat /\ d.seq \in Nat /\ d \in U
  BY DEF Entries
<1>2. p.key \in Nat /\ p.seq \in Nat
  BY DEF Entries
<1>3. Q = R \ {p} /\ Q \subseteq R
  BY BeforeOrder DEF Rest, Later
<1>4. \A d \in R : d \in V /\ ~Before(d, p)
  BY DEF Rest
<1>5. p \in V => p \in R
  BY BeforeOrder DEF Rest
<1>6. /\ \A d \in V : b < d.key /\ skip < d.key => d \in R
      /\ \A d \in R : skip <= d.key /\ (b < d.key \/ d.key = skip)
      /\ \A x \in V : Shows(x, V) /\ b < x.key => skip < x.key
  BY DEF Coming
<1> HIDE DEF R, Q
<1>7. CASE p \notin V
  <2>1. p \notin R
    BY <1>4, <1>7
  <2>2. Q = R
    BY <1>3, <2>1
  <2>3. Coming(Q, skip, V, b)
    BY <2>2 DEF R
  <2> QED
    BY <1>7, <2>3 DEF Q, Skips
<1>8. CASE p \in V /\ p.type # "deletion"
  <2>1. p.type = "value" /\ p.key <= skip /\ p \in R
    BY <1>2, <1>5, <1>8 DEF Typed
  <2>2. p.key = skip
    BY <1>2, <1>6, <2>1
  <2>3. \A d \in V : b < d.key /\ skip < d.key => d \in Q
    BY <1>2, <1>3, <1>6, <2>2
  <2>4. Coming(Q, skip, V, b)
    BY <1>3, <1>4, <1>6, <2>3 DEF Coming
  <2> QED
    BY <1>8, <2>4 DEF Q, Skips
<1>9. CASE p \in V /\ p.type = "deletion"
  <2>1. p \in R /\ skip <= p.key /\ (b < p.key \/ p.key = skip)
    BY <1>5, <1>6, <1>9
  <2>2. \A d \in R : p.key <= d.key /\ (d.key = p.key => d.seq <= p.seq)
    BY <1>1, <1>2, <1>4 DEF Before
  <2>3. \A d \in V : b < d.key /\ p.key < d.key => d \in Q
    <3> SUFFICES ASSUME NEW d \in V, b < d.key, p.key < d.key PROVE d \in Q
      OBVIOUS
    <3>1. skip < d.key /\ d # p
      BY <1>1, <1>2, <2>1
    <3> QED
      BY <1>3, <1>6, <3>1
  <2>4. \A d \in Q : d \in V /\ p.key <= d.key /\ (b < d.key \/ d.key = p.key)
    <3> SUFFICES ASSUME NEW d \in Q PROVE d \in V /\ p.key <= d.key /\ (b < d.key \/ d.key = p.key)
      OBVIOUS
    <3>1. d \in R /\ d \in V /\ p.key <= d.key /\ d.key \in Nat
      BY <1>1, <1>3, <1>4, <2>2
    <3>2. b < d.key \/ d.key = skip
      BY <1>6, <3>1
    <3> QED
      BY <1>2, <2>1, <3>1, <3>2
  <2>5. ASSUME NEW x \in V, Shows(x, V), b < x.key PROVE p.key < x.key
    <3>1. skip < x.key /\ x \in R
      BY <1>6, <2>5
    <3>2. x.key = p.key => p.seq <= x.seq
      BY <1>9, <2>5 DEF Shows
    <3>3. p.key <= x.key /\ (x.key = p.key => x.seq <= p.seq)
      BY <2>2, <3>1
    <3>4. x.key \in Nat /\ x.seq \in Nat /\ x \in U
      BY <1>1, <2>5
    <3>5. x.key # p.key
      <4> SUFFICES ASSUME x.key = p.key PROVE FALSE
        OBVIOUS
      <4>1. x.seq = p.seq
        BY <1>2, <3>2, <3>3, <3>4
      <4>2. x = p
        BY <3>4, <4>1 DEF Entries
      <4> QED
        BY <1>9, <2>5, <4>2 DEF Shows
    <3> QED
      BY <1>2, <3>3, <3>4, <3>5
  <2>6. Coming(Q, p.key, V, b)
    BY <2>3, <2>4, <2>5 DEF Coming
  <2> QED
    BY <1>9, <2>6 DEF Q, Skips
<1> QED
  BY <1>7, <1>8, <1>9

World(C, U) == Entries(U) /\ Typed(U) /\ Nothing \notin U /\ Separate(C, U)

DBIters(C, U) ==
  [in : Mergers(C, U), seq : Nat, back : BOOLEAN, valid : BOOLEAN, saved : U \cup {Nothing}]

\* Forward: it is on the entry to show of the first key after b that has one, or there is none.
ShowsNext(it, V, b) ==
  /\ ~it.back
  /\ IF it.valid
     THEN /\ Valid(it.in) /\ Stands(it.in, V) /\ Shows(Key(it.in), V) /\ b < Key(it.in).key
          /\ \A x \in V : Shows(x, V) /\ b < x.key => Key(it.in).key <= x.key
     ELSE \A x \in V : Shows(x, V) => ~(b < x.key)

NextStates(C, U, V, s, b) ==
  { x \in [it : DBIters(C, U), skip : Nat, done : BOOLEAN] :
      /\ x.it.seq = s /\ ~x.it.back
      /\ IF x.done THEN ShowsNext(x.it, V, b)
         ELSE /\ Valid(x.it.in) /\ Stands(x.it.in, V)
              /\ Coming(Rest(V, Key(x.it.in)), x.skip, V, b) }

\* A turn of the loop in FindNextUserEntry.
NextTurn(x, s) ==
  LET e == Key(x.it.in)
      in == MergeNext(x.it.in)
      seen == e.seq <= s
  IN  IF seen /\ e.type = "value" /\ e.key > x.skip
      THEN [x EXCEPT !.it.valid = TRUE, !.done = TRUE]
      ELSE [it |-> [x.it EXCEPT !.in = in, !.valid = FALSE],
            skip |-> IF seen /\ e.type = "deletion" THEN e.key ELSE x.skip,
            done |-> ~Valid(in)]

LEMMA NextTurnIs ==
    ASSUME NEW U, NEW C, World(C, U), NEW s \in Nat, NEW b \in Nat,
           NEW x \in NextStates(C, U, Visible(C, s), s, b), ~x.done
    PROVE  LET y == NextTurn(x, s)
           IN  /\ y \in NextStates(C, U, Visible(C, s), s, b)
               /\ y.done \/ Before(Key(x.it.in), Key(y.it.in))
<1> DEFINE V == Visible(C, s)
           m == x.it.in
           p == Key(m)
           n == MergeNext(m)
           skip == Skips(p, V, x.skip)
           y == NextTurn(x, s)
<1>1. /\ Entries(U) /\ Typed(U) /\ Nothing \notin U /\ Separate(C, U)
      /\ V \in SUBSET Pool(C) /\ Pool(C) \subseteq U /\ V \in SUBSET U
  BY DEF World, Visible, Separate, Pool
<1>0. /\ x.it \in DBIters(C, U) /\ x.it.seq = s /\ ~x.it.back
      /\ x \in [it : DBIters(C, U), skip : Nat, done : BOOLEAN]
  BY DEF NextStates
<1>2. /\ x.skip \in Nat
      /\ m \in Mergers(C, U) /\ x.it.saved \in U \cup {Nothing}
      /\ Valid(m) /\ Stands(m, V) /\ Coming(Rest(V, p), x.skip, V, b)
  BY DEF NextStates, DBIters
<1> HIDE DEF V
<1>3. /\ p \in U /\ p \in Pool(C)
      /\ Arrives(n, C, U, V, Past(U, FALSE, p), FALSE)
  BY <1>1, <1>2, StepIs
<1>4. /\ p.key \in Nat /\ p.seq \in Nat /\ p.type \in {"value", "deletion"}
      /\ (p \in V <=> p.seq <= s)
  BY <1>1, <1>3 DEF Entries, Typed, V, Visible
<1> HIDE DEF m, p, n
<1>5. CASE p \in V /\ p.type = "value" /\ x.skip < p.key
  <2> DEFINE it == [x.it EXCEPT !.valid = TRUE]
  <2>1. y = [x EXCEPT !.it.valid = TRUE, !.done = TRUE]
    BY <1>2, <1>4, <1>5 DEF NextTurn, p, m
  <2>2. y.it = it /\ y \in [it : DBIters(C, U), skip : Nat, done : BOOLEAN] /\ y.done
    BY ZenonT(30), <1>0, <2>1 DEF DBIters
  <2>3. it.in = m /\ it.valid /\ it.seq = s /\ ~it.back
    BY <1>0 DEF DBIters, m
  <2>4. Shows(p, V) /\ b < p.key /\ \A z \in V : Shows(z, V) /\ b < z.key => p.key <= z.key
    BY <1>1, <1>2, <1>5, ComingShown
  <2> HIDE DEF it, y
  <2>5. ShowsNext(it, V, b)
    BY <1>2, <2>3, <2>4 DEF ShowsNext, p
  <2>7. y \in NextStates(C, U, V, s, b) /\ y.done
    BY <2>2, <2>3, <2>5 DEF NextStates
  <2> QED
    BY <2>7 DEF y, V
<1>6. CASE ~(p \in V /\ p.type = "value" /\ x.skip < p.key)
  <2> DEFINE it == [x.it EXCEPT !.in = n, !.valid = FALSE]
             R == Later(V, p)
  <2>0. skip \in Nat
    BY <1>2, <1>4 DEF Skips
  <2>2. y = [it |-> it, skip |-> skip, done |-> ~Valid(n)]
    BY <1>2, <1>4, <1>6 DEF NextTurn, p, m, n, Skips
  <2>3. it \in DBIters(C, U) /\ it.in = n /\ it.seq = s /\ ~it.back /\ ~it.valid
    BY <1>0, <1>3 DEF DBIters, Arrives
  <2>4. Coming(R, skip, V, b)
    BY <1>1, <1>2, <1>3, <1>6, ComingOn
  <2>5. V \cap Past(U, FALSE, p) = R
    BY <1>1 DEF Past, Toward, Later
  <2> HIDE DEF R, skip
  <2>6. ASSUME Valid(n) PROVE Rest(V, Key(n)) = R /\ Before(p, Key(n))
    <3>1. /\ Key(n) \in U /\ Before(p, Key(n)) /\ \A d \in R : ~Before(d, Key(n))
      BY <1>3, <2>5, <2>6 DEF Arrives, Past, Toward
    <3>2. \A d \in V : ~Before(d, Key(n)) => Before(p, d)
      BY <1>1, <1>3, <3>1, BeforeOrder
    <3> QED
      BY <3>1, <3>2 DEF Rest, R, Later
  <2>7. ASSUME ~Valid(n) PROVE ShowsNext(it, V, b)
    <3>1. R = {}
      BY <1>3, <2>5, <2>7 DEF Arrives
    <3>2. ASSUME NEW z \in V, Shows(z, V), b < z.key PROVE FALSE
      BY <2>4, <3>1, <3>2 DEF Coming
    <3> QED
      BY <2>3, <3>2 DEF ShowsNext
  <2>9. n \in Mergers(C, U) /\ Stands(n, V)
    BY <1>3 DEF Arrives
  <2> HIDE DEF it, y
  <2>10. y \in NextStates(C, U, V, s, b)
    <3>1. CASE Valid(n)
      BY <2>0, <2>2, <2>3, <2>4, <2>6, <2>9, <3>1 DEF NextStates
    <3>2. CASE ~Valid(n)
      BY <2>0, <2>2, <2>3, <2>7, <3>2 DEF NextStates
    <3> QED
      BY <3>1, <3>2
  <2>11. y.done \/ Before(p, Key(y.it.in))
    <3>1. y.it = it /\ (y.done <=> ~Valid(n))
      BY <2>2
    <3> QED
      BY <2>3, <2>6, <3>1
  <2> QED
    BY <2>10, <2>11 DEF y, V, p, m
<1> QED
  BY <1>5, <1>6

\* What FindNextUserEntry finds.
LEMMA FindNextIs ==
    ASSUME NEW U, NEW C, World(C, U), NEW s \in Nat, NEW b \in Nat, NEW skip \in Nat,
           NEW it \in DBIters(C, U), it.seq = s, ~it.back,
           Valid(it.in), Stands(it.in, Visible(C, s)),
           Coming(Rest(Visible(C, s), Key(it.in)), skip, Visible(C, s), b)
    PROVE  LET t == FindNextUserEntry(it, skip)
           IN  t \in DBIters(C, U) /\ t.seq = s /\ ShowsNext(t, Visible(C, s), b)
<1> DEFINE X == NextStates(C, U, Visible(C, s), s, b)
           start == [it |-> it, skip |-> skip, done |-> FALSE]
           stop == { x \in X : x.done }
           F == [x \in X |-> IF x.done THEN x ELSE NextTurn(x, s)]
           left == [x \in X |-> IF x.done THEN {} ELSE { d \in Pool(C) : ~Before(d, Key(x.it.in)) }]
           N == Turns(C)
           Eq(f) == f = [n \in Nat |-> IF n = 0 THEN start
                                       ELSE IF f[n - 1].done THEN f[n - 1] ELSE NextTurn(f[n - 1], s)]
<1>1. N \in Nat /\ IsFiniteSet(Pool(C)) /\ Cardinality(Pool(C)) <= N
  BY TurnsIs DEF World
<1>2. start \in X
  BY DEF NextStates
<1>3. ASSUME NEW x \in X, ~x.done
      PROVE  /\ NextTurn(x, s) \in X
             /\ NextTurn(x, s).done \/ Before(Key(x.it.in), Key(NextTurn(x, s).it.in))
             /\ Key(x.it.in) \in U /\ Key(x.it.in) \in Pool(C)
  <2>1. x.it.in \in Mergers(C, U) /\ Valid(x.it.in) /\ Stands(x.it.in, Visible(C, s))
    BY <1>3 DEF NextStates, DBIters
  <2>2. Visible(C, s) \in SUBSET Pool(C)
    BY DEF Visible
  <2>3. Key(x.it.in) \in U /\ Key(x.it.in) \in Pool(C)
    BY <2>1, <2>2, StepIs DEF World
  <2> QED
    BY <1>3, <2>3, NextTurnIs
<1> HIDE DEF X
<1>4. F \in [X -> X]
  BY <1>3
<1>5. ASSUME NEW x \in X, x \notin stop
      PROVE  left[x] # {} /\ (F[x] \in stop \/ (left[F[x]] \subseteq left[x] /\ left[F[x]] # left[x]))
  <2> DEFINE y == NextTurn(x, s)
             p == Key(x.it.in)
             q == Key(y.it.in)
  <2>1. ~x.done /\ F[x] = y /\ left[x] = { d \in Pool(C) : ~Before(d, p) } /\ p \in U /\ p \in Pool(C) /\ y \in X
    BY <1>3, <1>5
  <2>2. Entries(U) /\ Pool(C) \in SUBSET U
    BY DEF World, Separate, Pool
  <2>3. p \in left[x]
    BY <2>1, <2>2, BeforeOrder
  <2>4. CASE y.done
    BY <2>1, <2>3, <2>4
  <2>5. CASE ~y.done
    <3>1. Before(p, q) /\ q \in U
      BY <1>3, <2>1, <2>5
    <3>2. left[y] = { d \in Pool(C) : ~Before(d, q) }
      BY <2>1, <2>5
    <3> HIDE DEF left, y, p, q, F
    <3>3. left[y] \subseteq left[x] /\ p \notin left[y]
      BY <2>1, <2>2, <3>1, <3>2, BeforeOrder
    <3> QED
      BY <2>1, <2>3, <3>3
  <2> QED
    BY <2>4, <2>5
<1>6. left \in [X -> SUBSET Pool(C)]
  OBVIOUS
<1>7. \A x \in X : x \in stop <=> x.done
  OBVIOUS
<1>8. \A x \in X : ~x.done => F[x] = NextTurn(x, s)
  OBVIOUS
<1> HIDE DEF start, stop, F, left, N
<1>9. Ends(X, stop, F, start, Pool(C), left)
  BY <1>1, <1>2, <1>4, <1>5, <1>6 DEF Ends
<1>10. PICK g \in [Nat -> X] : Follows(g, X, stop, F, start)
  BY <1>2, <1>4, LoopHas
<1>11. Eq(g)
  <2>1. ASSUME NEW n \in Nat
        PROVE  g[n] = IF n = 0 THEN start ELSE IF g[n - 1].done THEN g[n - 1] ELSE NextTurn(g[n - 1], s)
    <3>1. CASE n = 0
      BY <1>10, <3>1 DEF Follows
    <3>2. CASE n # 0
      <4>1. n - 1 \in Nat /\ (n - 1) + 1 = n
        BY <3>2
      <4>2. g[n - 1] \in X /\ g[n] = IF g[n - 1] \in stop THEN g[n - 1] ELSE F[g[n - 1]]
        BY <1>10, <4>1 DEF Follows
      <4> QED
        BY <1>7, <1>8, <3>2, <4>2
    <3> QED
      BY <3>1, <3>2
  <2> QED
    BY <2>1
<1> DEFINE f == CHOOSE h : Eq(h)
<1>12. Eq(f)
  BY <1>11
<1>13. FindNextUserEntry(it, skip) = f[1 + N].it
  <2>1. it.in.children = C
    BY DEF DBIters, Mergers, Positions
  <2> QED
    BY <2>1 DEF FindNextUserEntry, Loop, NextTurn, N, Turns, start
<1> HIDE DEF f
<1>14. Follows(f, X, stop, F, start)
  <2>1. f[0] = start
    BY <1>12
  <2>2. ASSUME NEW n \in Nat, f[n] \in X
        PROVE  f[n + 1] = IF f[n] \in stop THEN f[n] ELSE F[f[n]]
    <3>1. n + 1 \in Nat /\ n + 1 # 0 /\ (n + 1) - 1 = n
      OBVIOUS
    <3>2. f[n + 1] = IF f[n].done THEN f[n] ELSE NextTurn(f[n], s)
      BY <1>12, <3>1
    <3> QED
      BY <1>7, <1>8, <2>2, <3>2
  <2> QED
    BY <2>1, <2>2 DEF Follows
<1>15. f[1 + N] \in X /\ f[1 + N] \in stop
  BY <1>1, <1>9, <1>14, LoopEnds
<1> DEFINE z == f[1 + N]
<1>16. z \in X /\ z.done
  BY <1>7, <1>15
<1> HIDE DEF z
<1>17. z.it \in DBIters(C, U) /\ z.it.seq = s /\ ShowsNext(z.it, Visible(C, s), b)
  BY <1>16 DEF X, NextStates
<1> QED
  BY <1>13, <1>17 DEF z

LEMMA ForwardIs ==
    ASSUME NEW U, NEW C, World(C, U), NEW s \in Nat, NEW b \in Nat, NEW skip \in Nat,
           NEW it \in DBIters(C, U), it.seq = s,
           NEW n \in Mergers(C, U), Stands(n, Visible(C, s)),
           Valid(n) => Coming(Rest(Visible(C, s), Key(n)), skip, Visible(C, s), b),
           ~Valid(n) => \A x \in Visible(C, s) : Shows(x, Visible(C, s)) => ~(b < x.key)
    PROVE  LET t == Forward(it, n, skip)
           IN  t \in DBIters(C, U) /\ t.seq = s /\ ShowsNext(t, Visible(C, s), b)
<1> DEFINE to == [it EXCEPT !.in = n, !.back = FALSE, !.saved = Nothing]
           over == [to EXCEPT !.valid = FALSE]
<1>1. to \in DBIters(C, U) /\ to.in = n /\ to.seq = s /\ ~to.back
  BY DEF DBIters
<1>2. Forward(it, n, skip) = IF Valid(n) THEN FindNextUserEntry(to, skip) ELSE over
  BY DEF Forward
<1> HIDE DEF to
<1>3. CASE Valid(n)
  <2>1. LET t == FindNextUserEntry(to, skip)
        IN  t \in DBIters(C, U) /\ t.seq = s /\ ShowsNext(t, Visible(C, s), b)
    BY <1>1, <1>3, FindNextIs
  <2> QED
    BY <1>2, <1>3, <2>1
<1>4. CASE ~Valid(n)
  <2>1. over \in DBIters(C, U) /\ over.seq = s /\ ~over.back /\ ~over.valid
    BY <1>1 DEF DBIters
  <2> HIDE DEF over
  <2>2. ShowsNext(over, Visible(C, s), b)
    BY <1>4, <2>1 DEF ShowsNext
  <2> QED
    BY <1>2, <1>4, <2>1, <2>2
<1> QED
  BY <1>3, <1>4

\* A merge just before the entries of the keys from b.
Just(m, V, b) ==
  IF Valid(m) THEN \A d \in V : d.key < b <=> ~Before(Key(m), d) ELSE \A d \in V : ~(d.key < b)

\* Where the iterator may be: going forward on what it shows, backward just before the key.
On(it, V) ==
  it.valid => /\ Stands(it.in, V) /\ Shows(Shown(it), V)
              /\ IF it.back THEN it.saved # Nothing /\ Just(it.in, V, it.saved.key) ELSE Valid(it.in)

NextFrom(it, V, b) ==
  /\ On(it, V)
  /\ IF it.valid THEN b < Shown(it).key /\ \A x \in V : Shows(x, V) /\ b < x.key => Shown(it).key <= x.key
     ELSE \A x \in V : Shows(x, V) => ~(b < x.key)

PrevFrom(it, V, b) ==
  /\ On(it, V)
  /\ IF it.valid THEN Shown(it).key < b /\ \A x \in V : Shows(x, V) /\ x.key < b => x.key <= Shown(it).key
     ELSE \A x \in V : Shows(x, V) => ~(x.key < b)

\* IterSeekToFirst, IterSeek and IterNext.
LEMMA ForwardMoves ==
    ASSUME NEW U, NEW C, World(C, U), NEW s \in Nat, NEW it \in DBIters(C, U), it.seq = s,
           On(it, Visible(C, s)), \A d \in U : 0 < d.key
    PROVE  LET V == Visible(C, s)
               Does(t, b) == t \in DBIters(C, U) /\ t.seq = s /\ NextFrom(t, V, b)
           IN  /\ Does(IterSeekToFirst(it), 0)
               /\ \A k \in Nat \ {0} : Does(IterSeek(it, k), k - 1)
               /\ it.valid => Does(IterNext(it), Shown(it).key)
<1> DEFINE V == Visible(C, s)
           Does(t, b) == t \in DBIters(C, U) /\ t.seq = s /\ NextFrom(t, V, b)
           m == it.in
<1>1. /\ Entries(U) /\ Typed(U) /\ Nothing \notin U /\ Separate(C, U)
      /\ V \in SUBSET Pool(C) /\ Pool(C) \subseteq U /\ V \in SUBSET U
      /\ \A d \in V : d.seq <= s
  BY DEF World, Visible, Separate, Pool
<1>2. m \in Mergers(C, U)
  BY DEF DBIters
<1>3. \A d \in V : d.key \in Nat /\ d.seq \in Nat /\ 0 < d.key
  BY <1>1 DEF Entries
<1> HIDE DEF V, m
<1>4. \A t, b : ShowsNext(t, V, b) => NextFrom(t, V, b)
  BY DEF ShowsNext, NextFrom, On, Shown
<1>5. ASSUME NEW n, NEW b \in Nat, NEW skip \in Nat, NEW W, Arrives(n, C, U, V, W, FALSE), Onward(W, U, FALSE),
             Coming(V \cap W, skip, V, b)
      PROVE  Does(Forward(it, n, skip), b)
  <2>1. n \in Mergers(C, U) /\ Stands(n, V)
    BY <1>5 DEF Arrives
  <2>2. ASSUME Valid(n) PROVE Coming(Rest(V, Key(n)), skip, V, b)
    <3>1. Key(n) \in W /\ \A d \in V \cap W : ~Before(d, Key(n))
      BY <1>5, <2>2 DEF Arrives, Toward
    <3>2. \A d \in V : ~Before(d, Key(n)) => d \in W
      BY <1>1, <1>5, <3>1 DEF Onward, Toward
    <3>3. Rest(V, Key(n)) = V \cap W
      BY <3>1, <3>2 DEF Rest
    <3> QED
      BY <1>5, <3>3
  <2>3. ASSUME ~Valid(n), NEW x \in V, Shows(x, V) PROVE ~(b < x.key)
    <3>1. V \cap W = {}
      BY <1>5, <2>3 DEF Arrives
    <3> QED
      BY <1>5, <2>3, <3>1 DEF Coming
  <2>4. LET t == Forward(it, n, skip) IN t \in DBIters(C, U) /\ t.seq = s /\ ShowsNext(t, V, b)
    BY <2>1, <2>2, <2>3, ForwardIs DEF V
  <2> QED
    BY <1>4, <2>4
<1>6. Does(IterSeekToFirst(it), 0)
  <2>1. Arrives(MergeToFirst(m), C, U, V, U, FALSE)
    BY <1>1, <1>2, SoughtIs
  <2>2. Onward(U, U, FALSE)
    BY <1>1, OnwardIs
  <2>3. Coming(V \cap U, 0, V, 0)
    BY <1>1, <1>3 DEF Coming
  <2>4. Does(Forward(it, MergeToFirst(m), 0), 0)
    BY <1>5, <2>1, <2>2, <2>3
  <2> QED
    BY <2>4 DEF IterSeekToFirst, m
<1>7. ASSUME NEW k \in Nat \ {0} PROVE Does(IterSeek(it, k), k - 1)
  <2> DEFINE e == [key |-> k, seq |-> s]
             W == From(U, FALSE, e)
  <2>1. e.key = k /\ e.seq = s
    OBVIOUS
  <2> HIDE DEF e
  <2>2. Arrives(MergeSeek(m, e), C, U, V, W, FALSE)
    BY <1>1, <1>2, <2>1, SoughtIs
  <2>3. Onward(W, U, FALSE)
    BY <1>1, <2>1, OnwardIs
  <2>4. \A d \in V : d \in W <=> k <= d.key
    BY <1>1, <1>3, <2>1 DEF From, Toward, Before
  <2> HIDE DEF W
  <2>5. Coming(V \cap W, 0, V, k - 1)
    BY <1>3, <2>4 DEF Coming
  <2>6. Does(Forward(it, MergeSeek(m, e), 0), k - 1)
    <3>1. k - 1 \in Nat
      OBVIOUS
    <3> QED
      BY <1>5, <2>2, <2>3, <2>5, <3>1
  <2> QED
    BY <2>6 DEF IterSeek, m, e
<1>8. ASSUME it.valid PROVE Does(IterNext(it), Shown(it).key)
  <2> DEFINE k == Shown(it).key
  <2>1. Stands(m, V) /\ Shown(it) \in V /\ k \in Nat
    BY <1>3, <1>8 DEF On, Shows, V, m
  <2>2. CASE ~it.back
    <3>1. Valid(m) /\ Shown(it) = Key(m)
      BY <1>8, <2>2 DEF On, Shown, m
    <3>2. Key(m) \in V /\ k = Key(m).key
      BY <2>1, <3>1
    <3> HIDE DEF k
    <3>3. Coming(Rest(V, Key(m)), k, V, k)
      BY <1>3, <3>2 DEF Coming, Rest, Before
    <3>4. LET t == Forward(it, m, k) IN t \in DBIters(C, U) /\ t.seq = s /\ ShowsNext(t, V, k)
      BY <1>2, <2>1, <3>1, <3>3, ForwardIs DEF V
    <3> QED
      BY <1>4, <2>2, <3>2, <3>4 DEF IterNext, k, m
  <2>3. CASE it.back
    <3>1. it.saved.key = k /\ Just(m, V, k)
      BY <1>8, <2>3 DEF On, Shown, V, m
    <3> HIDE DEF k
    <3>2. CASE Valid(m)
      <4> DEFINE W == Past(U, FALSE, Key(m))
      <4>1. Key(m) \in U /\ Arrives(MergeNext(m), C, U, V, W, FALSE)
        BY <1>1, <1>2, <2>1, <3>2, StepIs
      <4>2. Onward(W, U, FALSE)
        BY <1>1, <4>1, OnwardIs
      <4>3. \A d \in V : d \in W <=> k <= d.key
        BY <1>1, <1>3, <2>1, <3>1, <3>2 DEF Past, Toward, Just
      <4> HIDE DEF W
      <4>4. Coming(V \cap W, k, V, k)
        BY <1>3, <2>1, <4>3 DEF Coming
      <4>5. Does(Forward(it, MergeNext(m), k), k)
        BY <1>5, <2>1, <4>1, <4>2, <4>4
      <4> QED
        BY <2>3, <3>1, <3>2, <4>5 DEF IterNext, m, k
    <3>3. CASE ~Valid(m)
      <4>1. Arrives(MergeToFirst(m), C, U, V, U, FALSE)
        BY <1>1, <1>2, SoughtIs
      <4>2. Onward(U, U, FALSE)
        BY <1>1, OnwardIs
      <4>3. \A d \in V : k <= d.key
        BY <1>3, <2>1, <3>1, <3>3 DEF Just
      <4>4. Coming(V \cap U, k, V, k)
        BY <1>1, <1>3, <2>1, <4>3 DEF Coming
      <4>5. Does(Forward(it, MergeToFirst(m), k), k)
        BY <1>5, <2>1, <4>1, <4>2, <4>4
      <4> QED
        BY <2>3, <3>1, <3>3, <4>5 DEF IterNext, m, k
    <3> QED
      BY <3>2, <3>3
  <2> QED
    BY <2>2, <2>3
<1> QED
  BY <1>6, <1>7, <1>8 DEF V

-----------------------------------------------------------------------------
(* Backward *)

\* Entries of V that are still to come on the way back.
UpTo(V, p) == { d \in V : ~Before(p, d) }
ToCome(m, V) == IF Valid(m) THEN UpTo(V, Key(m)) ELSE {}

\* Of the entries below b that were passed the last is saved, if it is a value; an
\* entry to show was the last.
Passing(L, saved, V, b) ==
  /\ \A d \in L : d.key < b
  /\ saved # Nothing => /\ saved \in V \ L /\ saved.key < b /\ saved.type = "value"
                        /\ \A d \in V \ L : d.key < b => ~Before(d, saved)
  /\ \A x \in V \ L : Shows(x, V) /\ x.key < b => saved = x

Saves(p, V, saved) == IF p \notin V THEN saved ELSE IF p.type = "deletion" THEN Nothing ELSE p

\* One more is passed.
LEMMA PassingOn ==
    ASSUME NEW U, Entries(U), Typed(U), Nothing \notin U, NEW V \in SUBSET U, NEW b \in Nat,
           NEW p \in U, NEW saved, Passing(UpTo(V, p), saved, V, b),
           ~(p \in V /\ saved # Nothing /\ p.key < saved.key)
    PROVE  Passing({ d \in V : Before(d, p) }, Saves(p, V, saved), V, b)
<1> DEFINE L == UpTo(V, p)
           Q == { d \in V : Before(d, p) }
           to == Saves(p, V, saved)
<1>1. \A d \in V : d.key \in Nat /\ d.seq \in Nat /\ d \in U
  BY DEF Entries
<1>2. p.key \in Nat /\ p.seq \in Nat
  BY DEF Entries
<1>3. Q \subseteq L /\ (p \in V => p \in L /\ p \notin Q) /\ \A d \in L : d = p \/ d \in Q
  BY BeforeOrder DEF UpTo
<1>4. \A d \in V \ L : Before(p, d)
  BY DEF UpTo
<1>5. /\ \A d \in L : d.key < b
      /\ saved # Nothing => /\ saved \in V \ L /\ saved.key < b /\ saved.type = "value"
                            /\ \A d \in V \ L : d.key < b => ~Before(d, saved)
      /\ \A x \in V \ L : Shows(x, V) /\ x.key < b => saved = x
  BY DEF Passing
<1> HIDE DEF L, Q
<1>6. CASE p \notin V
  <2>1. Q = L
    <3>1. \A d \in L : d \in V
      BY DEF L, UpTo
    <3> QED
      BY <1>3, <1>6, <3>1
  <2>2. to = saved
    BY <1>6 DEF Saves
  <2> QED
    BY <2>1, <2>2 DEF L, Q
<1>7. CASE p \in V
  <2>1. p \in L /\ p.key < b /\ \A d \in V \ Q : d = p \/ d \in V \ L
    BY <1>3, <1>5, <1>7
  <2>2. to = IF p.type = "deletion" THEN Nothing ELSE p
    BY <1>7 DEF Saves
  <2>3. ASSUME to # Nothing
        PROVE  /\ to \in V \ Q /\ to.key < b /\ to.type = "value"
               /\ \A d \in V \ Q : d.key < b => ~Before(d, to)
    <3>1. to = p /\ p.type = "value"
      BY <1>7, <2>2, <2>3 DEF Typed
    <3>2. \A d \in V \ Q : ~Before(d, p)
      BY <1>1, <1>4, <2>1, BeforeOrder
    <3> QED
      BY <1>3, <1>7, <2>1, <3>1, <3>2
  <2>4. ASSUME NEW x \in V \ Q, Shows(x, V), x.key < b PROVE to = x
    <3>1. CASE x = p
      <4>1. p.type = "value"
        BY <2>4, <3>1 DEF Shows
      <4> QED
        BY <2>2, <3>1, <4>1
    <3>2. CASE x # p
      <4>1. x \in V \ L /\ saved = x /\ x \in U
        BY <1>1, <1>5, <2>1, <2>4, <3>2
      <4>2. Before(p, x) /\ ~(p.key < x.key)
        BY <1>4, <1>7, <4>1
      <4>3. p.key = x.key /\ p.seq > x.seq
        BY <1>1, <1>2, <4>1, <4>2 DEF Before
      <4>4. p.seq <= x.seq
        BY <1>7, <2>4, <4>3 DEF Shows
      <4> QED
        BY <1>1, <1>2, <4>1, <4>3, <4>4
    <3> QED
      BY <3>1, <3>2
  <2>5. \A d \in Q : d.key < b
    BY <1>3, <1>5
  <2> HIDE DEF to
  <2>6. Passing(Q, to, V, b)
    BY <2>3, <2>4, <2>5 DEF Passing
  <2> QED
    BY <2>6 DEF Q, to
<1> QED
  BY <1>6, <1>7

\* When what is to come is of smaller keys, what is saved is the one to show.
LEMMA PassingDone ==
    ASSUME NEW U, Entries(U), NEW V \in SUBSET U, NEW L \in SUBSET V, NEW b \in Nat,
           NEW saved, Passing(L, saved, V, b), saved # Nothing, \A d \in L : d.key < saved.key
    PROVE  /\ saved \in V /\ saved.key < b /\ Shows(saved, V)
           /\ \A x \in V : Shows(x, V) /\ x.key < b => x.key <= saved.key
           /\ \A d \in V : d.key < saved.key <=> d \in L
<1>1. \A d \in V : d.key \in Nat /\ d.seq \in Nat
  BY DEF Entries
<1>2. /\ saved \in V \ L /\ saved.key < b /\ saved.type = "value"
      /\ \A d \in V \ L : d.key < b => ~Before(d, saved)
      /\ \A x \in V \ L : Shows(x, V) /\ x.key < b => saved = x
  BY DEF Passing
<1>3. saved.key \in Nat /\ saved.seq \in Nat
  BY <1>1, <1>2
<1>4. ASSUME NEW d \in V, d.key = saved.key PROVE d.seq <= saved.seq
  <2>1. d \in V \ L /\ d.key < b
    BY <1>2, <1>3, <1>4
  <2> QED
    BY <1>1, <1>2, <1>3, <1>4, <2>1 DEF Before
<1>5. ASSUME NEW d \in V, d.key < saved.key PROVE d \in L
  <2>1. d.key < b /\ Before(d, saved)
    BY <1>1, <1>2, <1>3, <1>5 DEF Before
  <2> QED
    BY <1>2, <2>1
<1>6. ASSUME NEW x \in V, Shows(x, V), x.key < b PROVE x.key <= saved.key
  <2>1. CASE x \in L
    BY <1>1, <1>3, <2>1
  <2>2. CASE x \notin L
    BY <1>2, <1>3, <1>6, <2>2
  <2> QED
    BY <2>1, <2>2
<1>7. Shows(saved, V)
  BY <1>2, <1>4 DEF Shows
<1> QED
  BY <1>2, <1>5, <1>6, <1>7

\* What a step back leaves to come.
LEMMA StepBack ==
    ASSUME NEW U, NEW C, World(C, U), NEW V \in SUBSET Pool(C),
           NEW m \in Mergers(C, U), Stands(m, V), Valid(m)
    PROVE  LET n == MergePrev(m)
           IN  /\ Key(m) \in U /\ Key(m) \in Pool(C)
               /\ n \in Mergers(C, U) /\ Stands(n, V)
               /\ Valid(n) => Key(n) \in U /\ Before(Key(n), Key(m))
               /\ ToCome(n, V) = { d \in V : Before(d, Key(m)) }
<1> DEFINE p == Key(m)
           n == MergePrev(m)
           W == Past(U, TRUE, p)
<1>1. Entries(U) /\ Nothing \notin U /\ Separate(C, U) /\ V \in SUBSET U
  BY DEF World, Separate, Pool
<1>2. p \in U /\ p \in Pool(C) /\ Arrives(n, C, U, V, W, TRUE)
  BY <1>1, StepIs
<1>3. \A d \in U : d \in W <=> Before(d, p)
  BY DEF Past, Toward
<1>4. W \in SUBSET U
  BY DEF Past
<1> HIDE DEF W, p, n
<1>5. n \in Mergers(C, U) /\ Stands(n, V)
  BY <1>2 DEF Arrives
<1>6. ASSUME Valid(n) PROVE Key(n) \in W /\ \A d \in V \cap W : ~Before(Key(n), d)
  BY <1>2, <1>6 DEF Arrives, Toward
<1>7. ASSUME ~Valid(n) PROVE V \cap W = {}
  BY <1>2, <1>7 DEF Arrives
<1>8. Valid(n) => Key(n) \in U /\ Before(Key(n), p)
  BY <1>3, <1>4, <1>6
<1>9. ToCome(n, V) = { d \in V : Before(d, p) }
  <2>1. CASE Valid(n)
    <3>1. ASSUME NEW d \in V PROVE ~Before(Key(n), d) <=> Before(d, p)
      <4>1. Key(n) \in U /\ d \in U /\ Before(Key(n), p) /\ (Before(d, p) => ~Before(Key(n), d))
        BY <1>1, <1>3, <1>6, <1>8, <2>1
      <4> QED
        BY <1>1, <1>2, <4>1, BeforeOrder
    <3> QED
      BY <2>1, <3>1 DEF ToCome, UpTo
  <2>2. CASE ~Valid(n)
    BY <1>1, <1>3, <1>7, <2>2 DEF ToCome
  <2> QED
    BY <2>1, <2>2
<1> QED
  BY <1>2, <1>5, <1>8, <1>9 DEF p, n

PrevStates(C, U, V, s, b) ==
  { x \in DBIters(C, U) : x.seq = s /\ x.back /\ Stands(x.in, V) /\ Passing(ToCome(x.in, V), x.saved, V, b) }

\* The loop of FindPrevUserEntry: when it is done, and a turn of it.
PrevDone(x) ==
  ~Valid(x.in) \/ (Key(x.in).seq <= x.seq /\ x.saved # Nothing /\ Key(x.in).key < x.saved.key)

PrevTurn(x) ==
  [x EXCEPT !.in = MergePrev(@),
     !.saved = IF ~(Key(x.in).seq <= x.seq) THEN @ ELSE IF Key(x.in).type = "deletion" THEN Nothing ELSE Key(x.in)]

LEMMA PrevTurnIs ==
    ASSUME NEW U, NEW C, World(C, U), NEW s \in Nat, NEW b \in Nat,
           NEW x \in PrevStates(C, U, Visible(C, s), s, b), ~PrevDone(x)
    PROVE  LET y == PrevTurn(x)
           IN  /\ y \in PrevStates(C, U, Visible(C, s), s, b)
               /\ Key(x.in) \in U /\ Key(x.in) \in Pool(C)
               /\ Valid(y.in) => Key(y.in) \in U /\ Before(Key(y.in), Key(x.in))
<1> DEFINE V == Visible(C, s)
           m == x.in
           p == Key(m)
           n == MergePrev(m)
           saved == Saves(p, V, x.saved)
           y == [x EXCEPT !.in = n, !.saved = saved]
<1>1. /\ Entries(U) /\ Typed(U) /\ Nothing \notin U
      /\ V \in SUBSET Pool(C) /\ V \in SUBSET U
  BY DEF World, Visible, Separate, Pool
<1>2. x \in DBIters(C, U) /\ x.seq = s /\ x.back /\ Stands(m, V) /\ Passing(ToCome(m, V), x.saved, V, b)
  BY DEF PrevStates
<1>3. m \in Mergers(C, U) /\ Valid(m) /\ x.saved \in U \cup {Nothing}
  BY <1>2 DEF DBIters, PrevDone
<1>4. \A d \in Pool(C) : d \in V <=> d.seq <= s
  BY DEF Visible
<1> HIDE DEF V, m
<1>5. /\ p \in U /\ p \in Pool(C) /\ n \in Mergers(C, U) /\ Stands(n, V)
      /\ Valid(n) => Key(n) \in U /\ Before(Key(n), p)
      /\ ToCome(n, V) = { d \in V : Before(d, p) }
  BY SMTT(30), <1>1, <1>2, <1>3, StepBack
<1> HIDE DEF p, n
<1>6. PrevTurn(x) = y
  BY <1>2, <1>4, <1>5 DEF PrevTurn, Saves, n, p, m
<1>7. Passing(UpTo(V, p), x.saved, V, b)
  BY <1>2, <1>3 DEF ToCome, p
<1>8. ~(p \in V /\ x.saved # Nothing /\ p.key < x.saved.key)
  BY <1>2, <1>4, <1>5 DEF PrevDone, p, m
<1>9. Passing({ d \in V : Before(d, p) }, saved, V, b)
  BY <1>1, <1>5, <1>7, <1>8, PassingOn
<1>10. saved \in U \cup {Nothing}
  BY <1>3, <1>5 DEF Saves
<1> HIDE DEF saved
<1>11. y \in DBIters(C, U) /\ y.in = n /\ y.saved = saved /\ y.seq = s /\ y.back
  BY <1>2, <1>5, <1>10 DEF DBIters
<1> HIDE DEF y
<1>12. y \in PrevStates(C, U, V, s, b)
  BY <1>5, <1>9, <1>11 DEF PrevStates
<1> QED
  BY <1>5, <1>6, <1>11, <1>12 DEF V, p, m

\* What FindPrevUserEntry finds.
LEMMA FindPrevIs ==
    ASSUME NEW U, NEW C, World(C, U), NEW s \in Nat, NEW b \in Nat,
           NEW it \in PrevStates(C, U, Visible(C, s), s, b)
    PROVE  LET t == FindPrevUserEntry(it)
           IN  t \in DBIters(C, U) /\ t.seq = s /\ PrevFrom(t, Visible(C, s), b)
<1> DEFINE V == Visible(C, s)
           X == PrevStates(C, U, V, s, b)
           stop == { x \in X : PrevDone(x) }
           F == [x \in X |-> IF PrevDone(x) THEN x ELSE PrevTurn(x)]
           left == [x \in X |-> ToCome(x.in, Pool(C))]
           N == Turns(C)
           Eq(f) == f = [n \in Nat |-> IF n = 0 THEN it
                                       ELSE IF PrevDone(f[n - 1]) THEN f[n - 1] ELSE PrevTurn(f[n - 1])]
<1>1. N \in Nat /\ IsFiniteSet(Pool(C)) /\ Cardinality(Pool(C)) <= N
  BY TurnsIs DEF World
<1>2. Entries(U) /\ Pool(C) \in SUBSET U /\ V \in SUBSET U
  BY DEF World, Separate, Pool, Visible
<1>3. ASSUME NEW x \in X, ~PrevDone(x)
      PROVE  /\ PrevTurn(x) \in X
             /\ Key(x.in) \in U /\ Key(x.in) \in Pool(C) /\ Valid(x.in)
             /\ Valid(PrevTurn(x).in) => Key(PrevTurn(x).in) \in U /\ Before(Key(PrevTurn(x).in), Key(x.in))
  BY <1>3, PrevTurnIs DEF PrevDone
<1> HIDE DEF X, V
<1>4. F \in [X -> X]
  BY <1>3
<1>5. ASSUME NEW x \in X, x \notin stop
      PROVE  left[x] # {} /\ left[F[x]] \subseteq left[x] /\ left[F[x]] # left[x]
  <2> DEFINE y == PrevTurn(x)
             p == Key(x.in)
             q == Key(y.in)
  <2>1. ~PrevDone(x) /\ F[x] = y /\ y \in X /\ p \in U /\ p \in Pool(C) /\ left[x] = UpTo(Pool(C), p)
    BY <1>3, <1>5 DEF ToCome
  <2>2. p \in left[x]
    BY <1>2, <2>1, BeforeOrder DEF UpTo
  <2>3. CASE ~Valid(y.in)
    <3>1. left[y] = {}
      BY <2>1, <2>3 DEF ToCome
    <3> QED
      BY <2>1, <2>2, <3>1
  <2>4. CASE Valid(y.in)
    <3>1. q \in U /\ Before(q, p) /\ left[y] = UpTo(Pool(C), q)
      BY <1>3, <2>1, <2>4 DEF ToCome
    <3> HIDE DEF left, y, p, q, F
    <3>2. left[y] \subseteq left[x] /\ p \notin left[y]
      BY <1>2, <2>1, <3>1, BeforeOrder DEF UpTo
    <3> QED
      BY <2>1, <2>2, <3>2
  <2> QED
    BY <2>3, <2>4
<1>6. left \in [X -> SUBSET Pool(C)]
  BY DEF ToCome, UpTo
<1>7. \A x \in X : x \in stop <=> PrevDone(x)
  OBVIOUS
<1>8. \A x \in X : ~PrevDone(x) => F[x] = PrevTurn(x)
  OBVIOUS
<1>9. it \in X
  BY DEF X, V
<1> HIDE DEF stop, F, left, N
<1>10. Ends(X, stop, F, it, Pool(C), left)
  BY <1>1, <1>4, <1>5, <1>6, <1>9 DEF Ends
<1>11. PICK g \in [Nat -> X] : Follows(g, X, stop, F, it)
  BY <1>4, <1>9, LoopHas
<1>12. Eq(g)
  <2>1. ASSUME NEW n \in Nat
        PROVE  g[n] = IF n = 0 THEN it ELSE IF PrevDone(g[n - 1]) THEN g[n - 1] ELSE PrevTurn(g[n - 1])
    <3>1. CASE n = 0
      BY <1>11, <3>1 DEF Follows
    <3>2. CASE n # 0
      <4>1. n - 1 \in Nat /\ (n - 1) + 1 = n
        BY <3>2
      <4>2. g[n - 1] \in X /\ g[n] = IF g[n - 1] \in stop THEN g[n - 1] ELSE F[g[n - 1]]
        BY <1>11, <4>1 DEF Follows
      <4> QED
        BY <1>7, <1>8, <3>2, <4>2
    <3> QED
      BY <3>1, <3>2
  <2> QED
    BY <2>1
<1> DEFINE f == CHOOSE h : Eq(h)
           end == f[1 + N]
<1>13. Eq(f)
  BY <1>12
<1>14. FindPrevUserEntry(it) = [end EXCEPT !.valid = end.saved # Nothing, !.back = end.saved # Nothing]
  <2>1. it.in.children = C
    BY DEF PrevStates, DBIters, Mergers, Positions
  <2> QED
    BY <2>1 DEF FindPrevUserEntry, Loop, PrevTurn, PrevDone, N, Turns
<1> HIDE DEF f
<1>15. Follows(f, X, stop, F, it)
  <2>1. f[0] = it
    BY <1>13
  <2>2. ASSUME NEW n \in Nat, f[n] \in X
        PROVE  f[n + 1] = IF f[n] \in stop THEN f[n] ELSE F[f[n]]
    <3>1. n + 1 \in Nat /\ n + 1 # 0 /\ (n + 1) - 1 = n
      OBVIOUS
    <3>2. f[n + 1] = IF PrevDone(f[n]) THEN f[n] ELSE PrevTurn(f[n])
      BY <1>13, <3>1
    <3> QED
      BY <1>7, <1>8, <2>2, <3>2
  <2> QED
    BY <2>1, <2>2 DEF Follows
<1>16. end \in X /\ end \in stop
  BY <1>1, <1>10, <1>15, LoopEnds
<1> HIDE DEF end
<1> DEFINE t == [end EXCEPT !.valid = end.saved # Nothing, !.back = end.saved # Nothing]
           L == ToCome(end.in, V)
<1>17. /\ end \in DBIters(C, U) /\ end.seq = s /\ Stands(end.in, V) /\ Passing(L, end.saved, V, b)
       /\ PrevDone(end)
  BY <1>7, <1>16 DEF X, PrevStates
<1>18. /\ t \in DBIters(C, U) /\ t.in = end.in /\ t.seq = s /\ t.saved = end.saved
       /\ (t.valid <=> end.saved # Nothing) /\ (t.back <=> end.saved # Nothing)
  BY <1>17 DEF DBIters
<1> HIDE DEF t
<1>19. L \in SUBSET V /\ end.in \in Mergers(C, U) /\ end.saved \in U \cup {Nothing}
  BY <1>17 DEF ToCome, UpTo, DBIters
<1>20. CASE end.saved = Nothing
  <2>1. L = {}
    BY <1>17, <1>20 DEF PrevDone, ToCome
  <2>2. \A x \in V : Shows(x, V) => ~(x.key < b)
    BY <1>2, <1>17, <1>20, <2>1 DEF Passing, World
  <2>3. PrevFrom(t, V, b)
    BY <1>18, <1>20, <2>2 DEF PrevFrom, On
  <2> QED
    BY <1>14, <1>18, <2>3 DEF t, V
<1>21. CASE end.saved # Nothing
  <2>1. \A d \in V : d.key \in Nat /\ d.seq \in Nat /\ d \in U
    BY <1>2 DEF Entries
  <2>2. end.saved.key \in Nat
    BY <1>2, <1>19, <1>21 DEF Entries
  <2>3. ASSUME Valid(end.in), NEW d \in L PROVE d.key < end.saved.key
    <3>1. ~Before(Key(end.in), d) /\ Key(end.in).key < end.saved.key /\ d \in V
      BY <1>17, <1>21, <2>3 DEF PrevDone, ToCome, UpTo
    <3>2. Key(end.in) \in U
      BY <1>19, <2>3 DEF Mergers, Positions, Valid, Key
    <3>3. Key(end.in).key \in Nat
      BY <1>2, <3>2 DEF Entries
    <3> QED
      BY <2>1, <2>2, <3>1, <3>3 DEF Before
  <2>4. \A d \in L : d.key < end.saved.key
    BY <2>3 DEF ToCome
  <2>5. /\ end.saved \in V /\ end.saved.key < b /\ Shows(end.saved, V)
        /\ \A x \in V : Shows(x, V) /\ x.key < b => x.key <= end.saved.key
        /\ \A d \in V : d.key < end.saved.key <=> d \in L
    BY <1>2, <1>17, <1>19, <1>21, <2>4, PassingDone
  <2>6. Just(end.in, V, end.saved.key)
    BY <2>5 DEF Just, ToCome, UpTo
  <2>7. Shown(t) = end.saved
    BY <1>18, <1>21 DEF Shown
  <2>8. PrevFrom(t, V, b)
    BY <1>17, <1>18, <1>21, <2>5, <2>6, <2>7 DEF PrevFrom, On
  <2> QED
    BY <1>14, <1>18, <2>8 DEF t, V
<1> QED
  BY <1>20, <1>21

\* On the way back to before a key: nothing below it was passed.
LeaveStates(C, U, V, k) ==
  { m \in Mergers(C, U) : /\ Stands(m, V)
                          /\ \A d \in V : d.key < k => d \in ToCome(m, V)
                          /\ Valid(m) => Key(m).key <= k }

LeaveDone(m, k) == ~(Valid(m) /\ Key(m).key = k)

LEMMA LeaveIs ==
    ASSUME NEW U, NEW C, World(C, U), NEW s \in Nat, NEW k \in Nat,
           NEW m \in LeaveStates(C, U, Visible(C, s), k)
    PROVE  LET n == Leave(m, k)
           IN  n \in Mergers(C, U) /\ Stands(n, Visible(C, s)) /\ Just(n, Visible(C, s), k)
<1> DEFINE V == Visible(C, s)
           X == LeaveStates(C, U, V, k)
           stop == { x \in X : LeaveDone(x, k) }
           F == [x \in X |-> IF LeaveDone(x, k) THEN x ELSE MergePrev(x)]
           left == [x \in X |-> ToCome(x, Pool(C))]
           N == Turns(C)
           Eq(f) == f = [n \in Nat |-> IF n = 0 THEN m
                                       ELSE IF LeaveDone(f[n - 1], k) THEN f[n - 1] ELSE MergePrev(f[n - 1])]
<1>1. N \in Nat /\ IsFiniteSet(Pool(C)) /\ Cardinality(Pool(C)) <= N
  BY TurnsIs DEF World
<1>2. Entries(U) /\ Pool(C) \in SUBSET U /\ V \in SUBSET U /\ V \in SUBSET Pool(C)
  BY DEF World, Separate, Pool, Visible
<1>3. ASSUME NEW x \in X, ~LeaveDone(x, k)
      PROVE  LET y == MergePrev(x)
             IN  /\ y \in X
                 /\ Key(x) \in U /\ Key(x) \in Pool(C) /\ Valid(x)
                 /\ Valid(y) => Key(y) \in U /\ Before(Key(y), Key(x))
  <2> DEFINE y == MergePrev(x)
             p == Key(x)
  <2>1. x \in Mergers(C, U) /\ Stands(x, V) /\ Valid(x) /\ p.key = k
    BY <1>3 DEF LeaveStates, LeaveDone
  <2> HIDE DEF V
  <2>2. /\ p \in U /\ p \in Pool(C) /\ y \in Mergers(C, U) /\ Stands(y, V)
        /\ Valid(y) => Key(y) \in U /\ Before(Key(y), p)
        /\ ToCome(y, V) = { d \in V : Before(d, p) }
    BY <1>2, <2>1, StepBack
  <2> HIDE DEF p, y
  <2>3. p.key \in Nat /\ p.seq \in Nat /\ \A d \in U : d.key \in Nat /\ d.seq \in Nat
    BY <1>2, <2>2 DEF Entries
  <2>4. \A d \in V : d.key < k => d \in ToCome(y, V)
    BY <1>2, <2>1, <2>2, <2>3 DEF Before
  <2>5. Valid(y) => Key(y).key <= k
    BY <2>1, <2>2, <2>3 DEF Before
  <2>6. y \in LeaveStates(C, U, V, k)
    BY <2>2, <2>4, <2>5 DEF LeaveStates
  <2> QED
    BY <2>1, <2>2, <2>6 DEF y, p
<1>4. m \in X
  OBVIOUS
<1> HIDE DEF X, V
<1>5. F \in [X -> X]
  BY <1>3
<1>6. ASSUME NEW x \in X, x \notin stop
      PROVE  left[x] # {} /\ left[F[x]] \subseteq left[x] /\ left[F[x]] # left[x]
  <2> DEFINE y == MergePrev(x)
             p == Key(x)
             q == Key(y)
  <2>1. ~LeaveDone(x, k) /\ F[x] = y /\ y \in X /\ p \in U /\ p \in Pool(C) /\ left[x] = UpTo(Pool(C), p)
    BY <1>3, <1>6 DEF ToCome
  <2>2. p \in left[x]
    BY <1>2, <2>1, BeforeOrder DEF UpTo
  <2>3. CASE ~Valid(y)
    <3>1. left[y] = {}
      BY <2>1, <2>3 DEF ToCome
    <3> QED
      BY <2>1, <2>2, <3>1
  <2>4. CASE Valid(y)
    <3>1. q \in U /\ Before(q, p) /\ left[y] = UpTo(Pool(C), q)
      BY <1>3, <2>1, <2>4 DEF ToCome
    <3> HIDE DEF left, y, p, q, F
    <3>2. left[y] \subseteq left[x] /\ p \notin left[y]
      BY <1>2, <2>1, <3>1, BeforeOrder DEF UpTo
    <3> QED
      BY <2>1, <2>2, <3>2
  <2> QED
    BY <2>3, <2>4
<1>7. left \in [X -> SUBSET Pool(C)]
  BY DEF ToCome, UpTo
<1>8. \A x \in X : x \in stop <=> LeaveDone(x, k)
  OBVIOUS
<1>9. \A x \in X : ~LeaveDone(x, k) => F[x] = MergePrev(x)
  OBVIOUS
<1> HIDE DEF stop, F, left, N
<1>10. Ends(X, stop, F, m, Pool(C), left)
  BY <1>1, <1>4, <1>5, <1>6, <1>7 DEF Ends
<1>11. PICK g \in [Nat -> X] : Follows(g, X, stop, F, m)
  BY <1>4, <1>5, LoopHas
<1>12. Eq(g)
  <2>1. ASSUME NEW n \in Nat
        PROVE  g[n] = IF n = 0 THEN m ELSE IF LeaveDone(g[n - 1], k) THEN g[n - 1] ELSE MergePrev(g[n - 1])
    <3>1. CASE n = 0
      BY <1>11, <3>1 DEF Follows
    <3>2. CASE n # 0
      <4>1. n - 1 \in Nat /\ (n - 1) + 1 = n
        BY <3>2
      <4>2. g[n - 1] \in X /\ g[n] = IF g[n - 1] \in stop THEN g[n - 1] ELSE F[g[n - 1]]
        BY <1>11, <4>1 DEF Follows
      <4> QED
        BY <1>8, <1>9, <3>2, <4>2
    <3> QED
      BY <3>1, <3>2
  <2> QED
    BY <2>1
<1> DEFINE f == CHOOSE h : Eq(h)
           end == f[1 + N]
<1>13. Eq(f)
  BY <1>12
<1>14. Leave(m, k) = end
  <2>1. m.children = C
    BY <1>4 DEF X, LeaveStates, Mergers, Positions
  <2> QED
    BY <2>1 DEF Leave, Loop, LeaveDone, N, Turns
<1> HIDE DEF f
<1>15. Follows(f, X, stop, F, m)
  <2>1. f[0] = m
    BY <1>13
  <2>2. ASSUME NEW n \in Nat, f[n] \in X
        PROVE  f[n + 1] = IF f[n] \in stop THEN f[n] ELSE F[f[n]]
    <3>1. n + 1 \in Nat /\ n + 1 # 0 /\ (n + 1) - 1 = n
      OBVIOUS
    <3>2. f[n + 1] = IF LeaveDone(f[n], k) THEN f[n] ELSE MergePrev(f[n])
      BY <1>13, <3>1
    <3> QED
      BY <1>8, <1>9, <2>2, <3>2
  <2> QED
    BY <2>1, <2>2 DEF Follows
<1>16. end \in X /\ end \in stop
  BY <1>1, <1>10, <1>15, LoopEnds
<1> HIDE DEF end
<1>17. /\ end \in Mergers(C, U) /\ Stands(end, V) /\ LeaveDone(end, k)
       /\ \A d \in V : d.key < k => d \in ToCome(end, V)
       /\ Valid(end) => Key(end).key <= k
  BY <1>8, <1>16 DEF X, LeaveStates
<1>18. ASSUME Valid(end), NEW d \in V, ~Before(Key(end), d) PROVE d.key < k
  <2>1. Key(end) \in U
    BY <1>17, <1>18 DEF Mergers, Positions, Valid, Key
  <2>2. Key(end).key \in Nat /\ d.key \in Nat
    BY <1>2, <2>1 DEF Entries
  <2> QED
    BY <1>17, <1>18, <2>2 DEF LeaveDone, Before
<1>19. Just(end, V, k)
  BY <1>17, <1>18 DEF Just, ToCome, UpTo
<1> QED
  BY <1>14, <1>17, <1>19 DEF V

\* IterSeekToLast and IterPrev.
LEMMA BackwardMoves ==
    ASSUME NEW U, NEW C, World(C, U), NEW s \in Nat, NEW it \in DBIters(C, U), it.seq = s,
           On(it, Visible(C, s)), NEW top \in Nat, \A d \in U : d.key < top
    PROVE  LET V == Visible(C, s)
               Does(t, b) == t \in DBIters(C, U) /\ t.seq = s /\ PrevFrom(t, V, b)
           IN  /\ Does(IterSeekToLast(it), top)
               /\ it.valid => Does(IterPrev(it), Shown(it).key)
<1> DEFINE V == Visible(C, s)
           Does(t, b) == t \in DBIters(C, U) /\ t.seq = s /\ PrevFrom(t, V, b)
           m == it.in
<1>1. /\ Entries(U) /\ Typed(U) /\ Nothing \notin U /\ Separate(C, U)
      /\ V \in SUBSET Pool(C) /\ V \in SUBSET U
  BY DEF World, Visible, Separate, Pool
<1>2. m \in Mergers(C, U)
  BY DEF DBIters
<1>3. \A d \in V : d.key \in Nat /\ d.seq \in Nat
  BY <1>1 DEF Entries
<1> HIDE DEF V, m
<1>4. ASSUME NEW n \in Mergers(C, U), NEW b \in Nat, Stands(n, V), Just(n, V, b)
      PROVE  Does(Backward(it, n), b)
  <2> DEFINE to == [it EXCEPT !.in = n, !.back = TRUE, !.saved = Nothing]
  <2>1. to \in DBIters(C, U) /\ to.in = n /\ to.seq = s /\ to.back /\ to.saved = Nothing
    BY DEF DBIters
  <2>2. Backward(it, n) = FindPrevUserEntry(to)
    BY DEF Backward
  <2> HIDE DEF to
  <2>3. \A d \in V : d \in ToCome(n, V) <=> d.key < b
    BY <1>4 DEF Just, ToCome, UpTo
  <2>4. \A d \in ToCome(n, V) : d \in V
    BY DEF ToCome, UpTo
  <2>5. Passing(ToCome(n, V), Nothing, V, b)
    BY <2>3, <2>4 DEF Passing
  <2>6. to \in PrevStates(C, U, V, s, b)
    BY <1>4, <2>1, <2>5 DEF PrevStates
  <2> QED
    BY <2>2, <2>6, FindPrevIs DEF V
<1>5. Does(IterSeekToLast(it), top)
  <2> DEFINE n == MergeToLast(m)
  <2>1. Arrives(n, C, U, V, U, TRUE)
    BY <1>1, <1>2, SoughtIs
  <2> HIDE DEF n
  <2>2. n \in Mergers(C, U) /\ Stands(n, V)
    BY <2>1 DEF Arrives
  <2>3. Just(n, V, top)
    BY <1>1, <2>1 DEF Just, Arrives, Toward
  <2>4. Does(Backward(it, n), top)
    BY <1>4, <2>2, <2>3
  <2> QED
    BY <2>4 DEF IterSeekToLast, m, n
<1>6. ASSUME it.valid PROVE Does(IterPrev(it), Shown(it).key)
  <2> DEFINE k == Shown(it).key
  <2>1. Stands(m, V) /\ Shown(it) \in V /\ k \in Nat
    BY <1>3, <1>6 DEF On, Shows, V, m
  <2>2. CASE it.back
    <3>1. it.saved.key = k /\ Just(m, V, k)
      BY <1>6, <2>2 DEF On, Shown, V, m
    <3> HIDE DEF k
    <3>2. Does(Backward(it, m), k)
      BY <1>2, <1>4, <2>1, <3>1
    <3> QED
      BY <2>2, <3>2 DEF IterPrev, m, k
  <2>3. CASE ~it.back
    <3> DEFINE n == Leave(m, k)
    <3>1. Valid(m) /\ Shown(it) = Key(m) /\ k = Key(m).key /\ Key(m) \in V
      BY <1>6, <2>1, <2>3 DEF On, Shown, m
    <3> HIDE DEF k
    <3>2. m \in LeaveStates(C, U, V, k)
      <4>1. \A d \in V : d.key < k => d \in ToCome(m, V)
        BY <1>3, <2>1, <3>1 DEF ToCome, UpTo, Before
      <4> QED
        BY <1>2, <2>1, <3>1, <4>1 DEF LeaveStates
    <3>3. n \in Mergers(C, U) /\ Stands(n, V) /\ Just(n, V, k)
      BY <2>1, <3>2, LeaveIs DEF V
    <3> HIDE DEF n
    <3>4. CASE Valid(n)
      <4>1. Does(Backward(it, n), k)
        BY <1>4, <2>1, <3>3
      <4> QED
        BY <2>3, <3>1, <3>4, <4>1 DEF IterPrev, m, n, k
    <3>5. CASE ~Valid(n)
      <4> DEFINE t == [it EXCEPT !.in = n, !.valid = FALSE, !.saved = Nothing]
      <4>1. t \in DBIters(C, U) /\ t.seq = s /\ ~t.valid
        BY <3>3 DEF DBIters
      <4>2. IterPrev(it) = t
        BY <2>3, <3>1, <3>5 DEF IterPrev, m, n, k
      <4> HIDE DEF t
      <4>3. PrevFrom(t, V, k)
        BY <3>3, <3>5, <4>1 DEF PrevFrom, On, Just, Shows
      <4> QED
        BY <4>1, <4>2, <4>3 DEF k
    <3> QED
      BY <3>4, <3>5
  <2> QED
    BY <2>2, <2>3
<1> QED
  BY <1>5, <1>6 DEF V

-----------------------------------------------------------------------------
(* The iterator and what is written meanwhile *)

\* More is written, and it is not in what the iterator reads.
LEMMA WorldWider ==
    ASSUME NEW U, NEW C, World(C, U), NEW T, U \subseteq T, Entries(T), Typed(T), Nothing \notin T
    PROVE  World(C, T) /\ DBIters(C, U) \subseteq DBIters(C, T)
<1>1. C \in Seq(SUBSET T) /\ C \in Seq(SUBSET U)
  BY DEF World, Separate
<1>2. World(C, T)
  BY <1>1 DEF World, Separate
<1>3. Mergers(C, U) \subseteq Mergers(C, T)
  BY DEF Mergers, Positions
<1>4. DBIters(C, U) \subseteq DBIters(C, T)
  BY <1>3 DEF DBIters
<1> QED
  BY <1>2, <1>4

\* A new entry comes into one of its sources: it does not see it.
With(U, e) == U \cup {e}
Enters(e, U, s) == /\ e \notin U /\ e.seq \in Nat /\ s < e.seq
                   /\ Entries(U \cup {e}) /\ Typed(U \cup {e}) /\ Nothing \notin U \cup {e}
Grown(C, e, D) == D = [C EXCEPT ![1] = @ \cup {e}]
GrownIter(it, e, t) == t = [it EXCEPT !.in.children[1] = @ \cup {e}]
Growth(U, C, it, e, D, t) ==
  /\ World(C, U) /\ it \in DBIters(C, U) /\ On(it, Visible(C, it.seq)) /\ 1 \in DOMAIN C
  /\ Enters(e, U, it.seq) /\ Grown(C, e, D) /\ GrownIter(it, e, t)

LEMMA GrowsIs ==
    ASSUME NEW U, NEW C, NEW it, NEW e, NEW D, NEW t, Growth(U, C, it, e, D, t)
    PROVE  /\ World(D, With(U, e)) /\ t \in DBIters(D, With(U, e)) /\ t.in.children = D
           /\ t.seq = it.seq /\ t.valid = it.valid /\ Shown(t) = Shown(it)
           /\ Visible(D, it.seq) = Visible(C, it.seq) /\ On(t, Visible(C, it.seq))
           /\ Pool(D) = With(Pool(C), e) /\ 1 \in DOMAIN D
<1> USE DEF Growth
<1> DEFINE T == U \cup {e}
           m == it.in
           n == [m EXCEPT !.children = D]
           s == it.seq
           V == Visible(C, s)
<1>1. /\ C \in Seq(SUBSET U) /\ \A i \in DOMAIN C : IsFiniteSet(C[i]) /\ C[i] \in SUBSET U
      /\ \A i, j \in DOMAIN C : i # j => C[i] \cap C[j] = {}
      /\ DOMAIN C = 1 .. Len(C)
  BY DEF World, Separate
<1>2. DOMAIN D = DOMAIN C /\ \A i \in DOMAIN C : D[i] = IF i = 1 THEN C[1] \cup {e} ELSE C[i]
  BY <1>1 DEF Grown
<1>3. D \in Seq(SUBSET T)
  BY <1>1 DEF Grown
<1>4. \A i, j \in DOMAIN C : i # j => D[i] \cap D[j] = {}
  BY <1>1, <1>2 DEF Enters
<1>5. \A i \in DOMAIN D : IsFiniteSet(D[i])
  <2>1. IsFiniteSet(C[1] \cup {e})
    BY <1>1, FS_AddElement
  <2> QED
    BY <1>1, <1>2, <2>1
<1>6. World(D, T)
  BY <1>2, <1>3, <1>4, <1>5 DEF World, Enters, Separate
<1>7. Pool(D) = Pool(C) \cup {e}
  BY <1>2 DEF Pool
<1>8. Visible(D, s) = V
  <2>1. s \in Nat /\ ~(e.seq <= s)
    BY DEF DBIters, Enters
  <2> QED
    BY <1>7, <2>1 DEF Visible
<1>9. e \notin V
  BY <1>1 DEF Enters, Visible, Pool
<1>10. /\ m \in Mergers(C, U) /\ m \in Positions(C, U) /\ m.children = C
       /\ m = [children |-> C, at |-> m.at, current |-> m.current, back |-> m.back]
  BY DEF DBIters, Mergers, Positions
<1>11. n = [children |-> D, at |-> m.at, current |-> m.current, back |-> m.back]
  BY <1>10
<1>12. /\ n.children = D /\ n.at = m.at /\ n.current = m.current /\ n.back = m.back
       /\ n \in Positions(D, T)
  BY <1>2, <1>10, <1>11 DEF Positions
<1> HIDE DEF m, n
<1>13. (Valid(n) <=> Valid(m)) /\ Key(n) = Key(m)
  BY <1>12 DEF Valid, Key
<1>14. n \in Mergers(D, T)
  <2>1. OnOwn(m) /\ (Valid(m) => Key(m) # Nothing)
    BY <1>10 DEF Mergers
  <2>2. OnOwn(n)
    BY <1>2, <1>10, <1>12, <2>1 DEF OnOwn
  <2> QED
    BY <1>12, <1>13, <2>1, <2>2 DEF Mergers
<1>15. Stands(m, V) => Stands(n, V)
  <2>1. \A i \in DOMAIN D : D[i] \cap V = C[i] \cap V
    BY <1>2, <1>9
  <2> QED
    BY <1>2, <1>10, <1>12, <1>13, <2>1 DEF Stands
<1>16. t = [it EXCEPT !.in = n]
  BY <1>10 DEF Grown, GrownIter, n, m, DBIters
<1>17. it \in DBIters(C, U)
  OBVIOUS
<1>18. /\ t \in DBIters(D, T) /\ t.in = n /\ t.seq = s /\ t.back = it.back
       /\ t.valid = it.valid /\ t.saved = it.saved
  BY <1>14, <1>16, <1>17 DEF DBIters
<1>19. Shown(t) = Shown(it)
  BY <1>13, <1>18 DEF Shown, m
<1>20. On(t, V)
  BY <1>13, <1>15, <1>18, <1>19 DEF On, Just, m
<1> QED
  BY <1>2, <1>6, <1>7, <1>8, <1>12, <1>18, <1>19, <1>20 DEF With

\* Of what is to be read at s, the shown entries are the newest ones that are values.
LEMMA ShownAre ==
    ASSUME LevelTablesAssumption, OpsInv, NEW C, Pool(C) \subseteq Range(ops),
           NEW s \in 0 .. last_sequence, Complete(ops, Pool(C), s)
    PROVE  LET V == Visible(C, s)
           IN  /\ \A x \in V : Shows(x, V) =>
                    x.key \in 1 .. NumKeys /\ x.seq \in Nat \ {0} /\ Latest(x.key, s) = x.seq
               /\ \A k : Latest(k, s) # 0 => \E x \in V : Shows(x, V) /\ x.key = k
<1> DEFINE V == Visible(C, s)
           J(k) == { i \in 1 .. s : ops[i].key = k }
<1>1. s \in Nat /\ 1 .. s \subseteq 1 .. Len(ops) /\ ops \in Seq(Entry)
  BY DEF OpsInv
<1>2. \A x \in V : x \in Pool(C) /\ x \in Range(ops) /\ x.seq <= s
  BY DEF Visible
<1>3. \A x \in V : x.seq \in 1 .. s /\ ops[x.seq] = x /\ x \in Entry
  BY <1>1, <1>2, WriteAt
<1>4. ASSUME NEW k, J(k) # {}
      PROVE  /\ Max(J(k)) \in J(k) /\ \A i \in J(k) : i <= Max(J(k))
             /\ \A j \in Max(J(k)) + 1 .. s : ops[j].key # k
  <2> DEFINE K == J(k)
  <2>1. K \in SUBSET Int /\ IsFiniteSet(K)
    <3>1. K \subseteq 1 .. s /\ 1 .. s \subseteq Int
      BY <1>1
    <3>2. IsFiniteSet(1 .. s)
      BY <1>1, FS_Interval
    <3> HIDE DEF K
    <3> QED
      BY <3>1, <3>2, FS_Subset
  <2>2. K # {} /\ \A j \in 1 .. s : ops[j].key = k => j \in K
    BY <1>4
  <2>3. \A i \in K : i \in 1 .. s
    OBVIOUS
  <2> HIDE DEF K
  <2>4. Max(K) \in K /\ \A i \in K : i <= Max(K)
    BY <2>1, <2>2, MaxIs
  <2>5. ASSUME NEW j \in Max(K) + 1 .. s, ops[j].key = k PROVE FALSE
    <3>1. Max(K) \in 1 .. s
      BY <2>3, <2>4
    <3>2. j \in 1 .. s /\ j > Max(K)
      BY <1>1, <3>1
    <3>3. j <= Max(K)
      BY <2>2, <2>4, <2>5, <3>2
    <3> QED
      BY <1>1, <3>1, <3>2, <3>3
  <2> QED
    BY <2>4, <2>5 DEF K
<1>5. \A k : Latest(k, s) = IF J(k) = {} \/ ops[Max(J(k))].type = "deletion" THEN 0 ELSE Max(J(k))
  BY DEF Latest
<1>6. ASSUME NEW k, J(k) # {}
      PROVE  LET m == Max(J(k))
             IN  /\ m \in 1 .. s /\ ops[m].key = k /\ ops[m].seq = m /\ ops[m] \in Entry
                 /\ ops[m] \in V \/ (ops[m].type = "deletion" /\ Hits(Pool(C), k, s) = {})
  <2> DEFINE m == Max(J(k))
  <2>1. m \in J(k) /\ \A j \in m + 1 .. s : ops[j].key # k
    BY <1>4, <1>6
  <2> HIDE DEF m
  <2>2. m \in 1 .. s /\ m \in 1 .. Len(ops) /\ ops[m].key = k
    BY <1>1, <2>1
  <2>3. ops[m].seq = m /\ ops[m] \in Entry
    BY <1>1, <2>2 DEF OpsInv
  <2>4. ops[m] \in Pool(C) \/ (ops[m].type = "deletion" /\ Hits(Pool(C), k, s) = {})
    BY <2>1, <2>2 DEF Complete
  <2>5. ops[m] \in Pool(C) => ops[m] \in V
    BY <1>1, <2>2, <2>3 DEF Visible
  <2> QED
    BY <2>2, <2>3, <2>4, <2>5 DEF m
<1> HIDE DEF V
<1>7. ASSUME NEW x \in V, Shows(x, V)
      PROVE  x.key \in 1 .. NumKeys /\ x.seq \in Nat \ {0} /\ Latest(x.key, s) = x.seq
  <2> DEFINE k == x.key
             K == J(k)
             m == Max(K)
  <2>1. x.seq \in 1 .. s /\ ops[x.seq] = x /\ x \in Entry /\ x.type = "value"
    BY <1>3, <1>7 DEF Shows
  <2>2. x.seq \in K /\ K # {}
    BY <2>1
  <2>3. x.seq <= m
    BY <1>4, <2>2
  <2>4. /\ m \in 1 .. s /\ ops[m].key = k /\ ops[m].seq = m
        /\ ops[m] \in V \/ (ops[m].type = "deletion" /\ Hits(Pool(C), k, s) = {})
    BY <1>6, <2>2
  <2>5. Latest(k, s) = IF K = {} \/ ops[m].type = "deletion" THEN 0 ELSE m
    BY <1>5
  <2>6. x \in Hits(Pool(C), k, s)
    BY <1>2 DEF Hits
  <2> HIDE DEF K, m
  <2>7. ops[m] \in V
    BY <2>4, <2>6
  <2>8. m <= x.seq
    BY <1>7, <2>4, <2>7 DEF Shows
  <2>9. m = x.seq
    BY <1>1, <2>1, <2>3, <2>4, <2>8
  <2>10. Latest(k, s) = x.seq
    BY <2>1, <2>2, <2>5, <2>9
  <2> QED
    BY <1>1, <2>1, <2>10 DEF Entry
<1>8. ASSUME NEW k, Latest(k, s) # 0
      PROVE  \E x \in V : Shows(x, V) /\ x.key = k
  <2> DEFINE K == J(k)
             m == Max(K)
  <2>1. K # {} /\ ops[m].type # "deletion"
    BY <1>5, <1>8
  <2>2. /\ m \in 1 .. s /\ ops[m].key = k /\ ops[m].seq = m /\ ops[m] \in Entry /\ ops[m] \in V
    BY ZenonT(30), <1>6, <2>1
  <2>3. \A i \in K : i <= m
    BY <1>4, <2>1
  <2>4. ASSUME NEW d \in V, d.key = k PROVE d.seq <= m
    <3>1. d.seq \in K
      BY <1>3, <2>4
    <3> QED
      BY <2>3, <3>1
  <2> HIDE DEF m
  <2>5. ops[m].type = "value"
    BY <2>1, <2>2 DEF Entry
  <2>6. Shows(ops[m], V)
    BY <2>2, <2>4, <2>5 DEF Shows
  <2> QED
    BY <2>2, <2>6
<1> QED
  BY <1>7, <1>8 DEF V

\* The key an iterator is on.
Cursor(it) == IF it.valid THEN Shown(it).key ELSE 0

\* It is the one that it should be on.
LEMMA CursorIs ==
    ASSUME LevelTablesAssumption, OpsInv, NEW C, Pool(C) \subseteq Range(ops),
           NEW s \in 0 .. last_sequence, Complete(ops, Pool(C), s), NEW t
    PROVE  LET V == Visible(C, s)
               keys == Keys(s)
               AtOrAfter(k) == Min({ j \in keys : j >= k } \cup IF \E j \in keys : j >= k THEN {} ELSE {0})
               AtOrAhead(k) == Max({0} \cup { j \in keys : j <= k })
           IN  /\ \A k \in Nat \ {0} : NextFrom(t, V, k - 1) => AtOrAfter(k) = Cursor(t)
               /\ \A k \in Nat : PrevFrom(t, V, k + 1) => AtOrAhead(k) = Cursor(t)
<1> DEFINE V == Visible(C, s)
           keys == Keys(s)
           x == Shown(t)
<1>1. \A k \in keys : k \in 1 .. NumKeys /\ \E z \in V : Shows(z, V) /\ z.key = k
  BY ShownAre DEF Keys
<1>2. \A z \in V : Shows(z, V) => z.key \in keys
  BY ShownAre DEF Keys
<1>3. NumKeys \in Nat /\ keys \subseteq 1 .. NumKeys /\ \A j \in keys : j \in Nat
  <2>1. NumKeys \in Nat
    BY DEF LevelTablesAssumption
  <2> QED
    BY <1>1, <2>1
<1>4. IsFiniteSet(keys)
  <2>1. IsFiniteSet(1 .. NumKeys)
    BY <1>3, FS_Interval
  <2> QED
    BY <1>3, <2>1, FS_Subset
<1> HIDE DEF V, keys, x
<1>5. \A b : NextFrom(t, V, b) \/ PrevFrom(t, V, b) => (t.valid => x \in V /\ Shows(x, V) /\ x.key \in keys)
  BY <1>2 DEF NextFrom, PrevFrom, On, Shows, x
<1>6. ASSUME NEW k \in Nat \ {0}, NextFrom(t, V, k - 1)
      PROVE  Min({ j \in keys : j >= k } \cup IF \E j \in keys : j >= k THEN {} ELSE {0}) = Cursor(t)
  <2> DEFINE S == { j \in keys : j >= k } \cup IF \E j \in keys : j >= k THEN {} ELSE {0}
  <2>1. CASE t.valid
    <3>1. /\ x.key \in keys /\ k - 1 < x.key
          /\ \A z \in V : Shows(z, V) /\ k - 1 < z.key => x.key <= z.key
      BY <1>5, <1>6, <2>1 DEF NextFrom, x
    <3>2. x.key \in S /\ \A j \in S : x.key <= j
      <4>1. x.key \in Nat /\ x.key >= k
        <5>1. x.key \in Nat /\ k - 1 < x.key
          BY <1>3, <3>1
        <5> QED
          BY <5>1
      <4>2. S = { j \in keys : j >= k }
        BY <3>1, <4>1
      <4> HIDE DEF S
      <4>3. ASSUME NEW j \in S PROVE x.key <= j
        <5>1. j \in keys /\ j >= k /\ j \in Nat
          BY <1>3, <4>2
        <5>2. k - 1 < j
          BY <5>1
        <5>3. PICK z \in V : Shows(z, V) /\ z.key = j
          BY <1>1, <5>1
        <5> QED
          BY <3>1, <5>2, <5>3
      <4> QED
        BY <3>1, <4>1, <4>2, <4>3
    <3>3. \A j \in S : j \in Nat
      BY <1>3
    <3> HIDE DEF S
    <3>4. Min(S) \in S /\ \A j \in S : Min(S) <= j
      BY <3>2, <3>3, MinIs
    <3>5. Min(S) = x.key
      <4>1. Min(S) \in Nat /\ x.key \in Nat /\ Min(S) <= x.key /\ x.key <= Min(S)
        BY <3>2, <3>3, <3>4
      <4> QED
        BY <4>1
    <3> QED
      BY <2>1, <3>5 DEF Cursor, S, x
  <2>2. CASE ~t.valid
    <3>1. \A z \in V : Shows(z, V) => ~(k - 1 < z.key)
      BY <1>6, <2>2 DEF NextFrom
    <3>2. ASSUME NEW j \in keys, j >= k PROVE FALSE
      <4>1. PICK z \in V : Shows(z, V) /\ z.key = j
        BY <1>1
      <4>2. j \in Nat /\ k - 1 < j
        BY <1>3, <3>2
      <4> QED
        BY <3>1, <4>1, <4>2
    <3>3. S = {0}
      BY <3>2
    <3>4. Min({0}) = 0
      <4>1. {0} \in SUBSET Nat /\ {0} # {}
        OBVIOUS
      <4>2. Min({0}) \in {0}
        BY <4>1, MinIs
      <4> QED
        BY <4>2
    <3> QED
      BY <2>2, <3>3, <3>4 DEF Cursor
  <2> QED
    BY <2>1, <2>2
<1>7. ASSUME NEW k \in Nat, PrevFrom(t, V, k + 1)
      PROVE  Max({0} \cup { j \in keys : j <= k }) = Cursor(t)
  <2> DEFINE S == {0} \cup { j \in keys : j <= k }
  <2>1. S \in SUBSET Int /\ IsFiniteSet(S) /\ 0 \in S
    <3> DEFINE T == { j \in keys : j <= k }
    <3>1. IsFiniteSet(T) /\ T \in SUBSET Nat
      BY <1>3, <1>4, FS_Subset
    <3> HIDE DEF T
    <3>2. IsFiniteSet(T \cup {0})
      BY <3>1, FS_AddElement
    <3>3. S = T \cup {0}
      BY DEF T
    <3> HIDE DEF S
    <3> QED
      BY <3>1, <3>2, <3>3
  <2>2. \A j \in S : j = 0 \/ (j \in keys /\ j <= k /\ j \in Nat)
    BY <1>3
  <2>3. \A j \in keys : j <= k => j \in S
    OBVIOUS
  <2> HIDE DEF S
  <2>4. Max(S) \in S /\ \A j \in S : j <= Max(S)
    BY <2>1, MaxIs
  <2>5. CASE t.valid
    <3>1. /\ x.key \in keys /\ x.key < k + 1
          /\ \A z \in V : Shows(z, V) /\ z.key < k + 1 => z.key <= x.key
      BY <1>5, <1>7, <2>5 DEF PrevFrom, x
    <3>2. x.key \in S /\ x.key \in Nat
      <4>1. x.key \in Nat /\ x.key <= k
        <5>1. x.key \in Nat /\ x.key < k + 1
          BY <1>3, <3>1
        <5> QED
          BY <5>1
      <4> QED
        BY <2>3, <3>1, <4>1
    <3>3. ASSUME NEW j \in S PROVE j <= x.key
      <4>1. CASE j = 0
        BY <3>2, <4>1
      <4>2. CASE j # 0
        <5>1. j \in keys /\ j < k + 1
          BY <2>2, <4>2
        <5>2. PICK z \in V : Shows(z, V) /\ z.key = j
          BY <1>1, <5>1
        <5> QED
          BY <3>1, <5>1, <5>2
      <4> QED
        BY <4>1, <4>2
    <3>4. Max(S) = x.key
      <4>1. Max(S) \in Int /\ Max(S) <= x.key /\ x.key <= Max(S)
        BY <2>1, <2>4, <3>2, <3>3
      <4> QED
        BY <3>2, <4>1
    <3> QED
      BY <2>5, <3>4 DEF Cursor, S, x
  <2>6. CASE ~t.valid
    <3>1. \A z \in V : Shows(z, V) => ~(z.key < k + 1)
      BY <1>7, <2>6 DEF PrevFrom
    <3>2. ASSUME NEW j \in S, j # 0 PROVE FALSE
      <4>1. j \in keys /\ j < k + 1
        BY <2>2, <3>2
      <4>2. PICK z \in V : Shows(z, V) /\ z.key = j
        BY <1>1, <4>1
      <4> QED
        BY <3>1, <4>1, <4>2
    <3>3. Max(S) = 0
      BY <2>4, <3>2
    <3> QED
      BY <2>6, <3>3 DEF Cursor, S
  <2> QED
    BY <2>5, <2>6
<1> QED
  BY <1>6, <1>7 DEF V, keys

-----------------------------------------------------------------------------
(* The iterator of the client *)

\* A sequence of one, and a longer one.
LEMMA OneIs ==
    ASSUME NEW S, NEW x \in S, NEW R
    PROVE  /\ <<x>> \in Seq(S) /\ Range(<<x>>) = {x} /\ Runs(<<x>>, R)
           /\ <<>> \in Seq(S) /\ Range(<<>>) = {} /\ Runs(<<>>, R)
  BY DEF Range, Runs

LEMMA BothRun ==
    ASSUME NEW S, NEW R, NEW p \in Seq(S), NEW q \in Seq(S), Runs(p, R), Runs(q, R),
           \A x \in Range(p), y \in Range(q) : <<x, y>> \in R
    PROVE  p \o q \in Seq(S) /\ Range(p \o q) = Range(p) \cup Range(q) /\ Runs(p \o q, R)
<1>1. p \o q \in Seq(S) /\ Range(p \o q) = Range(p) \cup Range(q)
  BY RangeOfBoth
<1>2. (\A i \in 1 .. Len(p) : p[i] \in Range(p)) /\ \A j \in 1 .. Len(q) : q[j] \in Range(q)
  BY RangeHas
<1>3. Runs(p \o q, R)
  BY <1>2, RunsOn
<1> QED
  BY <1>1, <1>3

Strangers(U) == { p \in (SUBSET U) \X (SUBSET U) : p[1] \cap p[2] = {} }

\* What an iterator reads: everything there is, in sources of which no two have an entry in common.
LEMMA SourcesAre ==
    ASSUME LevelTablesAssumption, Places, NewestAbove(files), MemOrder, \A f \in files : f.level < NumLevels
    PROVE  Separate(Sources, Range(ops)) /\ Pool(Sources) = Stored /\ 1 \in DOMAIN Sources
<1> DEFINE U == Range(ops)
           R == Strangers(U)
           S == SUBSET U
           old == { f \in files : f.level = 0 }
           level0 == ByNumber(old)
           At0 == [i \in DOMAIN level0 |-> level0[i].entries]
           On1(l) == LET fs == { f \in files : f.level = l } IN IF fs = {} THEN <<>> ELSE <<EntriesOf(fs)>>
           each == [l \in 1 .. NumLevels - 1 |-> On1(l)]
           rest == FlattenSeq(each)
           two == IF imm = Nothing THEN <<>> ELSE <<imm>>
           top == <<mem>> \o two
           all == top \o At0 \o rest
<1>1. /\ OpsInv /\ MemInv /\ FilesInv /\ LevelsInv /\ IsFiniteSet(files) /\ NumLevels \in Nat
      /\ \A f \in files : f.level \in Nat /\ f.number \in Nat /\ f.entries \in S
  <2>1. NumLevels \in Nat
    BY DEF LevelTablesAssumption
  <2> QED
    BY <2>1 DEF Places, FilesInv, FileSet
<1>2. Stored \subseteq U /\ Imm \subseteq U /\ EntriesOf(files) \subseteq U /\ mem \in S /\ IsFiniteSet(U) /\ Entries(U)
  BY <1>1, StoredIs, WritesAre DEF MemInv
<1>3. Sources = all
  BY DEF Sources
<1>4. \A T \in S : IsFiniteSet(T)
  BY <1>2, FS_Subset
<1>5. \A A, B \in S : A \cap B = {} => <<A, B>> \in R
  BY DEF Strangers
<1>6. \A d \in U : d.seq \in Nat
  BY <1>2 DEF Entries
<1>7. ASSUME NEW f \in files, NEW g \in files, f # g PROVE f.entries \cap g.entries = {}
  <2> SUFFICES ASSUME NEW d \in f.entries \cap g.entries PROVE FALSE
    OBVIOUS
  <2>1. d \in U /\ d.seq \in Nat /\ ~(d.seq > d.seq)
    BY <1>1, <1>6
  <2>2. ~Above(f, g) /\ ~Above(g, f)
    BY <2>1 DEF NewestAbove
  <2>3. f.level = g.level
    BY <1>1, <2>2 DEF Above
  <2>4. CASE f.level = 0
    <3>1. f.number = g.number
      BY <1>1, <2>2, <2>3, <2>4 DEF Above
    <3> QED
      BY <1>7, <2>3, <2>4, <3>1 DEF NewestAbove
  <2>5. CASE f.level # 0
    <3>1. f.level \in Nat /\ f.level > 0
      BY <1>1, <2>5
    <3>2. InLine({ h \in files : h.level = f.level })
      BY <1>1, <3>1 DEF LevelsInv
    <3>3. Before(d, d)
      BY <1>7, <2>3, <3>2 DEF InLine, Apart
    <3> QED
      BY <1>2, <2>1, <3>3, BeforeOrder
  <2> QED
    BY <2>4, <2>5
<1>8. top \in Seq(S) /\ Range(top) = {mem} \cup (IF imm = Nothing THEN {} ELSE {imm}) /\ Runs(top, R)
  <2>1. mem \cap Imm = {}
    BY <1>2, <1>6 DEF MemOrder
  <2>2. mem \in S
    BY <1>2
  <2>3. <<mem>> \in Seq(S) /\ Range(<<mem>>) = {mem} /\ Runs(<<mem>>, R)
    <3> HIDE DEF R, S
    <3> QED
      BY <2>2, OneIs
  <2>4. two \in Seq(S) /\ Range(two) = (IF imm = Nothing THEN {} ELSE {imm}) /\ Runs(two, R)
    <3>1. CASE imm = Nothing
      <4>1. two = <<>>
        BY <3>1
      <4> HIDE DEF R, S, two
      <4> QED
        BY <2>2, <3>1, <4>1, OneIs
    <3>2. CASE imm # Nothing
      <4>1. two = <<imm>> /\ imm \in S
        BY <1>2, <3>2 DEF Imm
      <4> HIDE DEF R, S, two
      <4> QED
        BY <3>2, <4>1, OneIs
    <3> QED
      BY <3>1, <3>2
  <2>5. \A y \in Range(two) : <<mem, y>> \in R
    <3>1. \A y \in Range(two) : y = Imm
      BY <2>4 DEF Imm
    <3>2. <<mem, Imm>> \in R
      BY <1>2, <1>5, <2>1
    <3> HIDE DEF R, two
    <3> QED
      BY <3>1, <3>2
  <2> HIDE DEF two, R, S
  <2>6. \A x \in Range(<<mem>>), y \in Range(two) : <<x, y>> \in R
    BY <2>3, <2>5
  <2>7. /\ <<mem>> \o two \in Seq(S) /\ Range(<<mem>> \o two) = Range(<<mem>>) \cup Range(two)
        /\ Runs(<<mem>> \o two, R)
    BY <2>3, <2>4, <2>6, BothRun
  <2> QED
    BY <2>3, <2>4, <2>7
<1>9. /\ At0 \in Seq(S) /\ Runs(At0, R)
      /\ \A E \in Range(At0) : \E f \in old : E = f.entries
      /\ \A f \in old : f.entries \in Range(At0)
  <2> DEFINE n == Len(level0)
  <2>1. IsFiniteSet(old) /\ \A f \in old : f.number \in Nat /\ f \in files
    BY <1>1, FS_Subset
  <2> HIDE DEF old
  <2>2. /\ level0 \in Seq(old) /\ \A f \in old : \E i \in 1 .. n : level0[i] = f
        /\ \A i, j \in 1 .. n : i < j => level0[i] # level0[j]
    BY <2>1, ByNumberIs
  <2> HIDE DEF level0
  <2>3. n \in Nat /\ DOMAIN level0 = 1 .. n /\ \A i \in 1 .. n : level0[i] \in old /\ level0[i] \in files
    BY <2>1, <2>2
  <2>4. At0 \in Seq(S) /\ Len(At0) = n /\ \A i \in 1 .. n : At0[i] = level0[i].entries
    BY <1>1, <2>3
  <2>5. Range(At0) = { At0[i] : i \in 1 .. n }
    BY <2>3 DEF Range
  <2> HIDE DEF At0
  <2>6. ASSUME NEW i \in 1 .. n, NEW j \in 1 .. n, i < j PROVE <<At0[i], At0[j]>> \in R
    <3>1. level0[i].entries \cap level0[j].entries = {}
      BY <1>7, <2>2, <2>3, <2>6
    <3> QED
      BY <1>1, <1>5, <2>3, <2>4, <3>1
  <2>7. Runs(At0, R)
    BY <2>4, <2>6 DEF Runs
  <2>8. ASSUME NEW E \in Range(At0) PROVE \E f \in old : E = f.entries
    BY <2>3, <2>4, <2>5
  <2>9. ASSUME NEW f \in old PROVE f.entries \in Range(At0)
    <3>1. PICK i \in 1 .. n : level0[i] = f
      BY <2>2
    <3> QED
      BY <2>4, <2>5, <3>1
  <2> QED
    BY <2>4, <2>7, <2>8, <2>9
<1>10. \A l \in 1 .. NumLevels - 1 : \/ On1(l) = <<>> /\ { f \in files : f.level = l } = {}
                                     \/ On1(l) = <<EntriesOf({ f \in files : f.level = l })>>
  OBVIOUS
<1>11. \A l : EntriesOf({ f \in files : f.level = l }) \in S
  BY <1>1 DEF EntriesOf
<1>12. /\ rest \in Seq(S) /\ Runs(rest, R)
       /\ \A E \in Range(rest) : \E l \in 1 .. NumLevels - 1 : E = EntriesOf({ f \in files : f.level = l })
       /\ \A f \in files : f.level > 0 => \E E \in Range(rest) : f.entries \subseteq E
  <2> DEFINE E(l) == EntriesOf({ f \in files : f.level = l })
             n == NumLevels - 1
  <2>1. \A l \in 1 .. n : On1(l) \in Seq(S) /\ Runs(On1(l), R) /\ Range(On1(l)) \subseteq {E(l)}
    <3> SUFFICES ASSUME NEW l \in 1 .. n
                 PROVE  On1(l) \in Seq(S) /\ Runs(On1(l), R) /\ Range(On1(l)) \subseteq {E(l)}
      OBVIOUS
    <3> HIDE DEF On1
    <3>1. CASE On1(l) = <<>>
      BY <3>1 DEF Range, Runs
    <3>2. CASE On1(l) = <<E(l)>>
      <4>1. E(l) \in S
        BY <1>11
      <4> HIDE DEF E
      <4> QED
        BY <3>2, <4>1 DEF Range, Runs
    <3> QED
      BY <1>10, <3>1, <3>2
  <2> HIDE DEF On1
  <2>2. Len(each) = n /\ each \in Seq(Seq(S)) /\ \A l \in 1 .. n : each[l] = On1(l)
    <3>1. CASE n \in Nat
      BY <2>1, <3>1
    <3> QED
      BY <1>1, <3>1 DEF LevelTablesAssumption
  <2> HIDE DEF each
  <2>3. /\ rest \in Seq(S)
        /\ \A a \in 1 .. n : Range(each[a]) \subseteq Range(rest)
        /\ \A y \in Range(rest) : \E a \in 1 .. n : y \in Range(each[a])
        /\ (/\ \A a \in 1 .. n : Runs(each[a], R)
            /\ \A a, b \in 1 .. n : a < b => \A y \in Range(each[a]), z \in Range(each[b]) : <<y, z>> \in R)
           => Runs(rest, R)
    BY <2>2, FlattenSeqIs
  <2>4. ASSUME NEW a \in 1 .. n, NEW b \in 1 .. n, a < b PROVE <<E(a), E(b)>> \in R
    <3>1. E(a) \cap E(b) = {}
      <4> SUFFICES ASSUME NEW d \in E(a) \cap E(b) PROVE FALSE
        OBVIOUS
      <4>1. PICK f \in files : f.level = a /\ d \in f.entries
        BY DEF EntriesOf
      <4>2. PICK g \in files : g.level = b /\ d \in g.entries
        BY DEF EntriesOf
      <4> QED
        BY <1>7, <2>4, <4>1, <4>2
    <3> QED
      BY <1>5, <1>11, <3>1
  <2>5. Runs(rest, R)
    <3>1. \A a \in 1 .. n : Runs(each[a], R) /\ Range(each[a]) \subseteq {E(a)}
      BY <2>1, <2>2
    <3> HIDE DEF R, E, n, rest
    <3>2. \A a, b \in 1 .. n : a < b => \A y \in Range(each[a]), z \in Range(each[b]) : <<y, z>> \in R
      <4> SUFFICES ASSUME NEW a \in 1 .. n, NEW b \in 1 .. n, a < b, NEW y \in Range(each[a]), NEW z \in Range(each[b])
                   PROVE  <<y, z>> \in R
        OBVIOUS
      <4>1. y = E(a) /\ z = E(b)
        BY <3>1
      <4> QED
        BY <2>4, <4>1
    <3> QED
      BY <2>3, <3>1, <3>2
  <2>6. ASSUME NEW f \in files, f.level > 0 PROVE \E x \in Range(rest) : f.entries \subseteq x
    <3> DEFINE l == f.level
    <3>1. l \in 1 .. n
      BY <1>1, <2>6
    <3>2. each[l] = <<E(l)>>
      BY <1>10, <2>2, <3>1 DEF On1
    <3>3. E(l) \in Range(each[l])
      <4>1. E(l) \in S
        BY <1>11
      <4> HIDE DEF E, S, l
      <4> QED
        BY <3>2, <4>1, OneIs
    <3>4. f.entries \subseteq E(l)
      BY DEF EntriesOf
    <3> QED
      BY <2>3, <3>1, <3>3, <3>4
  <2> QED
    BY ZenonT(30), <2>1, <2>2, <2>3, <2>5, <2>6
<1> HIDE DEF top, At0, rest
<1>13. \A A \in Range(top), f \in files : A \cap f.entries = {} /\ A \in S /\ A \subseteq Stored
  <2> SUFFICES ASSUME NEW A \in Range(top), NEW f \in files
               PROVE  A \cap f.entries = {} /\ A \in S /\ A \subseteq Stored
    OBVIOUS
  <2>1. A = mem \/ (A = imm /\ Imm = imm)
    BY <1>8 DEF Imm
  <2>2. f.entries \subseteq EntriesOf(files)
    BY DEF EntriesOf
  <2> QED
    BY <1>2, <1>6, <2>1, <2>2 DEF MemOrder, Stored
<1>14. top \o At0 \in Seq(S) /\ Range(top \o At0) = Range(top) \cup Range(At0) /\ Runs(top \o At0, R)
  <2>1. \A x \in Range(top), y \in Range(At0) : <<x, y>> \in R
    <3> SUFFICES ASSUME NEW x \in Range(top), NEW y \in Range(At0) PROVE <<x, y>> \in R
      OBVIOUS
    <3>1. PICK f \in files : y = f.entries
      BY <1>9
    <3> QED
      BY <1>1, <1>5, <1>13, <3>1
  <2> HIDE DEF R, S
  <2> QED
    BY <1>8, <1>9, <2>1, BothRun
<1> DEFINE q == top \o At0
<1>15. q \o rest \in Seq(S) /\ Range(q \o rest) = Range(q) \cup Range(rest) /\ Runs(q \o rest, R)
  <2>1. \A x \in Range(q), y \in Range(rest) : <<x, y>> \in R
    <3> SUFFICES ASSUME NEW x \in Range(q), NEW y \in Range(rest) PROVE <<x, y>> \in R
      OBVIOUS
    <3>1. PICK l \in 1 .. NumLevels - 1 : y = EntriesOf({ f \in files : f.level = l })
      BY <1>12
    <3>2. x \in S /\ \A f \in files : f.level = l => x \cap f.entries = {}
      <4>1. CASE x \in Range(top)
        BY <1>1, <1>8, <1>13, <4>1 DEF MemInv
      <4>2. CASE x \in Range(At0)
        <5>1. PICK g \in files : x = g.entries /\ g.level = 0
          BY <1>9, <4>2
        <5>2. \A f \in files : f.level = l => f # g
          BY <1>1, <5>1
        <5> QED
          BY <1>1, <1>7, <5>1, <5>2
      <4> QED
        BY <1>14, <4>1, <4>2
    <3>3. x \cap y = {}
      BY <3>1, <3>2 DEF EntriesOf
    <3>4. y \in S
      BY <1>11, <3>1
    <3> QED
      BY <1>5, <3>2, <3>3, <3>4
  <2> HIDE DEF R, S, q
  <2> QED
    BY <1>12, <1>14, <2>1, BothRun DEF q
<1>16. all = q \o rest
  OBVIOUS
<1> HIDE DEF all, q
<1>17. all \in Seq(S) /\ Range(all) = Range(top) \cup Range(At0) \cup Range(rest) /\ Runs(all, R)
  BY <1>14, <1>15, <1>16 DEF q
<1>18. DOMAIN all = 1 .. Len(all) /\ Len(all) \in Nat /\ Range(all) = { all[i] : i \in DOMAIN all }
  BY <1>17 DEF Range
<1>19. \A i, j \in DOMAIN all : i # j => all[i] \cap all[j] = {}
  <2>1. \A i, j \in DOMAIN all : i < j => all[i] \cap all[j] = {}
    BY <1>17, <1>18 DEF Runs, Strangers
  <2> SUFFICES ASSUME NEW i \in DOMAIN all, NEW j \in DOMAIN all, i # j PROVE all[i] \cap all[j] = {}
    OBVIOUS
  <2>2. i < j \/ j < i
    BY <1>18
  <2> HIDE DEF R
  <2> QED
    BY <2>1, <2>2
<1>20. Separate(all, U)
  <2>1. \A i \in DOMAIN all : all[i] \in S
    BY <1>17, <1>18
  <2>2. \A i \in DOMAIN all : IsFiniteSet(all[i])
    BY <1>4, <2>1
  <2> QED
    BY <1>17, <1>19, <2>2 DEF Separate
<1>21. Pool(all) = UNION Range(all)
  BY <1>18 DEF Pool
<1>22. mem \in Range(all)
  BY <1>8, <1>17
<1>23. UNION Range(all) \subseteq Stored
  <2> SUFFICES ASSUME NEW A \in Range(all) PROVE A \subseteq Stored
    OBVIOUS
  <2>1. CASE A \in Range(top)
    <3>1. A = mem \/ A = Imm
      BY <1>8, <2>1 DEF Imm
    <3> QED
      BY <3>1 DEF Stored
  <2>2. CASE A \in Range(At0)
    BY <1>9, <2>2 DEF Stored, EntriesOf
  <2>3. CASE A \in Range(rest)
    BY <1>12, <2>3 DEF Stored, EntriesOf
  <2> QED
    BY <1>17, <2>1, <2>2, <2>3
<1>24. Stored \subseteq UNION Range(all)
  <2> SUFFICES ASSUME NEW d \in Stored PROVE \E A \in Range(all) : d \in A
    OBVIOUS
  <2>1. CASE d \in mem
    BY <1>22, <2>1
  <2>2. CASE d \in Imm
    BY <1>8, <1>17, <2>2 DEF Imm
  <2>3. CASE d \in EntriesOf(files)
    <3>1. PICK f \in files : d \in f.entries
      BY <2>3 DEF EntriesOf
    <3>2. CASE f.level = 0
      BY <1>9, <1>17, <3>1, <3>2
    <3>3. CASE f.level # 0
      <4>1. f.level > 0
        BY <1>1, <3>3
      <4>2. PICK E \in Range(rest) : f.entries \subseteq E
        BY <1>12, <4>1
      <4> QED
        BY <1>17, <3>1, <4>2
    <3> QED
      BY <3>2, <3>3
  <2> QED
    BY <2>1, <2>2, <2>3 DEF Stored
<1>25. 1 \in DOMAIN all
  <2>1. PICK i \in DOMAIN all : TRUE
    BY <1>18, <1>22
  <2> QED
    BY <1>18, <2>1
<1>26. Pool(all) = Stored
  BY <1>21, <1>23, <1>24
<1> QED
  BY <1>3, <1>20, <1>25, <1>26

\* What the iterator reads, with a place in it.
Children == iter.db.in.children

IterInv ==
  iter # Nothing =>
    /\ iter \in [db : DBIters(Children, Range(ops)), live : BOOLEAN, cursor : Nat]
    /\ World(Children, Range(ops)) /\ 1 \in DOMAIN Children
    /\ iter.db.seq \in 0 .. last_sequence /\ Complete(ops, Pool(Children), iter.db.seq)
    /\ On(iter.db, Visible(Children, iter.db.seq))
    /\ iter.cursor = Cursor(iter.db)

\* Then it is right.
LEMMA IterShows ==
    ASSUME LevelTablesAssumption, OpsInv, IterInv
    PROVE  IteratorRight
<1> SUFFICES ASSUME iter # Nothing
             PROVE  LET e == Shown(iter.db)
                    IN  IF iter.cursor = 0 THEN e = Nothing
                        ELSE e # Nothing /\ e.key = iter.cursor /\ e.seq = Latest(iter.cursor, iter.db.seq)
  BY DEF IteratorRight
<1> DEFINE C == Children
           s == iter.db.seq
           V == Visible(C, s)
           e == Shown(iter.db)
<1>1. /\ World(C, Range(ops)) /\ s \in 0 .. last_sequence /\ Complete(ops, Pool(C), s)
      /\ On(iter.db, V) /\ iter.cursor = IF iter.db.valid THEN e.key ELSE 0
  BY DEF IterInv, Cursor
<1>2. Pool(C) \subseteq Range(ops) /\ Nothing \notin Range(ops) /\ V \subseteq Pool(C)
  BY <1>1 DEF World, Separate, Pool, Visible
<1> HIDE DEF C, s
<1>3. CASE iter.db.valid
  <2>1. Shows(e, V) /\ e \in V
    BY <1>1, <1>3 DEF On, Shows
  <2>2. e.key \in 1 .. NumKeys /\ Latest(e.key, s) = e.seq
    BY <1>1, <1>2, <2>1, ShownAre
  <2>3. e.key # 0 /\ e # Nothing /\ iter.cursor = e.key
    BY <1>1, <1>2, <1>3, <2>1, <2>2
  <2> QED
    BY <2>2, <2>3 DEF s
<1>4. CASE ~iter.db.valid
  BY <1>1, <1>4 DEF Shown
<1> QED
  BY <1>3, <1>4

\* The writes, for an iterator.
LEMMA WritesFor ==
    ASSUME NullApart, LevelTablesAssumption, OpsInv
    PROVE  /\ Entries(Range(ops)) /\ Typed(Range(ops)) /\ Nothing \notin Range(ops) /\ NumKeys \in Nat
           /\ \A e \in Range(ops) : 0 < e.key /\ e.key < NumKeys + 1
<1>1. \A e \in Range(ops) : e \in Entry
  BY WriteAt
<1>2. NumKeys \in Nat /\ Entries(Range(ops))
  BY WritesAre
<1>3. \A e \in Range(ops) : 0 < e.key /\ e.key < NumKeys + 1
  BY <1>1, <1>2 DEF Entry
<1> QED
  BY <1>1, <1>2, <1>3 DEF Entry, Typed, NullApart

\* A new one has the memtables and the version as they are.
LEMMA NewIteratorIter ==
    ASSUME NullApart, LevelTablesAssumption, Places, Found,
           NEW s \in snapshots \cup {last_sequence}, NewIterator(s)
    PROVE  IterInv'
<1> DEFINE C == Sources
           U == Range(ops)
           m == NewMergingIterator(C)
           db == NewDBIterator(C, s)
<1>1. /\ iter' = [db |-> db, live |-> TRUE, cursor |-> 0]
      /\ ops' = ops /\ last_sequence' = last_sequence
  BY DEF NewIterator
<1>2. OpsInv /\ Entries(U) /\ Typed(U) /\ Nothing \notin U
  BY WritesFor DEF Places
<1>3. Separate(C, U) /\ Pool(C) = Stored /\ 1 \in DOMAIN C
  <2>1. NewestAbove(files) /\ MemOrder /\ \A f \in files : f.level < NumLevels
    BY DEF Found, BoundsInv
  <2> QED
    BY <2>1, SourcesAre
<1>4. World(C, U)
  BY <1>2, <1>3 DEF World
<1>5. s \in 0 .. last_sequence /\ s \in Nat /\ Complete(ops, Stored, s)
  <2>1. last_sequence \in Nat
    BY <1>2 DEF OpsInv
  <2> QED
    BY <2>1 DEF Found, SnapshotsInv, CompleteInv
<1> HIDE DEF C
<1>6. m \in Mergers(C, U)
  <2>1. m \in Positions(C, U)
    BY DEF NewMergingIterator, Positions
  <2>2. OnOwn(m) /\ ~Valid(m)
    BY DEF NewMergingIterator, OnOwn, Valid
  <2> QED
    BY <2>1, <2>2 DEF Mergers
<1>7. db = [in |-> m, seq |-> s, back |-> FALSE, valid |-> FALSE, saved |-> Nothing]
  BY DEF NewDBIterator
<1>8. m.children = C
  BY DEF NewMergingIterator
<1> HIDE DEF m, db
<1>9. db \in DBIters(C, U) /\ db.in = m /\ db.seq = s /\ ~db.valid
  BY <1>5, <1>6, <1>7 DEF DBIters
<1>10. On(db, Visible(C, s)) /\ Cursor(db) = 0
  BY <1>9 DEF On, Cursor
<1>11. /\ iter'.db = db /\ iter'.cursor = 0 /\ Children' = C /\ Range(ops') = U
       /\ iter' \in [db : DBIters(C, U), live : BOOLEAN, cursor : Nat]
  BY <1>1, <1>8, <1>9 DEF Children
<1> HIDE DEF U
<1> QED
  BY <1>1, <1>3, <1>4, <1>5, <1>9, <1>10, <1>11 DEF IterInv

\* Each of its methods takes it to where it should be.
LEMMA MoveIteratorIter ==
    ASSUME NullApart, LevelTablesAssumption, OpsInv, IterInv, MoveIterator
    PROVE  IterInv'
<1> DEFINE C == Children
           U == Range(ops)
           it == iter.db
           s == it.seq
           V == Visible(C, s)
           keys == Keys(s)
           AtOrAfter(k) == Min({ j \in keys : j >= k } \cup IF \E j \in keys : j >= k THEN {} ELSE {0})
           AtOrAhead(k) == Max({0} \cup { j \in keys : j <= k })
<1>1. /\ iter # Nothing
      /\ \/ Moves(IterSeekToFirst(it), AtOrAfter(1))
         \/ Moves(IterSeekToLast(it), AtOrAhead(NumKeys))
         \/ \E k \in 1 .. NumKeys : Moves(IterSeek(it, k), AtOrAfter(k))
         \/ it.valid /\ Moves(IterNext(it), AtOrAfter(iter.cursor + 1))
         \/ it.valid /\ Moves(IterPrev(it), AtOrAhead(iter.cursor - 1))
  BY DEF MoveIterator
<1>2. /\ iter \in [db : DBIters(C, U), live : BOOLEAN, cursor : Nat]
      /\ World(C, U) /\ 1 \in DOMAIN C
      /\ s \in 0 .. last_sequence /\ Complete(ops, Pool(C), s)
      /\ On(it, V) /\ iter.cursor = IF it.valid THEN Shown(it).key ELSE 0
  BY <1>1 DEF IterInv, Cursor
<1>3. it \in DBIters(C, U) /\ s \in Nat /\ Pool(C) \subseteq U
  BY <1>2 DEF DBIters, World, Separate, Pool
<1>4. NumKeys \in Nat /\ \A d \in U : 0 < d.key /\ d.key < NumKeys + 1
  BY WritesFor
<1> HIDE DEF C, keys
<1>5. ASSUME NEW t, NEW cursor, Moves(t, cursor), t \in DBIters(C, U), t.seq = s, On(t, V), cursor = Cursor(t)
      PROVE  IterInv'
  <2>1. /\ iter' = [iter EXCEPT !.db = t, !.cursor = cursor] /\ ops' = ops /\ last_sequence' = last_sequence
    BY <1>5 DEF Moves
  <2>2. cursor \in Nat
    <3>1. CASE t.valid
      <4>1. Shown(t) \in V /\ cursor = Shown(t).key
        BY <1>5, <3>1 DEF On, Shows, Cursor
      <4>2. Shown(t) \in U /\ Entries(U)
        BY <1>2, <1>3, <4>1 DEF Visible, World
      <4> QED
        BY <4>1, <4>2 DEF Entries
    <3>2. CASE ~t.valid
      BY <1>5, <3>2 DEF Cursor
    <3> QED
      BY <3>1, <3>2
  <2>3. t.in.children = C
    BY <1>5 DEF DBIters, Mergers, Positions
  <2>4. /\ iter' \in [db : DBIters(C, U), live : BOOLEAN, cursor : Nat] /\ iter'.db = t /\ iter'.cursor = cursor
    BY <1>2, <1>5, <2>1, <2>2
  <2>5. Children' = C /\ Range(ops') = U
    BY <2>1, <2>3, <2>4 DEF Children
  <2> HIDE DEF U
  <2> QED
    BY <1>2, <1>5, <2>1, <2>4, <2>5 DEF IterInv
<1> HIDE DEF U, it, s
<1>6. LET Does(t, b) == t \in DBIters(C, U) /\ t.seq = s /\ NextFrom(t, V, b)
      IN  /\ Does(IterSeekToFirst(it), 0)
          /\ \A k \in Nat \ {0} : Does(IterSeek(it, k), k - 1)
          /\ it.valid => Does(IterNext(it), Shown(it).key)
  BY <1>2, <1>3, <1>4, ForwardMoves DEF s
<1>7. LET Does(t, b) == t \in DBIters(C, U) /\ t.seq = s /\ PrevFrom(t, V, b)
      IN  /\ Does(IterSeekToLast(it), NumKeys + 1)
          /\ it.valid => Does(IterPrev(it), Shown(it).key)
  <2>1. NumKeys + 1 \in Nat
    BY <1>4
  <2> QED
    BY <1>2, <1>3, <1>4, <2>1, BackwardMoves DEF s
<1>8. ASSUME NEW t
      PROVE  /\ \A k \in Nat \ {0} : NextFrom(t, V, k - 1) => AtOrAfter(k) = Cursor(t)
             /\ \A k \in Nat : PrevFrom(t, V, k + 1) => AtOrAhead(k) = Cursor(t)
  <2> HIDE DEF U
  <2>1. Pool(C) \subseteq U /\ s \in 0 .. last_sequence /\ Complete(ops, Pool(C), s)
    BY <1>2, <1>3
  <2> QED
    BY <2>1, CursorIs, SMTT(60) DEF U, keys
<1> HIDE DEF V, AtOrAfter, AtOrAhead
<1>9. ASSUME NEW t, NEW b, NextFrom(t, V, b) \/ PrevFrom(t, V, b) PROVE On(t, V)
  BY <1>9 DEF NextFrom, PrevFrom
<1>10. ASSUME NEW t, NEW k \in Nat \ {0}, Moves(t, AtOrAfter(k)), t \in DBIters(C, U), t.seq = s, NextFrom(t, V, k - 1)
       PROVE  IterInv'
  BY <1>5, <1>8, <1>9, <1>10
<1>11. ASSUME NEW t, NEW k \in Nat, Moves(t, AtOrAhead(k)), t \in DBIters(C, U), t.seq = s, PrevFrom(t, V, k + 1)
       PROVE  IterInv'
  BY <1>5, <1>8, <1>9, <1>11
<1>12. CASE Moves(IterSeekToFirst(it), AtOrAfter(1))
  <2>1. 1 - 1 = 0 /\ 1 \in Nat \ {0}
    OBVIOUS
  <2>2. NextFrom(IterSeekToFirst(it), V, 1 - 1)
    BY <1>6, <2>1
  <2> QED
    BY <1>6, <1>10, <1>12, <2>1, <2>2
<1>13. CASE Moves(IterSeekToLast(it), AtOrAhead(NumKeys))
  BY <1>4, <1>7, <1>11, <1>13
<1>14. CASE \E k \in 1 .. NumKeys : Moves(IterSeek(it, k), AtOrAfter(k))
  <2>1. PICK k \in 1 .. NumKeys : Moves(IterSeek(it, k), AtOrAfter(k))
    BY <1>14
  <2>2. k \in Nat \ {0}
    BY <1>4
  <2> QED
    BY <1>6, <1>10, <2>1, <2>2
<1>15. it.valid => /\ iter.cursor = Shown(it).key /\ iter.cursor \in Nat \ {0}
                   /\ iter.cursor + 1 \in Nat \ {0} /\ (iter.cursor + 1) - 1 = iter.cursor
                   /\ iter.cursor - 1 \in Nat /\ (iter.cursor - 1) + 1 = iter.cursor
  <2> SUFFICES ASSUME it.valid
               PROVE  /\ iter.cursor = Shown(it).key /\ iter.cursor \in Nat \ {0}
                      /\ iter.cursor + 1 \in Nat \ {0} /\ (iter.cursor + 1) - 1 = iter.cursor
                      /\ iter.cursor - 1 \in Nat /\ (iter.cursor - 1) + 1 = iter.cursor
    OBVIOUS
  <2>1. iter.cursor = Shown(it).key /\ Shown(it) \in V /\ iter.cursor \in Nat
    BY <1>2 DEF On, Shows
  <2>2. Shown(it) \in U
    BY <1>3, <2>1 DEF V, Visible
  <2>3. 0 < iter.cursor
    BY <1>4, <2>1, <2>2
  <2> QED
    BY <2>1, <2>3
<1>16. CASE it.valid /\ Moves(IterNext(it), AtOrAfter(iter.cursor + 1))
  <2>1. NextFrom(IterNext(it), V, (iter.cursor + 1) - 1)
    BY <1>6, <1>15, <1>16
  <2> QED
    BY <1>6, <1>10, <1>15, <1>16, <2>1
<1>17. CASE it.valid /\ Moves(IterPrev(it), AtOrAhead(iter.cursor - 1))
  <2>1. PrevFrom(IterPrev(it), V, (iter.cursor - 1) + 1)
    BY <1>7, <1>15, <1>17
  <2> QED
    BY <1>7, <1>11, <1>15, <1>17, <2>1
<1>18. \/ Moves(IterSeekToFirst(it), AtOrAfter(1))
       \/ Moves(IterSeekToLast(it), AtOrAhead(NumKeys))
       \/ \E k \in 1 .. NumKeys : Moves(IterSeek(it, k), AtOrAfter(k))
       \/ it.valid /\ Moves(IterNext(it), AtOrAfter(iter.cursor + 1))
       \/ it.valid /\ Moves(IterPrev(it), AtOrAhead(iter.cursor - 1))
  BY <1>1 DEF AtOrAfter, AtOrAhead, keys, it, s
<1> QED
  BY <1>12, <1>13, <1>14, <1>16, <1>17, <1>18

\* A write grows the memtable it reads, or leaves it for a new one.
LEMMA WriteIter ==
    ASSUME NullApart, LevelTablesAssumption, Places, OpsInv', IterInv,
           NEW k \in 1 .. NumKeys, NEW type \in {"value", "deletion"}, Write(k, type)
    PROVE  IterInv'
<1> DEFINE e == [key |-> k, seq |-> last_sequence + 1, type |-> type]
           n == last_sequence
           C == Children
           U == Range(ops)
           T == U \cup {e}
           it == iter.db
           s == it.seq
           V == Visible(C, s)
<1>1. PICK full \in BOOLEAN :
        /\ last_sequence' = n + 1 /\ ops' = Append(ops, e)
        /\ iter' = IF full THEN Leaves(iter) ELSE Grows(iter, e)
  BY DEF Write
<1>2. OpsInv /\ ops \in Seq(Entry) /\ n \in Nat /\ n = Len(ops)
  BY DEF Places, OpsInv
<1>3. e.key = k /\ e.seq = n + 1 /\ e.seq \in Nat /\ e.type \in {"value", "deletion"} /\ e \in Entry
  <2>1. n + 1 \in Nat \ {0} /\ NumKeys \in Nat
    BY <1>2 DEF LevelTablesAssumption
  <2> QED
    BY <2>1 DEF Entry
<1> HIDE DEF e, n
<1>4. /\ ops' \in Seq(Entry) /\ Len(ops') = n + 1 /\ ops'[n + 1] = e
      /\ \A i \in 1 .. n : ops'[i] = ops[i]
  BY <1>1, <1>2, <1>3
<1>5. Range(ops') = T
  <2>1. DOMAIN ops' = 1 .. n + 1 /\ DOMAIN ops = 1 .. n
    BY <1>2, <1>4
  <2>2. 1 .. n + 1 = (1 .. n) \cup {n + 1}
    BY <1>2
  <2>3. \A x \in T : x \in Range(ops')
    BY <1>4, <2>1, <2>2 DEF Range
  <2>4. \A x \in Range(ops') : x \in T
    BY <1>4, <2>1, <2>2 DEF Range
  <2> QED
    BY <2>3, <2>4
<1>6. /\ Entries(T) /\ Typed(T) /\ Nothing \notin T
      /\ e \notin U /\ U \subseteq T
  <2>1. Entries(U) /\ Typed(U) /\ Nothing \notin U
    BY <1>2, WritesFor
  <2>2. \A d \in U : d.seq \in Nat /\ d.seq # n + 1
    BY <1>2, WriteAt
  <2>3. e # Nothing /\ e.key \in Nat
    BY <1>3 DEF NullApart
  <2> HIDE DEF U
  <2>4. e \notin U
    BY <1>3, <2>2
  <2>5. Entries(T)
    BY <1>3, <2>1, <2>2, <2>3 DEF Entries
  <2> QED
    BY <1>3, <2>1, <2>3, <2>4, <2>5 DEF Typed
<1> SUFFICES ASSUME iter # Nothing, iter' # Nothing
             PROVE  /\ iter' \in [db : DBIters(Children', T), live : BOOLEAN, cursor : Nat]
                    /\ World(Children', T) /\ 1 \in DOMAIN Children'
                    /\ iter'.db.seq \in 0 .. n + 1 /\ Complete(ops', Pool(Children'), iter'.db.seq)
                    /\ On(iter'.db, Visible(Children', iter'.db.seq))
                    /\ iter'.cursor = Cursor(iter'.db)
  <2>1. iter = Nothing => iter' = Nothing
    BY <1>1 DEF Leaves, Grows
  <2> HIDE DEF T
  <2> QED
    BY <1>1, <1>5, <2>1 DEF IterInv
<1>7. /\ iter \in [db : DBIters(C, U), live : BOOLEAN, cursor : Nat]
      /\ World(C, U) /\ 1 \in DOMAIN C
      /\ s \in 0 .. n /\ Complete(ops, Pool(C), s)
      /\ On(it, V) /\ iter.cursor = Cursor(it)
  BY DEF IterInv, n
<1>8. s \in 0 .. n + 1 /\ s \in Nat /\ s < e.seq
  BY <1>2, <1>3, <1>7
<1> HIDE DEF U
<1>9. it \in DBIters(C, U)
  BY <1>7
<1>10. \A P : Complete(ops, P, s) => Complete(ops', P, s) /\ Complete(ops', P \cup {e}, s)
  <2> SUFFICES ASSUME NEW P, Complete(ops, P, s) PROVE Complete(ops', P, s) /\ Complete(ops', P \cup {e}, s)
    OBVIOUS
  <2>1. Hits(P \cup {e}, e.key, s) = Hits(P, e.key, s) /\ \A j : Hits(P \cup {e}, j, s) = Hits(P, j, s)
    <3>1. ~(e.seq <= s)
      BY <1>3, <1>8
    <3> QED
      BY <3>1 DEF Hits
  <2> HIDE DEF s
  <2>2. \A i \in 1 .. s : ops'[i] = ops[i] /\ \A j \in i + 1 .. s : ops'[j] = ops[j]
    <3>1. \A i \in 1 .. s : i \in 1 .. n
      BY <1>2, <1>7
    <3>2. \A i \in 1 .. s : \A j \in i + 1 .. s : j \in 1 .. s
      OBVIOUS
    <3> QED
      BY <1>4, <3>1, <3>2
  <2>3. \A i \in 1 .. s : (\A j \in i + 1 .. s : ops'[j].key # ops'[i].key)
        => ops[i] \in P \/ (ops[i].type = "deletion" /\ Hits(P, ops[i].key, s) = {})
    BY <2>2 DEF Complete
  <2> QED
    BY <2>1, <2>2, <2>3 DEF Complete
<1>11. CASE ~(~full /\ iter.live)
  <2>1. /\ iter'.db = it /\ iter'.cursor = iter.cursor /\ Children' = C
        /\ iter' \in [db : DBIters(C, U), live : BOOLEAN, cursor : Nat]
    <3>1. iter' = [iter EXCEPT !.live = FALSE] \/ iter' = iter
      BY <1>1, <1>11 DEF Leaves, Grows
    <3>2. iter'.db = it /\ iter'.cursor = iter.cursor /\ iter' \in [db : DBIters(C, U), live : BOOLEAN, cursor : Nat]
      BY <1>7, <3>1
    <3> QED
      BY <3>2 DEF Children
  <2>2. World(C, T) /\ DBIters(C, U) \subseteq DBIters(C, T)
    BY <1>6, <1>7, WorldWider
  <2> HIDE DEF C, it, s, T
  <2>3. iter' \in [db : DBIters(C, T), live : BOOLEAN, cursor : Nat]
    BY <2>1, <2>2
  <2>4. iter'.db.seq = s
    BY <2>1 DEF s
  <2> QED
    BY <1>7, <1>8, <1>10, <2>1, <2>2, <2>3, <2>4
<1>12. CASE ~full /\ iter.live
  <2> DEFINE D == [C EXCEPT ![1] = @ \cup {e}]
             t == [it EXCEPT !.in.children[1] = @ \cup {e}]
  <2>1. iter' = [iter EXCEPT !.db.in.children[1] = @ \cup {e}]
    BY <1>1, <1>12 DEF Grows
  <2>2. /\ World(D, T) /\ t \in DBIters(D, T) /\ t.in.children = D
        /\ t.seq = s /\ Visible(D, s) = V /\ On(t, V)
        /\ Pool(D) = Pool(C) \cup {e} /\ 1 \in DOMAIN D
        /\ t.valid = it.valid /\ Shown(t) = Shown(it)
    <3> HIDE DEF C, it, D, t
    <3>1. Grown(C, e, D) /\ GrownIter(it, e, t)
      BY DEF D, t, Grown, GrownIter
    <3>2. Enters(e, U, it.seq)
      BY <1>3, <1>6, <1>8 DEF Enters
    <3>3. World(C, U) /\ it \in DBIters(C, U) /\ On(it, Visible(C, it.seq)) /\ 1 \in DOMAIN C
      BY <1>7, <1>9
    <3>4. Growth(U, C, it, e, D, t)
      BY <3>1, <3>2, <3>3 DEF Growth
    <3>5. /\ World(D, With(U, e)) /\ t \in DBIters(D, With(U, e)) /\ t.in.children = D
          /\ t.seq = it.seq /\ t.valid = it.valid /\ Shown(t) = Shown(it)
          /\ Visible(D, it.seq) = Visible(C, it.seq) /\ On(t, Visible(C, it.seq))
          /\ Pool(D) = With(Pool(C), e) /\ 1 \in DOMAIN D
      BY <3>4, GrowsIs
    <3> QED
      BY <3>5 DEF With
  <2>3. iter'.db = t /\ iter'.cursor = iter.cursor /\ iter'.live = TRUE /\ iter' = [iter EXCEPT !.db = t]
    BY <1>7, <1>12, <2>1
  <2> HIDE DEF D, t, C, it, s, T, V
  <2>4. iter' \in [db : DBIters(D, T), live : BOOLEAN, cursor : Nat]
    BY <1>7, <2>2, <2>3
  <2>5. Children' = D
    BY <2>2, <2>3 DEF Children
  <2>6. Cursor(t) = Cursor(it)
    BY <2>2 DEF Cursor
  <2> QED
    BY <1>7, <1>8, <1>10, <2>2, <2>3, <2>4, <2>5, <2>6
<1> QED
  BY <1>11, <1>12

\* The switch before a manual compaction leaves it too.
LEMMA ForceSwitchIter ==
    ASSUME IterInv, ForceSwitch
    PROVE  IterInv'
<1>1. iter' = Leaves(iter) /\ ops' = ops /\ last_sequence' = last_sequence
  BY DEF ForceSwitch
<1>2. CASE iter = Nothing
  BY <1>1, <1>2 DEF Leaves, IterInv
<1>3. CASE iter # Nothing
  <2>1. iter' = [iter EXCEPT !.live = FALSE]
    BY <1>1, <1>3 DEF Leaves
  <2>2. iter \in [db : DBIters(Children, Range(ops)), live : BOOLEAN, cursor : Nat]
    BY <1>3 DEF IterInv
  <2>3. /\ iter'.db = iter.db /\ iter'.cursor = iter.cursor
        /\ iter' \in [db : DBIters(Children, Range(ops)), live : BOOLEAN, cursor : Nat]
    BY <2>1, <2>2
  <2>4. Children' = Children
    BY <2>3 DEF Children
  <2> QED
    BY <1>1, <1>3, <2>3, <2>4 DEF IterInv
<1> QED
  BY <1>2, <1>3

\* What leaves the iterator and the writes alone keeps it.
LEMMA OtherIter ==
    ASSUME IterInv, UNCHANGED <<ops, last_sequence, iter>>
    PROVE  IterInv'
<1>1. Children' = Children
  BY DEF Children
<1> QED
  BY <1>1 DEF IterInv

\* All hold together, until a compaction went wrong.
IterOrNot == hole \/ parted \/ IterInv

LEMMA NextIter ==
    ASSUME NullApart, FoundOrNot, IterOrNot, LevelTablesAssumption, [Next]_vars
    PROVE  IterOrNot'
<1>1. (hole => hole') /\ (parted => parted')
  BY FaultsStay
<1> SUFFICES ASSUME ~hole', ~parted' PROVE IterInv'
  BY DEF IterOrNot
<1>2. Places /\ Found /\ IterInv
  BY <1>1 DEF FoundOrNot, IterOrNot
<1>3. FoundOrNot'
  BY NextFound
<1>4. OpsInv /\ OpsInv'
  BY <1>2, <1>3 DEF FoundOrNot, Places
<1>5. CASE \E k \in 1 .. NumKeys : Write(k, "value") \/ Write(k, "deletion")
  BY <1>2, <1>4, <1>5, WriteIter
<1>6. CASE \E s \in snapshots \cup {last_sequence} : NewIterator(s)
  BY <1>2, <1>6, NewIteratorIter
<1>7. CASE MoveIterator
  BY <1>2, <1>4, <1>7, MoveIteratorIter
<1>8. CASE ForceSwitch
  BY <1>2, <1>8, ForceSwitchIter
<1>9. CASE \/ \E k \in 1 .. NumKeys : ChargeSeek(k)
           \/ RecordReadSample \/ GetSnapshot \/ \E s \in snapshots : ReleaseSnapshot(s)
           \/ CompactRange \/ PostRange \/ RangeDone \/ UNCHANGED vars
  <2>1. UNCHANGED <<ops, last_sequence, iter>>
    BY <1>9 DEF ChargeSeek, RecordReadSample, GetSnapshot, ReleaseSnapshot, CompactRange, PostRange, RangeDone,
                vars, memVars
  <2> QED
    BY <1>2, <2>1, OtherIter
<1>10. CASE CompactMemTable \/ StartCompaction \/ StartRange \/ FinishCompaction
  <2>1. UNCHANGED <<ops, last_sequence, iter>>
    BY <1>10 DEF CompactMemTable, StartCompaction, StartRange, FinishCompaction, memVars
  <2> QED
    BY <1>2, <2>1, OtherIter
<1> QED
  BY <1>5, <1>6, <1>7, <1>8, <1>9, <1>10 DEF Next, Background

\* An iterator shows the keys its snapshot has, in order and back, with their values then, for any
\* number of keys, levels, writes and moves, whatever is written and compacted meanwhile, unless a
\* compaction had gone wrong.
THEOREM IteratorCorrect ==
    ASSUME NullApart
    PROVE  Spec => []IteratorRight
<1> USE LevelTablesAssumption, StartsAssumption, NullApart
<1>1. Init => FoundOrNot /\ IterOrNot
  <2>1. Init => IterOrNot
    BY DEF Init, IterOrNot, IterInv
  <2> QED
    BY <2>1, InitPlaces, InitFound DEF FoundOrNot
<1>2. FoundOrNot /\ IterOrNot /\ [Next]_vars => FoundOrNot' /\ IterOrNot'
  BY NextFound, NextIter
<1>3. FoundOrNot /\ IterOrNot => IteratorRight
  <2>1. CASE hole \/ parted
    BY <2>1 DEF IteratorRight
  <2>2. CASE ~hole /\ ~parted
    BY <2>2, IterShows DEF FoundOrNot, IterOrNot, Places
  <2> QED
    BY <2>1, <2>2
<1> QED
  BY <1>1, <1>2, <1>3, PTL DEF Spec
=============================================================================
