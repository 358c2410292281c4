-------------------------- MODULE LevelStoreProofs --------------------------
(***************************************************************************)
(* LevelDB for any number of writes of any size, any number of errors and  *)
(* crashes, and blocks, buffers and triggers of any size.                  *)
(*                                                                         *)
(* First the log, as LogFormat has it: what the reader makes of a file     *)
(* that was written, perhaps not to the end, and cut anywhere.  A file is  *)
(* Written when, in front of each middle and last part in it, the part it  *)
(* follows stands whole; appends and cuts keep it so, and the reader, who  *)
(* skips less than a header where it does not start again, then puts no    *)
(* parts together that do not belong together.  The functions the model    *)
(* defines by recursion are reached with LoopExists and RecursionExists of *)
(* SequenceLemmas: a function with the recursive equation exists, and then *)
(* what holds of its values.                                               *)
(*                                                                         *)
(* Then the store, by invariants each of which is inductive under those    *)
(* before it:                                                              *)
(*                                                                         *)
(*   - the queue of writers (QueueInv);                                    *)
(*   - what each part of the state is made of, above all that each log is  *)
(*     Written, so that recovery reads no batch that was not written whole *)
(*     (StoreInv);                                                         *)
(*   - the tables on disk: those of every version a crash may leave in the *)
(*     MANIFEST are synced and in use (FilesInv);                          *)
(*   - the sequence numbers: no two records that the store or a crash has  *)
(*     left anywhere have one in common (FreshInv).                        *)
(***************************************************************************)
EXTENDS LevelStore, SequenceLemmas

-----------------------------------------------------------------------------
(* What AddRecord emits *)

Parts(O, size) ==
  { p \in PhysicalsOf(O) : /\ p.type \in {"full", "first"} => p.from = 0
                           /\ p.type \in {"full", "last"} => p.from + p.len = size[p.of] }

\* The part that follows another.
Continues(p, q) ==
  /\ p.type \in {"first", "middle"} /\ q.type \in {"middle", "last"}
  /\ q.of = p.of /\ q.from = p.from + p.len

EmissionsOf(parts) == [trailer : 0 .. HeaderSize - 1, record : parts, offset : 0 .. BlockSize]

\* The emissions of one record, or of what is left of it.
Chained(es) ==
  /\ es # <<>>
  /\ \A k \in 2 .. Len(es) : Continues(es[k - 1].record, es[k].record)
  /\ es[Len(es)].record.type \in {"full", "last"}

\* The place in a block an emission is made for, and the one it leaves.
Fits(e, at) ==
  LET full == BlockSize - at < HeaderSize
  IN  /\ e.trailer = IF full THEN BlockSize - at ELSE 0
      /\ e.offset = (IF full THEN 0 ELSE at) + HeaderSize + e.record.len

\* Emissions of which each goes on where the one before it ended.
FitTogether(es, at) == Fits(es[1], at) /\ \A k \in 2 .. Len(es) : Fits(es[k], es[k - 1].offset)

\* Once around the loop.
LEMMA EmissionIs ==
    ASSUME NEW O, NEW of \in O, NEW len \in Nat, NEW s \in LoopStates(len)
    PROVE  LET e == Emission(of, len, s)
           IN  /\ e \in EmissionsOf(PhysicalsOf(O))
               /\ e.record.of = of /\ e.record.from = s.from /\ Fits(e, s.at)
               /\ e.record.from + e.record.len \in 0 .. len
               /\ e.record.type = IF e.record.from + e.record.len = len
                                  THEN IF s.begin THEN "full" ELSE "last"
                                  ELSE IF s.begin THEN "first" ELSE "middle"
               /\ e.record.from + e.record.len # len => \/ e.record.len > 0
                                                        \/ BlockSize - s.at = HeaderSize /\ e.offset = BlockSize
<1> DEFINE leftover == BlockSize - s.at
           full == leftover < HeaderSize
           start == IF full THEN 0 ELSE s.at
           avail == BlockSize - start - HeaderSize
           n == IF len - s.from < avail THEN len - s.from ELSE avail
           end == s.from + n = len
           type == IF s.begin THEN IF end THEN "full" ELSE "first"
                              ELSE IF end THEN "last" ELSE "middle"
           e == [trailer |-> IF full THEN leftover ELSE 0,
                 record  |-> Physical(type, of, s.from, n),
                 offset  |-> start + HeaderSize + n]
<1>1. /\ BlockSize \in Nat /\ HeaderSize \in Nat /\ HeaderSize > 0 /\ BlockSize > HeaderSize
      /\ s.at \in 0 .. BlockSize /\ s.from \in 0 .. len /\ s.begin \in BOOLEAN
  BY LogFormatAssumption DEF LoopStates
<1>2. /\ start \in 0 .. BlockSize /\ avail \in Nat /\ leftover \in Nat
      /\ start + HeaderSize + avail = BlockSize
      /\ full => avail > 0
      /\ ~full /\ avail = 0 => leftover = HeaderSize /\ start + HeaderSize = BlockSize
  BY <1>1
<1> HIDE DEF avail, start
<1>3. n \in Nat /\ n <= avail /\ s.from + n \in 0 .. len
  BY <1>1, <1>2
<1>4. ~end => n = avail
  BY <1>1, <1>2
<1>5. (IF full THEN leftover ELSE 0) \in 0 .. HeaderSize - 1 /\ start + HeaderSize + n \in 0 .. BlockSize
  BY <1>1, <1>2, <1>3
<1>6. type \in {"full", "first", "middle", "last"}
  OBVIOUS
<1> DEFINE t == IF full THEN leftover ELSE 0
           a == start + HeaderSize + n
<1>7. e = [trailer |-> t, record |-> Physical(type, of, s.from, n), offset |-> a]
  OBVIOUS
<1>8. Emission(of, len, s) = e
  BY DEF Emission, start, avail
<1>9. type = IF s.from + n = len THEN IF s.begin THEN "full" ELSE "last"
             ELSE IF s.begin THEN "first" ELSE "middle"
  OBVIOUS
<1>10. s.from + n # len => n > 0 \/ (leftover = HeaderSize /\ a = BlockSize)
  BY <1>1, <1>2, <1>3, <1>4
<1>11. t \in 0 .. HeaderSize - 1 /\ a \in 0 .. BlockSize
  BY <1>5
<1>12. /\ t = IF BlockSize - s.at < HeaderSize THEN BlockSize - s.at ELSE 0
       /\ a = (IF BlockSize - s.at < HeaderSize THEN 0 ELSE s.at) + HeaderSize + n
  BY DEF start
<1> HIDE DEF e, n, type, t, a
<1> QED
  BY <1>1, <1>3, <1>6, <1>7, <1>8, <1>9, <1>10, <1>11, <1>12 DEF EmissionsOf, PhysicalsOf, Physical, Fits

\* What the loop of AddRecord emits.
LEMMA EmissionsAre ==
    ASSUME NEW O, NEW size \in [O -> Nat], NEW of \in O, NEW offset \in 0 .. BlockSize
    PROVE  LET es == Emissions(of, size[of], offset)
           IN  /\ es \in Seq(EmissionsOf(Parts(O, size)))
               /\ Chained(es) /\ FitTogether(es, offset)
               /\ es[1].record.type \in {"full", "first"}
               /\ \A k \in 1 .. Len(es) : es[k].record.of = of
<1> DEFINE len == size[of]
           D == LoopStates(len)
           E(s) == Emission(of, len, s)
           last(s) == E(s).record.type \in {"full", "last"}
           V == Seq(EmissionsOf(PhysicalsOf(O)))
           W == Seq(EmissionsOf(Parts(O, size)))
           Body(f, s) == LET e == Emission(of, len, s)
                         IN  IF e.record.type \in {"full", "last"} THEN <<e>> ELSE <<e>> \o f[AfterEmission(e)]
           m == [s \in D |-> 2 * (len - s.from) + IF BlockSize - s.at = HeaderSize THEN 1 ELSE 0]
           stop == { s \in D : last(s) }
           next == [s \in D |-> AfterEmission(E(s))]
           b == [s \in D |-> <<E(s)>>]
           F == [s \in D |-> [v \in V |-> <<E(s)>> \o v]]
<1>1. /\ BlockSize \in Nat /\ HeaderSize \in Nat /\ HeaderSize > 0 /\ BlockSize > HeaderSize /\ len \in Nat
  BY LogFormatAssumption
<1> HIDE DEF len
<1>2. ASSUME NEW s \in D
      PROVE  /\ E(s) \in EmissionsOf(PhysicalsOf(O))
             /\ E(s).record.of = of /\ E(s).record.from = s.from /\ Fits(E(s), s.at)
             /\ E(s).record.from + E(s).record.len \in 0 .. len
             /\ E(s).record.type = IF E(s).record.from + E(s).record.len = len
                                   THEN IF s.begin THEN "full" ELSE "last"
                                   ELSE IF s.begin THEN "first" ELSE "middle"
             /\ E(s).record.from + E(s).record.len # len
                  => \/ E(s).record.len > 0
                     \/ BlockSize - s.at = HeaderSize /\ E(s).offset = BlockSize
  BY <1>1, EmissionIs
<1> HIDE DEF E
<1>3. ASSUME NEW s \in D
      PROVE  s.from \in 0 .. len /\ s.at \in 0 .. BlockSize /\ s.begin \in BOOLEAN
  BY DEF LoopStates
<1>4. m \in [D -> Nat]
  BY <1>1, <1>3
<1>5. ASSUME NEW s \in D, ~last(s)
      PROVE  AfterEmission(E(s)) \in D /\ m[AfterEmission(E(s))] < m[s]
  <2>1. /\ E(s).record \in PhysicalsOf(O) /\ E(s).offset \in 0 .. BlockSize
        /\ E(s).record.from \in Nat /\ E(s).record.len \in Nat
    BY <1>2 DEF EmissionsOf, PhysicalsOf
  <2>2. AfterEmission(E(s)) = [from |-> E(s).record.from + E(s).record.len, at |-> E(s).offset, begin |-> FALSE]
    BY DEF AfterEmission
  <2>3. AfterEmission(E(s)) \in D
    BY <1>2, <2>1, <2>2 DEF LoopStates
  <2> DEFINE t == AfterEmission(E(s))
             x == IF BlockSize - s.at = HeaderSize THEN 1 ELSE 0
             y == IF BlockSize - t.at = HeaderSize THEN 1 ELSE 0
             n == E(s).record.len
  <2>4. t.from = s.from + n /\ t.from \in 0 .. len /\ t.at = E(s).offset /\ n \in Nat
    BY <1>2, <2>1, <2>2
  <2>5. m[t] = 2 * (len - t.from) + y /\ m[s] = 2 * (len - s.from) + x
    BY <2>3
  <2>6. n > 0 \/ (x = 1 /\ y = 0)
    <3>1. E(s).record.from + E(s).record.len # len
      BY <1>2, <1>5
    <3> QED
      BY <3>1, <2>4, <1>1, <1>2
  <2>7. x \in {0, 1} /\ y \in {0, 1}
    OBVIOUS
  <2>8. 2 * (len - t.from) + y < 2 * (len - s.from) + x
    <3> HIDE DEF t, x, y, n
    <3> QED
      BY <2>4, <2>6, <2>7, <1>1, <1>3
  <2> QED
    BY <2>3, <2>5, <2>8
<1>6. ASSUME NEW s \in D
      PROVE  <<E(s)>> \in V /\ [v \in V |-> <<E(s)>> \o v] \in [V -> V]
  <2>1. <<E(s)>> \in V
    BY <1>2
  <2> HIDE DEF E
  <2>2. \A v \in V : <<E(s)>> \o v \in V
    BY <2>1, ConcatProperties
  <2> QED
    BY <2>1, <2>2
<1>7. \E f : Solves(f, D, V, stop, next, b, F)
  <2>1. \A s \in D : s \in stop => b[s] \in V
    BY <1>6
  <2>2. \A s \in D : s \notin stop => next[s] \in D /\ m[next[s]] < m[s] /\ F[s] \in [V -> V]
    BY <1>5, <1>6
  <2>3. RecursionOn(D, V, m, stop, next, b, F)
    <3> HIDE DEF D, V, m, stop, next, b, F
    <3> QED
      BY <1>4, <2>1, <2>2 DEF RecursionOn
  <2> HIDE DEF D, V, m, stop, next, b, F
  <2> QED
    BY <2>3, RecursionExists
<1>8. \E f : f = [s \in D |-> Body(f, s)]
  <2>1. PICK f \in [D -> V] : \A s \in D : f[s] = IF s \in stop THEN b[s] ELSE F[s][f[next[s]]]
    BY <1>7 DEF Solves
  <2>2. ASSUME NEW s \in D
        PROVE  f[s] = Body(f, s)
    <3>1. CASE last(s)
      BY <2>1, <3>1 DEF E
    <3>2. CASE ~last(s)
      <4>1. f[AfterEmission(E(s))] \in V
        BY <1>5, <3>2
      <4> QED
        BY <2>1, <3>2, <4>1 DEF E
    <3> QED
      BY <3>1, <3>2
  <2> HIDE DEF D, V, Body
  <2> QED
    BY <2>1, <2>2
<1> DEFINE emit == CHOOSE emit : emit = [s \in D |-> Body(emit, s)]
<1>9. emit = [s \in D |-> Body(emit, s)]
  <2> HIDE DEF Body, D
  <2> QED
    BY <1>8
<1>10. Emissions(of, len, offset) = emit[[from |-> 0, at |-> offset, begin |-> TRUE]]
  BY DEF Emissions
<1> HIDE DEF emit
<1>11. ASSUME NEW s \in D
       PROVE  emit[s] = IF last(s) THEN <<E(s)>> ELSE <<E(s)>> \o emit[AfterEmission(E(s))]
  BY <1>9 DEF E
<1> DEFINE Good(s) == s.begin => s.from = 0
           Right(es, s) == /\ es \in W /\ Chained(es) /\ FitTogether(es, s.at)
                           /\ es[1].record.from = s.from
                           /\ es[1].record.type \in IF s.begin THEN {"full", "first"} ELSE {"last", "middle"}
                           /\ \A k \in 1 .. Len(es) : es[k].record.of = of
           S == { n \in Nat : \A s \in D : m[s] = n /\ Good(s) => Right(emit[s], s) }
<1>12. ASSUME NEW s \in D, Good(s)
       PROVE  E(s) \in EmissionsOf(Parts(O, size))
  <2>1. E(s).record \in PhysicalsOf(O)
    BY <1>2 DEF EmissionsOf
  <2>2. E(s).record \in Parts(O, size)
    BY <1>2, <1>3, <1>12, <2>1 DEF Parts, len
  <2> HIDE DEF D
  <2> QED
    BY <1>2, <2>2 DEF EmissionsOf
<1>13. ASSUME NEW n \in Nat, \A k \in Nat : k < n => k \in S
       PROVE  n \in S
  <2> SUFFICES ASSUME NEW s \in D, m[s] = n, Good(s)
               PROVE  Right(emit[s], s)
    OBVIOUS
  <2> DEFINE e == E(s)
             t == AfterEmission(e)
  <2>1. e \in EmissionsOf(Parts(O, size)) /\ e.record.of = of /\ e.record.from = s.from
    BY <1>2, <1>12
  <2>2. e.record.type \in IF s.begin THEN {"full", "first"} ELSE {"last", "middle"}
    BY <1>2
  <2>3. CASE last(s)
    <3>1. emit[s] = <<e>>
      BY <1>11, <2>3
    <3>2. <<e>> \in W /\ Len(<<e>>) = 1 /\ <<e>>[1] = e /\ <<e>> # <<>>
      BY <2>1
    <3> HIDE DEF e, W, E
    <3>3. Chained(<<e>>)
      BY <3>2, <2>3 DEF Chained, e
    <3>4. FitTogether(<<e>>, s.at)
      BY <3>2, <1>2 DEF FitTogether, e
    <3> QED
      BY <3>1, <3>2, <3>3, <3>4, <2>1, <2>2
  <2>4. CASE ~last(s)
    <3>1. emit[s] = <<e>> \o emit[t]
      BY <1>11, <2>4
    <3>2. t \in D /\ m[t] < n /\ m[t] \in Nat
      BY <1>5, <1>4, <2>4
    <3>3. t.from = e.record.from + e.record.len /\ t.begin = FALSE /\ t.at = e.offset
      BY DEF AfterEmission
    <3>4. Right(emit[t], t)
      <4> HIDE DEF Right, t, D, m
      <4> QED
        BY <3>2, <3>3, <1>13
    <3> DEFINE rest == emit[t]
               es == <<e>> \o rest
    <3>5. /\ rest \in W /\ Chained(rest) /\ rest[1].record.from = e.record.from + e.record.len
          /\ FitTogether(rest, e.offset)
          /\ rest[1].record.type \in {"last", "middle"}
          /\ \A k \in 1 .. Len(rest) : rest[k].record.of = of
      BY <3>3, <3>4
    <3> HIDE DEF rest, e, t, W
    <3>6. /\ es \in W /\ Len(es) = Len(rest) + 1 /\ Len(rest) \in Nat /\ Len(rest) > 0
          /\ es[1] = e /\ \A k \in 2 .. Len(es) : es[k] = rest[k - 1]
      <4>1. <<e>> \in W /\ Len(<<e>>) = 1 /\ <<e>>[1] = e
        BY <2>1 DEF W
      <4>2. rest # <<>>
        BY <3>5 DEF Chained
      <4> QED
        BY <4>1, <4>2, <3>5, ConcatProperties, EmptySeq DEF W
    <3>7. Continues(e.record, rest[1].record)
      <4>1. e.record.type \in {"first", "middle"}
        BY <2>2, <2>4 DEF e
      <4> QED
        BY <4>1, <3>5, <3>6, <2>1 DEF Continues
    <3>8. Chained(es)
      <4>1. ASSUME NEW k \in 2 .. Len(es)
            PROVE  Continues(es[k - 1].record, es[k].record)
        <5>1. CASE k = 2
          BY <5>1, <3>6, <3>7
        <5>2. CASE k # 2
          <6>1. k - 1 \in 2 .. Len(rest) /\ k - 1 \in 2 .. Len(es) /\ (k - 1) - 1 \in Int
            BY <5>2, <3>6
          <6>2. es[k - 1] = rest[(k - 1) - 1] /\ es[k] = rest[k - 1]
            BY <6>1, <3>6
          <6>3. Continues(rest[(k - 1) - 1].record, rest[k - 1].record)
            BY <6>1, <3>5 DEF Chained
          <6> QED
            BY <6>2, <6>3
        <5> QED
          BY <5>1, <5>2
      <4>2. es[Len(es)] = rest[Len(rest)]
        BY <3>6
      <4>3. es # <<>>
        BY <3>6, EmptySeq DEF W
      <4> HIDE DEF es
      <4> QED
        BY <4>1, <4>2, <4>3, <3>5 DEF Chained
    <3>9. \A k \in 1 .. Len(es) : es[k].record.of = of
      BY <3>5, <3>6, <2>1
    <3>10. FitTogether(es, s.at)
      <4>1. Fits(es[1], s.at)
        BY <3>6, <1>2 DEF e
      <4>2. ASSUME NEW k \in 2 .. Len(es)
            PROVE  Fits(es[k], es[k - 1].offset)
        <5>1. CASE k = 2
          BY <5>1, <3>5, <3>6 DEF FitTogether
        <5>2. CASE k # 2
          <6>1. k - 1 \in 2 .. Len(rest) /\ k - 1 \in 2 .. Len(es) /\ (k - 1) - 1 \in Int
            BY <5>2, <3>6
          <6>2. es[k - 1] = rest[(k - 1) - 1] /\ es[k] = rest[k - 1]
            BY <6>1, <3>6
          <6>3. Fits(rest[k - 1], rest[(k - 1) - 1].offset)
            BY <6>1, <3>5 DEF FitTogether
          <6> QED
            BY <6>2, <6>3
        <5> QED
          BY <5>1, <5>2
      <4> HIDE DEF es
      <4> QED
        BY <4>1, <4>2 DEF FitTogether
    <3> HIDE DEF es
    <3> QED
      BY <3>1, <3>6, <3>8, <3>9, <3>10, <2>1, <2>2 DEF es, rest, e
  <2> QED
    BY <2>3, <2>4
<1>14. \A n \in Nat : n \in S
  <2> HIDE DEF S
  <2> QED
    BY <1>13, SetInduction
<1> DEFINE s0 == [from |-> 0, at |-> offset, begin |-> TRUE]
<1>15. s0 \in D /\ Good(s0) /\ s0.begin /\ s0.at = offset
  BY <1>1 DEF LoopStates
<1>16. m[s0] \in Nat
  BY <1>4, <1>15
<1>17. Right(emit[s0], s0)
  <2> HIDE DEF Right, s0, m, D
  <2> QED
    BY <1>14, <1>15, <1>16
<1>18. Emissions(of, size[of], offset) = emit[s0]
  BY <1>10 DEF len
<1> HIDE DEF s0
<1> QED
  BY <1>15, <1>17, <1>18

-----------------------------------------------------------------------------
(* What a log file holds *)

BytesOf(parts) == {ZeroByte} \cup (parts \X Nat)

\* The bytes of a part end at a place.
EndsAt(file, p, i) ==
  /\ i >= HeaderSize + p.len
  /\ \A j \in 1 .. HeaderSize + p.len : file[i - (HeaderSize + p.len) + j] = <<p, j>>

\* Before a place there is, but for a trailer, the part that q follows.
Preceded(file, i, q, parts) ==
  \E p \in parts, z \in 0 .. HeaderSize - 1 :
    /\ Continues(p, q)
    /\ i - 1 - z \in Nat
    /\ EndsAt(file, p, i - 1 - z)
    /\ \A j \in 1 .. z : file[i - j] = ZeroByte

\* What a log file can be, however far it was written, and cut: where a middle or
\* last part begins, the part it follows is in front of it.
Written(file, parts) ==
  /\ file \in Seq(BytesOf(parts))
  /\ \A i \in 1 .. Len(file), q \in parts :
       file[i] = <<q, 1>> /\ q.type \in {"middle", "last"} => Preceded(file, i, q, parts)

\* Whether a record stands where a record before it ends is a matter of the bytes before it.
LEMMA PrecededSame ==
    ASSUME NEW parts, \A p \in parts : p.len \in Nat,
           NEW file, NEW g, NEW i \in Nat, NEW q,
           \A k \in 1 .. i - 1 : g[k] = file[k],
           Preceded(file, i, q, parts)
    PROVE  Preceded(g, i, q, parts)
<1>1. PICK p \in parts, z \in 0 .. HeaderSize - 1 :
        /\ Continues(p, q)
        /\ i - 1 - z \in Nat
        /\ EndsAt(file, p, i - 1 - z)
        /\ \A j \in 1 .. z : file[i - j] = ZeroByte
  BY DEF Preceded
<1> DEFINE n == HeaderSize + p.len
           at == i - 1 - z
<1>2. HeaderSize \in Nat /\ p.len \in Nat /\ z \in Nat
  BY LogFormatAssumption
<1>3. at >= n /\ \A j \in 1 .. n : file[at - n + j] = <<p, j>>
  BY <1>1 DEF EndsAt
<1>4. ASSUME NEW j \in 1 .. n
      PROVE  g[at - n + j] = <<p, j>>
  <2>1. at - n + j \in 1 .. i - 1
    BY <1>1, <1>2, <1>3
  <2> QED
    BY <1>3, <2>1
<1>5. ASSUME NEW j \in 1 .. z
      PROVE  g[i - j] = ZeroByte
  <2>1. i - j \in 1 .. i - 1
    BY <1>1, <1>2
  <2> QED
    BY <1>1, <2>1
<1>6. EndsAt(g, p, at)
  BY <1>3, <1>4 DEF EndsAt
<1> QED
  BY <1>1, <1>5, <1>6 DEF Preceded

\* What a crash leaves of a file that is written as Written says is written so too.
LEMMA WrittenPrefix ==
    ASSUME NEW parts, \A p \in parts : p.len \in Nat,
           NEW file, Written(file, parts), NEW n \in 0 .. Len(file)
    PROVE  Written(SubSeq(file, 1, n), parts)
<1> DEFINE g == SubSeq(file, 1, n)
<1>1. file \in Seq(BytesOf(parts)) /\ Len(file) \in Nat
  BY DEF Written
<1>2. g \in Seq(BytesOf(parts)) /\ Len(g) = n /\ \A k \in 1 .. n : g[k] = file[k]
  BY <1>1
<1> HIDE DEF g
<1>3. ASSUME NEW i \in 1 .. Len(g), NEW q \in parts, g[i] = <<q, 1>>, q.type \in {"middle", "last"}
      PROVE  Preceded(g, i, q, parts)
  <2>1. i \in 1 .. Len(file) /\ file[i] = <<q, 1>>
    BY <1>1, <1>2, <1>3
  <2>2. Preceded(file, i, q, parts)
    BY <1>3, <2>1 DEF Written
  <2>3. i \in Nat /\ \A k \in 1 .. i - 1 : g[k] = file[k]
    BY <1>2
  <2> QED
    BY <2>2, <2>3, PrecededSame
<1> QED
  BY <1>2, <1>3 DEF Written, g

\* EmitPhysicalRecord appends the zeros of the trailer and then the bytes of its record.
LEMMA EmittedBytesAre ==
    ASSUME NEW parts, \A p \in parts : p.len \in Nat, NEW e \in EmissionsOf(parts)
    PROVE  /\ EmittedBytes(e) \in Seq(BytesOf(parts))
           /\ Len(EmittedBytes(e)) = e.trailer + HeaderSize + e.record.len
           /\ \A i \in 1 .. e.trailer : EmittedBytes(e)[i] = ZeroByte
           /\ \A i \in e.trailer + 1 .. e.trailer + HeaderSize + e.record.len :
                EmittedBytes(e)[i] = <<e.record, i - e.trailer>>
<1> DEFINE z == [i \in 1 .. e.trailer |-> ZeroByte]
           b == [i \in 1 .. HeaderSize + e.record.len |-> <<e.record, i>>]
           B == BytesOf(parts)
<1>1. e.trailer \in Nat /\ e.record \in parts /\ e.record.len \in Nat /\ HeaderSize \in Nat
  BY LogFormatAssumption DEF EmissionsOf, PhysicalsOf
<1>2. ZeroByte \in B /\ \A i \in Nat : <<e.record, i>> \in B
  BY <1>1 DEF BytesOf
<1>3. z \in Seq(B) /\ Len(z) = e.trailer /\ \A i \in 1 .. e.trailer : z[i] = ZeroByte
  BY <1>1, <1>2
<1>4. /\ b \in Seq(B) /\ Len(b) = HeaderSize + e.record.len
      /\ \A i \in 1 .. HeaderSize + e.record.len : b[i] = <<e.record, i>>
  <2> DEFINE n == HeaderSize + e.record.len
  <2>1. n \in Nat
    BY <1>1
  <2>2. \A i \in 1 .. n : <<e.record, i>> \in B
    BY <1>2
  <2> HIDE DEF n, B
  <2>3. /\ [i \in 1 .. n |-> <<e.record, i>>] \in Seq(B)
        /\ Len([i \in 1 .. n |-> <<e.record, i>>]) = n
    BY <2>1, <2>2
  <2> QED
    BY <2>3 DEF n
<1>5. EmittedBytes(e) = z \o b
  BY DEF EmittedBytes, Bytes
<1> HIDE DEF z, b, B
<1>6. /\ z \o b \in Seq(B) /\ Len(z \o b) = e.trailer + (HeaderSize + e.record.len)
      /\ \A i \in 1 .. e.trailer + (HeaderSize + e.record.len) :
           (z \o b)[i] = IF i <= e.trailer THEN z[i] ELSE b[i - e.trailer]
  <2>1. /\ z \o b \in Seq(B) /\ Len(z \o b) = Len(z) + Len(b)
        /\ \A i \in 1 .. Len(z) + Len(b) : (z \o b)[i] = IF i <= Len(z) THEN z[i] ELSE b[i - Len(z)]
    BY <1>3, <1>4, ConcatProperties
  <2> QED
    BY <2>1, <1>3, <1>4
<1>7. e.trailer + (HeaderSize + e.record.len) = e.trailer + HeaderSize + e.record.len
  BY <1>1
<1>8. ASSUME NEW i \in 1 .. e.trailer
      PROVE  (z \o b)[i] = ZeroByte
  BY <1>1, <1>3, <1>6
<1>9. ASSUME NEW i \in e.trailer + 1 .. e.trailer + HeaderSize + e.record.len
      PROVE  (z \o b)[i] = <<e.record, i - e.trailer>>
  <2>1. i \in 1 .. e.trailer + (HeaderSize + e.record.len) /\ ~(i <= e.trailer)
        /\ i - e.trailer \in 1 .. HeaderSize + e.record.len
    BY <1>1
  <2> QED
    BY <2>1, <1>4, <1>6
<1>10. Len(z \o b) = e.trailer + HeaderSize + e.record.len /\ z \o b \in Seq(BytesOf(parts))
  BY <1>6, <1>7 DEF B
<1> DEFINE w == z \o b
<1>11. EmittedBytes(e) = w
  BY <1>5
<1> HIDE DEF w
<1> QED
  BY <1>8, <1>9, <1>10, <1>11 DEF w

\* Places counted from the end of a run of bytes, and after a trailer.
LEMMA PlaceFromEnd ==
    ASSUME NEW L \in Nat, NEW h \in Nat, L >= h, NEW j \in 1 .. h
    PROVE  L - h + j \in 1 .. L
OBVIOUS

\* The same for the place of a byte of a record that follows a trailer of z zeros.
LEMMA PlaceAfter ==
    ASSUME NEW L \in Nat, NEW z \in Nat, NEW h \in Nat, NEW j \in 1 .. h
    PROVE  /\ (L + z + h) - h + j = L + (z + j)
           /\ z + j \in 1 .. z + h
           /\ z + j \in z + 1 .. z + h
           /\ (z + j) - z = j
OBVIOUS

\* Whatever is appended of an emission that begins a record, or goes on with the
\* part the file ends with, is written.
LEMMA AppendWritten ==
    ASSUME NEW parts, \A p \in parts : p.len \in Nat,
           NEW file, Written(file, parts), NEW e \in EmissionsOf(parts),
           \/ e.record.type \in {"full", "first"}
           \/ \E p \in parts : Continues(p, e.record) /\ EndsAt(file, p, Len(file)),
           NEW n \in 0 .. Len(EmittedBytes(e))
    PROVE  LET g == file \o SubSeq(EmittedBytes(e), 1, n)
           IN  /\ Written(g, parts)
               /\ n = Len(EmittedBytes(e)) => EndsAt(g, e.record, Len(g))
<1> DEFINE B == BytesOf(parts)
           eb == EmittedBytes(e)
           L == Len(file)
           s == SubSeq(eb, 1, n)
           g == file \o s
<1>1. /\ e.trailer \in 0 .. HeaderSize - 1 /\ e.record \in parts /\ e.record.len \in Nat
      /\ HeaderSize \in Nat /\ HeaderSize > 0
      /\ \A p \in parts : p.len \in Nat
  BY LogFormatAssumption DEF EmissionsOf, PhysicalsOf
<1>2. /\ eb \in Seq(B) /\ Len(eb) = e.trailer + HeaderSize + e.record.len
      /\ \A i \in 1 .. e.trailer : eb[i] = ZeroByte
      /\ \A i \in e.trailer + 1 .. e.trailer + HeaderSize + e.record.len : eb[i] = <<e.record, i - e.trailer>>
  BY EmittedBytesAre
<1>3. file \in Seq(B) /\ L \in Nat /\ n \in 0 .. Len(eb)
  BY DEF Written
<1> HIDE DEF eb, B
<1>4. s \in Seq(B) /\ Len(s) = n /\ \A i \in 1 .. n : s[i] = eb[i]
  BY <1>2, <1>3
<1> HIDE DEF s
<1>5. /\ g \in Seq(B) /\ Len(g) = L + n
      /\ \A i \in 1 .. L : g[i] = file[i]
      /\ \A i \in 1 .. n : g[L + i] = eb[i]
  <2>1. g \in Seq(B) /\ Len(g) = L + n
        /\ \A i \in 1 .. L + n : g[i] = IF i <= L THEN file[i] ELSE s[i - L]
    BY <1>3, <1>4, ConcatProperties
  <2>2. ASSUME NEW i \in 1 .. n
        PROVE  g[L + i] = eb[i]
    <3>1. L + i \in 1 .. L + n /\ ~(L + i <= L) /\ (L + i) - L = i
      BY <1>3, <1>2
    <3> QED
      BY <2>1, <3>1, <1>4
  <2>3. \A i \in 1 .. L : g[i] = file[i]
    BY <2>1, <1>2, <1>3
  <2> QED
    BY <2>1, <2>2, <2>3
<1> HIDE DEF g
<1>6. n \in Nat /\ n <= e.trailer + HeaderSize + e.record.len
  BY <1>1, <1>2, <1>3
<1>7. ASSUME NEW i \in 1 .. Len(g), NEW q \in parts, g[i] = <<q, 1>>, q.type \in {"middle", "last"}
      PROVE  Preceded(g, i, q, parts)
  <2>1. CASE i <= L
    <3>1. i \in 1 .. L /\ file[i] = <<q, 1>>
      BY <1>3, <1>5, <1>7, <2>1
    <3>2. Preceded(file, i, q, parts)
      BY <1>7, <3>1 DEF Written
    <3>3. i \in Nat /\ \A k \in 1 .. i - 1 : g[k] = file[k]
      BY <1>3, <1>5, <3>1
    <3> QED
      BY <1>1, <3>2, <3>3, PrecededSame
  <2>2. CASE i > L
    <3>1. PICK k \in 1 .. n : i = L + k /\ eb[k] = <<q, 1>>
      <4>1. i - L \in 1 .. n /\ i = L + (i - L)
        BY <1>3, <1>5, <1>6, <2>2
      <4> QED
        BY <4>1, <1>5, <1>7
    <3>2. ~(k <= e.trailer)
      <4>1. SUFFICES ASSUME k <= e.trailer PROVE FALSE
        OBVIOUS
      <4>2. k \in 1 .. e.trailer
        BY <4>1, <1>1
      <4>3. <<q, 1>> = ZeroByte
        BY <4>2, <3>1, <1>2
      <4> QED
        BY <4>3 DEF ZeroByte
    <3>3. k \in e.trailer + 1 .. e.trailer + HeaderSize + e.record.len
      BY <3>2, <1>1, <1>6
    <3>4. q = e.record /\ k - e.trailer = 1
      BY <3>1, <3>3, <1>2
    <3>5. PICK p \in parts : Continues(p, q) /\ EndsAt(file, p, L)
      BY <3>4, <1>7
    <3> DEFINE z == e.trailer
    <3>6. i - 1 - z = L /\ z \in 0 .. HeaderSize - 1
      BY <3>1, <3>4, <1>1, <1>3
    <3>7. EndsAt(g, p, L)
      <4>1. L >= HeaderSize + p.len /\ \A j \in 1 .. HeaderSize + p.len : file[L - (HeaderSize + p.len) + j] = <<p, j>>
        BY <3>5 DEF EndsAt
      <4>2. ASSUME NEW j \in 1 .. HeaderSize + p.len
            PROVE  g[L - (HeaderSize + p.len) + j] = <<p, j>>
        <5>1. L - (HeaderSize + p.len) + j \in 1 .. L
          <6>1. HeaderSize + p.len \in Nat
            BY <1>1
          <6> QED
            BY <6>1, <4>1, <1>3, PlaceFromEnd
        <5>2. g[L - (HeaderSize + p.len) + j] = file[L - (HeaderSize + p.len) + j]
          BY <5>1, <1>5
        <5> QED
          BY <5>2, <4>1
      <4> QED
        BY <4>1, <4>2 DEF EndsAt
    <3>8. ASSUME NEW j \in 1 .. z
          PROVE  g[i - j] = ZeroByte
      <4>1. k - j \in 1 .. z /\ k - j \in 1 .. n /\ i - j = L + (k - j)
        <5>1. k \in Int /\ j \in Int /\ z \in Int /\ L \in Int /\ n \in Int
          BY <1>1, <1>3, <1>6
        <5>2. k = z + 1 /\ 1 <= j /\ j <= z /\ k <= n /\ i = L + k
          BY <3>1, <3>4, <5>1
        <5> HIDE DEF z, L
        <5> QED
          BY <5>1, <5>2
      <4> QED
        BY <4>1, <1>2, <1>5
    <3>9. i - 1 - z \in Nat /\ EndsAt(g, p, i - 1 - z)
      BY <3>6, <3>7, <1>3
    <3> QED
      BY <3>5, <3>6, <3>8, <3>9 DEF Preceded
  <2> QED
    BY <2>1, <2>2, <1>3, <1>5
<1>8. Written(g, parts)
  BY <1>5, <1>7 DEF Written, B
<1>9. ASSUME n = Len(eb)
      PROVE  EndsAt(g, e.record, Len(g))
  <2> DEFINE h == HeaderSize + e.record.len
  <2> DEFINE z == e.trailer
             G == Len(g)
  <2>0. /\ L \in Nat /\ z \in Nat /\ h \in Nat /\ G = L + n /\ n = z + h
        /\ HeaderSize + e.record.len = h /\ z + HeaderSize + e.record.len = z + h
    <3>1. L \in Nat /\ z \in Nat /\ HeaderSize \in Nat /\ e.record.len \in Nat
      BY <1>1, <1>3
    <3>2. h \in Nat /\ z + HeaderSize + e.record.len = z + h
      BY <3>1
    <3>3. G = L + n
      BY <1>5
    <3>4. n = z + h
      BY <3>2, <1>2, <1>9
    <3> QED
      BY <3>1, <3>2, <3>3, <3>4
  <2> HIDE DEF h, z, L, G
  <2>1. G = L + z + h
    BY <2>0
  <2>2. ASSUME NEW j \in 1 .. h
        PROVE  g[G - h + j] = <<e.record, j>>
    <3>1. /\ G - h + j = L + (z + j) /\ z + j \in 1 .. n
          /\ z + j \in z + 1 .. z + h
          /\ (z + j) - z = j
      <4>1. /\ (L + z + h) - h + j = L + (z + j)
            /\ z + j \in 1 .. z + h
            /\ z + j \in z + 1 .. z + h
            /\ (z + j) - z = j
        BY <2>0, PlaceAfter
      <4> QED
        BY <4>1, <2>0, <2>1
    <3>2. eb[z + j] = <<e.record, j>>
      BY <3>1, <2>0, <1>2 DEF z
    <3>3. g[L + (z + j)] = eb[z + j]
      BY <3>1, <1>5 DEF L
    <3> QED
      BY <3>1, <3>2, <3>3
  <2>3. G >= h
    BY <2>0, <2>1
  <2> QED
    BY <2>0, <2>2, <2>3 DEF EndsAt, h, G
<1> QED
  BY <1>8, <1>9 DEF g, s, eb

\* Concatenation of sequences over one set.
LEMMA ConcatThree ==
    ASSUME NEW S, NEW x \in Seq(S), NEW y \in Seq(S), NEW z \in Seq(S)
    PROVE  /\ x \o y \in Seq(S) /\ y \o z \in Seq(S)
           /\ x \o (y \o z) = (x \o y) \o z
<1>1. x \o y \in Seq(S) /\ y \o z \in Seq(S)
  BY ConcatProperties
<1>2. x \o (y \o z) = (x \o y) \o z
  BY ConcatAssociative
<1> QED
  BY <1>1, <1>2

\* Emissions of a record, from its first.
Linked(es, parts) ==
  /\ es \in Seq(EmissionsOf(parts))
  /\ \A k \in 1 .. Len(es) : \/ es[k].record.type \in {"full", "first"}
                             \/ k > 1 /\ Continues(es[k - 1].record, es[k].record)

\* The bytes of the first emissions.
BytesUpTo(f, es, A) ==
  /\ f \in [0 .. Len(es) -> Seq(A)] /\ f[0] = <<>> /\ AllBytes(es) = f[Len(es)]
  /\ \A k \in 1 .. Len(es) : f[k] = f[k - 1] \o EmittedBytes(es[k])

\* AllBytes is the last of them.
LEMMA AllBytesAre ==
    ASSUME NEW parts, \A p \in parts : p.len \in Nat, NEW es \in Seq(EmissionsOf(parts))
    PROVE  \E f : BytesUpTo(f, es, BytesOf(parts))
<1> DEFINE V == Seq(BytesOf(parts))
           n == Len(es)
           F == [k \in 1 .. n |-> [v \in V |-> v \o EmittedBytes(es[k])]]
           Body(f, k) == IF k = 0 THEN <<>> ELSE f[k - 1] \o EmittedBytes(es[k])
<1>1. n \in Nat /\ \A k \in 1 .. n : es[k] \in EmissionsOf(parts)
  OBVIOUS
<1>2. \A k \in 1 .. n : EmittedBytes(es[k]) \in V
  BY <1>1, EmittedBytesAre
<1>3. <<>> \in V
  OBVIOUS
<1> HIDE DEF V, n
<1>4. \A k \in 1 .. n : [v \in V |-> v \o EmittedBytes(es[k])] \in [V -> V]
  <2>1. \A k \in 1 .. n : \A v \in V : v \o EmittedBytes(es[k]) \in V
    BY <1>2, ConcatProperties DEF V
  <2> QED
    BY <2>1
<1>5. PICK f : Loops(f, V, <<>>, n, F)
  <2>1. LoopOn(V, <<>>, n, F)
    BY <1>1, <1>3, <1>4 DEF LoopOn
  <2> HIDE DEF F
  <2> QED
    BY <2>1, LoopExists
<1>6. f = [k \in 0 .. n |-> Body(f, k)]
  <2>1. f \in [0 .. n -> V] /\ f[0] = <<>> /\ \A k \in 1 .. n : f[k] = F[k][f[k - 1]]
    BY <1>5 DEF Loops
  <2>2. ASSUME NEW k \in 0 .. n
        PROVE  f[k] = Body(f, k)
    <3>1. CASE k = 0
      BY <3>1, <2>1
    <3>2. CASE k # 0
      <4>1. k \in 1 .. n /\ k - 1 \in 0 .. n
        BY <3>2, <1>1
      <4> QED
        BY <4>1, <2>1, <3>2
    <3> QED
      BY <3>1, <3>2
  <2> HIDE DEF Body
  <2> QED
    BY <2>1, <2>2
<1> DEFINE bytes == CHOOSE bytes : bytes = [k \in 0 .. n |-> Body(bytes, k)]
<1>7. bytes = [k \in 0 .. n |-> Body(bytes, k)]
  <2> HIDE DEF Body
  <2> QED
    BY <1>6
<1>8. AllBytes(es) = bytes[n]
  BY DEF AllBytes, n
<1> HIDE DEF bytes
<1>9. bytes[0] = <<>>
  BY <1>1, <1>7
<1>10. ASSUME NEW k \in 1 .. n
       PROVE  bytes[k] = bytes[k - 1] \o EmittedBytes(es[k]) /\ k - 1 \in 0 .. n
  <2>1. k \in 0 .. n /\ k # 0 /\ k - 1 \in 0 .. n
    BY <1>1
  <2> QED
    BY <2>1, <1>7
<1>11. \A k \in 0 .. n : bytes[k] \in V
  <2>1. ASSUME NEW k \in 1 .. n, bytes[k - 1] \in V
        PROVE  bytes[k] \in V
    BY <2>1, <1>2, <1>10, ConcatProperties DEF V
  <2>2. bytes[0] \in V
    BY <1>3, <1>9
  <2> QED
    BY <1>1, <2>1, <2>2, LoopStays
<1>12. bytes \in [0 .. n -> V]
  <2>1. bytes = [k \in 0 .. n |-> bytes[k]]
    BY <1>7
  <2> HIDE DEF V
  <2> QED
    BY <1>11, <2>1
<1> QED
  BY <1>8, <1>9, <1>10, <1>12 DEF BytesUpTo, V, n

\* A linked run of emissions, appended to a file that is Written, leaves it Written.
LEMMA AllBytesWritten ==
    ASSUME NEW parts, \A p \in parts : p.len \in Nat,
           NEW file, Written(file, parts), NEW es, Linked(es, parts)
    PROVE  LET g == file \o AllBytes(es)
           IN  /\ AllBytes(es) \in Seq(BytesOf(parts))
               /\ Written(g, parts)
               /\ Len(es) > 0 => EndsAt(g, es[Len(es)].record, Len(g))
<1> DEFINE V == Seq(BytesOf(parts))
           n == Len(es)
<1>1. n \in Nat /\ \A k \in 1 .. n : es[k] \in EmissionsOf(parts)
  BY DEF Linked
<1>2. \A k \in 1 .. n : EmittedBytes(es[k]) \in V
  BY <1>1, EmittedBytesAre
<1>3. <<>> \in V /\ file \in V
  BY DEF Written
<1>4. PICK bytes : BytesUpTo(bytes, es, BytesOf(parts))
  <2>1. es \in Seq(EmissionsOf(parts))
    BY DEF Linked
  <2> QED
    BY <2>1, AllBytesAre
<1> HIDE DEF V, n
<1>7. bytes[0] = <<>> /\ \A k \in 1 .. n : bytes[k] = bytes[k - 1] \o EmittedBytes(es[k])
  BY <1>4 DEF BytesUpTo, n
<1>8. AllBytes(es) = bytes[n]
  BY <1>4 DEF BytesUpTo, n
<1> DEFINE G(k) == file \o bytes[k]
           OK(k) == /\ bytes[k] \in V
                    /\ Written(G(k), parts)
                    /\ k > 0 => EndsAt(G(k), es[k].record, Len(G(k)))
           S == { k \in Nat : k <= n => OK(k) }
<1>9. 0 \in S
  <2>1. bytes[0] = <<>>
    BY <1>7, <1>1
  <2>2. G(0) = file
    BY <2>1, <1>3 DEF V
  <2>3. OK(0)
    BY <2>1, <2>2, <1>3
  <2> QED
    BY <2>3
<1>10. ASSUME NEW k \in Nat, k \in S
       PROVE  k + 1 \in S
  <2> SUFFICES ASSUME k + 1 <= n
               PROVE  OK(k + 1)
    OBVIOUS
  <2> DEFINE e == es[k + 1]
             eb == EmittedBytes(e)
  <2>1. OK(k)
    BY <1>1, <1>10
  <2>2. e \in EmissionsOf(parts) /\ eb \in V
    BY <1>1, <1>2
  <2>3. bytes[k + 1] = bytes[k] \o eb
    <3>1. k + 1 \in 1 .. n /\ (k + 1) - 1 = k
      BY <1>1
    <3> QED
      BY <3>1, <1>7
  <2>4. bytes[k + 1] \in V /\ G(k + 1) = G(k) \o eb
    <3> DEFINE x == bytes[k]
               A == BytesOf(parts)
    <3>1. x \in Seq(A) /\ eb \in Seq(A) /\ file \in Seq(A)
      BY <2>1, <2>2, <1>3 DEF V
    <3> HIDE DEF eb, x, e, A
    <3>2. x \o eb \in Seq(A) /\ file \o (x \o eb) = (file \o x) \o eb
      BY ONLY <3>1, ConcatThree
    <3> USE DEF x
    <3> QED
      BY <2>3, <3>2 DEF A, V
  <2>5. SubSeq(eb, 1, Len(eb)) = eb /\ Len(eb) \in 0 .. Len(eb)
    <3> HIDE DEF eb
    <3> QED
      BY <2>2, SubSeqFull DEF V
  <2>6. \/ e.record.type \in {"full", "first"}
        \/ \E p \in parts : Continues(p, e.record) /\ EndsAt(G(k), p, Len(G(k)))
    <3>1. CASE e.record.type \in {"full", "first"}
      BY <3>1
    <3>2. CASE k + 1 > 1 /\ Continues(es[k].record, e.record)
      <4>1. k \in 1 .. n /\ k > 0
        BY <3>2, <1>1
      <4>2. es[k].record \in parts
        BY <4>1, <1>1 DEF EmissionsOf
      <4> HIDE DEF G, e
      <4> QED
        BY <2>1, <3>2, <4>1, <4>2
    <3>3. k + 1 \in 1 .. n /\ (k + 1) - 1 = k
      BY <1>1
    <3> QED
      BY <3>1, <3>2, <3>3 DEF Linked, n
  <2> HIDE DEF G, e, eb
  <2>7. Written(G(k + 1), parts) /\ EndsAt(G(k + 1), e.record, Len(G(k + 1)))
    <3>1. Written(G(k), parts)
      BY <2>1
    <3>2. /\ Written(G(k) \o SubSeq(eb, 1, Len(eb)), parts)
          /\ EndsAt(G(k) \o SubSeq(eb, 1, Len(eb)), e.record, Len(G(k) \o SubSeq(eb, 1, Len(eb))))
      BY <3>1, <2>2, <2>5, <2>6, AppendWritten DEF eb
    <3> QED
      BY <3>2, <2>4, <2>5
  <2> QED
    BY <2>4, <2>7 DEF e
<1>11. n \in S
  <2> HIDE DEF S
  <2> QED
    BY <1>1, <1>9, <1>10, StepInduction
<1>12. OK(n)
  BY <1>1, <1>11
<1> QED
  BY <1>8, <1>12 DEF V, n

\* What the loop of AddRecord emits is linked, and so is what it has emitted when an append fails.
LEMMA EmissionsLinked ==
    ASSUME NEW O, NEW size \in [O -> Nat], NEW of \in O, NEW offset \in 0 .. BlockSize
    PROVE  LET es == Emissions(of, size[of], offset)
           IN  /\ Linked(es, Parts(O, size))
               /\ Len(es) \in Nat /\ Len(es) > 0
               /\ \A k \in 1 .. Len(es) : /\ es[k].offset \in 0 .. BlockSize
                                          /\ Linked(SubSeq(es, 1, k - 1), Parts(O, size))
<1> DEFINE es == Emissions(of, size[of], offset)
           E == EmissionsOf(Parts(O, size))
<1>1. es \in Seq(E) /\ Chained(es) /\ es[1].record.type \in {"full", "first"}
  BY EmissionsAre
<1> HIDE DEF es, E
<1>2. Len(es) \in Nat /\ Len(es) > 0
  BY <1>1, EmptySeq DEF Chained
<1>3. ASSUME NEW k \in 1 .. Len(es)
      PROVE  \/ es[k].record.type \in {"full", "first"}
             \/ k > 1 /\ Continues(es[k - 1].record, es[k].record)
  <2>1. CASE k = 1
    BY <2>1, <1>1
  <2>2. CASE k # 1
    BY <2>2, <1>1 DEF Chained
  <2> QED
    BY <2>1, <2>2
<1>4. ASSUME NEW k \in 1 .. Len(es)
      PROVE  Linked(SubSeq(es, 1, k - 1), Parts(O, size))
  <2> DEFINE s == SubSeq(es, 1, k - 1)
  <2>1. s \in Seq(E) /\ Len(s) = k - 1 /\ \A j \in 1 .. k - 1 : s[j] = es[j]
    BY <1>1
  <2> HIDE DEF s
  <2>2. ASSUME NEW j \in 1 .. Len(s)
        PROVE  \/ s[j].record.type \in {"full", "first"}
               \/ j > 1 /\ Continues(s[j - 1].record, s[j].record)
    <3>1. j \in 1 .. Len(es) /\ s[j] = es[j]
      BY <2>1, <1>2
    <3>2. ASSUME j > 1
          PROVE  s[j - 1] = es[j - 1]
      <4>1. j - 1 \in 1 .. k - 1
        BY <3>2, <2>1, <1>2
      <4> QED
        BY <4>1, <2>1
    <3> QED
      BY <3>1, <3>2, <1>3
  <2> QED
    BY <2>1, <2>2 DEF Linked, E, s
<1>5. \A k \in 1 .. Len(es) : es[k].offset \in 0 .. BlockSize
  <2>1. \A k \in 1 .. Len(es) : es[k] \in E
    BY <1>1
  <2> QED
    BY <2>1 DEF EmissionsOf, E
<1> QED
  BY <1>1, <1>2, <1>3, <1>4, <1>5 DEF es, E, Linked

\* The data of a physical record has a length.
LEMMA PartsLen == \A O, size : \A p \in Parts(O, size) : p.len \in Nat
  BY DEF Parts, PhysicalsOf

\* AddRecord, when it succeeds and when it fails, writes what Written says.
LEMMA AddRecordWritten ==
    ASSUME NEW O, NEW size \in [O -> Nat], NEW of \in O, NEW offset \in 0 .. BlockSize,
           NEW file, Written(file, Parts(O, size)),
           NEW added, added = AddRecord(of, size[of], offset) \/ added \in FailedAdds(of, size[of], offset)
    PROVE  /\ Written(file \o added.bytes, Parts(O, size))
           /\ added.bytes \in Seq(BytesOf(Parts(O, size)))
           /\ added.offset \in 0 .. BlockSize
<1> DEFINE es == Emissions(of, size[of], offset)
           P == Parts(O, size)
           B == Seq(BytesOf(P))
<1>1. /\ Linked(es, P) /\ Len(es) \in Nat /\ Len(es) > 0
      /\ \A k \in 1 .. Len(es) : es[k].offset \in 0 .. BlockSize /\ Linked(SubSeq(es, 1, k - 1), P)
  BY EmissionsLinked
<1>2. \A p \in P : p.len \in Nat
  BY PartsLen
<1>3. ASSUME NEW u \in B, NEW v \in B
      PROVE  u \o v \in B /\ file \o (u \o v) = (file \o u) \o v
  <2> DEFINE A == BytesOf(P)
  <2>1. u \in Seq(A) /\ v \in Seq(A) /\ file \in Seq(A) /\ B = Seq(A)
    BY <1>3 DEF Written
  <2> HIDE DEF A, B, P
  <2> QED
    BY <2>1, ConcatThree
<1>4. CASE added = AddRecord(of, size[of], offset)
  <2>1. added = [bytes |-> AllBytes(es), offset |-> es[Len(es)].offset]
    BY <1>4 DEF AddRecord, Last
  <2> HIDE DEF es, P
  <2>2. AllBytes(es) \in B /\ Written(file \o AllBytes(es), P)
    BY <1>1, <1>2, AllBytesWritten DEF P
  <2> QED
    BY <2>1, <2>2, <1>1 DEF P
<1>5. CASE added \in FailedAdds(of, size[of], offset)
  <2>0. PICK k \in DOMAIN es : \E n \in 0 .. Len(EmittedBytes(es[k])) :
          added = [bytes |-> AllBytes(SubSeq(es, 1, k - 1)) \o SubSeq(EmittedBytes(es[k]), 1, n),
                   offset |-> es[k].offset]
    BY <1>5 DEF FailedAdds
  <2>1. PICK n \in 0 .. Len(EmittedBytes(es[k])) :
          added = [bytes |-> AllBytes(SubSeq(es, 1, k - 1)) \o SubSeq(EmittedBytes(es[k]), 1, n),
                   offset |-> es[k].offset]
    BY <2>0
  <2> HIDE DEF es, P
  <2>2. k \in 1 .. Len(es)
    BY <1>1 DEF Linked
  <2> DEFINE s == SubSeq(es, 1, k - 1)
             eb == EmittedBytes(es[k])
             g == file \o AllBytes(s)
  <2>3. Linked(s, P) /\ es[k] \in EmissionsOf(P)
    BY <1>1, <2>2 DEF Linked
  <2>4. Len(s) = k - 1 /\ \A j \in 1 .. k - 1 : s[j] = es[j]
    BY <1>1, <2>2 DEF Linked
  <2> HIDE DEF s
  <2>5. AllBytes(s) \in B /\ Written(g, P) /\ (Len(s) > 0 => EndsAt(g, s[Len(s)].record, Len(g)))
    BY <2>3, <1>2, AllBytesWritten DEF P
  <2> HIDE DEF g
  <2>6. \/ es[k].record.type \in {"full", "first"}
        \/ \E p \in P : Continues(p, es[k].record) /\ EndsAt(g, p, Len(g))
    <3>1. CASE k > 1 /\ Continues(es[k - 1].record, es[k].record)
      <4>1. k - 1 \in 1 .. Len(es) /\ Len(s) > 0 /\ s[Len(s)] = es[k - 1]
        BY <3>1, <2>2, <2>4
      <4>2. es[k - 1].record \in P
        <5>1. es[k - 1] \in EmissionsOf(P)
          BY <4>1, <1>1 DEF Linked
        <5> QED
          BY <5>1 DEF EmissionsOf
      <4> QED
        BY <2>5, <3>1, <4>1, <4>2
    <3> QED
      BY <3>1, <1>1, <2>2 DEF Linked
  <2>7. Written(g \o SubSeq(eb, 1, n), P)
    BY <2>3, <2>5, <2>6, <1>2, AppendWritten
  <2>8. eb \in B /\ Len(eb) \in Nat /\ n \in 0 .. Len(eb)
    BY <2>3, <1>2, EmittedBytesAre
  <2> HIDE DEF eb
  <2> DEFINE start == SubSeq(eb, 1, n)
  <2>9. start \in B
    BY <2>8
  <2> HIDE DEF start
  <2>11. AllBytes(s) \o start \in B /\ file \o (AllBytes(s) \o start) = g \o start
    BY <2>5, <2>9, <1>3 DEF g
  <2>12. added.bytes = AllBytes(s) \o start /\ added.offset = es[k].offset
    BY <2>1 DEF s, start, eb
  <2> QED
    BY <2>7, <2>11, <2>12, <2>2, <1>1 DEF P, start
<1> QED
  BY <1>4, <1>5

-----------------------------------------------------------------------------
(* What the reader finds *)

BlockEndOf(file, at) ==
  LET e == ((at - 1) \div BlockSize + 1) * BlockSize
  IN  IF e < Len(file) THEN e ELSE Len(file)

\* The multiples of the block size follow each other at that distance.
LEMMA NextMultiple ==
    ASSUME NEW n \in Nat, NEW b \in Nat, b > 0
    PROVE  LET e == (n \div b + 1) * b
           IN  e \in Nat /\ e > n /\ (e \div b + 1) * b = e + b
<1> DEFINE q == n \div b
<1>1. q \in Nat /\ n = q * b + (n % b) /\ n % b \in 0 .. b - 1
  OBVIOUS
<1> HIDE DEF q
<1>2. (q + 1) * b = q * b + b /\ q * b \in Nat /\ (q + 2) * b = q * b + b + b
  BY <1>1
<1>3. ((q + 1) * b) \div b = q + 1
  BY <1>1
<1> QED
  BY <1>1, <1>2, <1>3 DEF q

\* A block ends at or after any byte of it, and the next block one block size later or with the file.
LEMMA BlockEnds ==
    ASSUME NEW S, NEW file \in Seq(S), NEW at \in 1 .. Len(file)
    PROVE  LET e == BlockEndOf(file, at)
           IN  /\ e \in at .. Len(file)
               /\ e < Len(file) => \/ BlockEndOf(file, e + 1) = Len(file)
                                   \/ BlockEndOf(file, e + 1) = e + BlockSize
<1> DEFINE n == at - 1
           d == (n \div BlockSize + 1) * BlockSize
<1>1. n \in Nat /\ BlockSize \in Nat /\ BlockSize > 0 /\ Len(file) \in Nat
  BY LogFormatAssumption
<1>2. d \in Nat /\ d > n /\ (d \div BlockSize + 1) * BlockSize = d + BlockSize
  BY <1>1, NextMultiple
<1> HIDE DEF n
<1>3. BlockEndOf(file, at) = IF d < Len(file) THEN d ELSE Len(file)
  BY DEF BlockEndOf, n
<1>4. (d + 1) - 1 = d
  BY <1>2
<1>5. BlockEndOf(file, d + 1) = IF d + BlockSize < Len(file) THEN d + BlockSize ELSE Len(file)
  <2> HIDE DEF d
  <2>1. BlockEndOf(file, d + 1) = LET e == (d \div BlockSize + 1) * BlockSize
                                  IN IF e < Len(file) THEN e ELSE Len(file)
    BY <1>4 DEF BlockEndOf
  <2> QED
    BY <2>1, <1>2
<1> HIDE DEF d
<1> QED
  BY <1>1, <1>2, <1>3, <1>5 DEF n

\* Whole parts that the reader finds one after the other, with at most the end of
\* a block between them, were written one after the other.
LEMMA FoundContinues ==
    ASSUME NEW parts, \A p \in parts : p.len \in Nat /\ p.type # "zero",
           NEW file, Written(file, parts), NEW p \in parts, NEW at \in 1 .. Len(file),
           \A k \in 1 .. HeaderSize + p.len : file[at + k - 1] = <<p, k>>,
           NEW i \in at + HeaderSize + p.len .. at + HeaderSize + p.len + HeaderSize - 1,
           i <= Len(file), NEW q \in parts, file[i] = <<q, 1>>, q.type \in {"middle", "last"}
    PROVE  Continues(p, q)
<1> DEFINE n == HeaderSize + p.len
           g == i - (at + n)
<1>0. Len(file) \in Nat
  BY DEF Written
<1>1. HeaderSize \in Nat /\ HeaderSize > 0 /\ p.len \in Nat /\ at \in Nat /\ at >= 1 /\ n \in Nat /\ n > 0
  BY <1>0, LogFormatAssumption
<1>2. g \in 0 .. HeaderSize - 1 /\ i \in 1 .. Len(file) /\ i - 1 - g = at + n - 1
  <2>1. at + n \in Nat /\ i \in at + n .. at + n + HeaderSize - 1
    BY <1>1
  <2> HIDE DEF n
  <2> QED
    BY <1>0, <1>1, <2>1
<1>3. file[at + n - 1] = <<p, n>>
  <2>1. n \in 1 .. n
    BY <1>1
  <2> QED
    BY <2>1
<1>4. Preceded(file, i, q, parts)
  BY <1>2 DEF Written
<1>5. PICK p0 \in parts, z \in 0 .. HeaderSize - 1 :
        /\ Continues(p0, q)
        /\ EndsAt(file, p0, i - 1 - z)
        /\ \A j \in 1 .. z : file[i - j] = ZeroByte
  BY <1>4 DEF Preceded
<1> HIDE DEF g, n
<1>6. CASE z > g
  <2>1. g + 1 \in 1 .. z /\ i - (g + 1) = at + n - 1
    BY <1>1, <1>2, <1>6
  <2>2. <<p, n>> = ZeroByte
    BY <2>1, <1>3, <1>5
  <2>3. p.type = "zero"
    BY <2>2 DEF ZeroByte, Physical
  <2> QED
    BY <2>3
<1>7. CASE z <= g
  <2> DEFINE h == HeaderSize + p0.len
             j == h - (g - z)
  <2>1. h \in Nat /\ h >= HeaderSize
    BY <1>1
  <2> HIDE DEF h
  <2>2. j \in 1 .. h /\ (i - 1 - z) - h + j = at + n - 1
    BY <1>1, <1>2, <1>7, <2>1
  <2>3. file[at + n - 1] = <<p0, j>>
    BY <2>2, <1>5 DEF EndsAt, h
  <2> QED
    BY <2>3, <1>3, <1>5
<1> QED
  BY <1>2, <1>6, <1>7

Found(parts) == parts \cup {BadRecord}

\* What the physical records of a file have in common: a part is followed by the
\* one that continues it, unless the reader begins again.
Adjacent(ps, parts) ==
  /\ ps \in Seq(Found(parts))
  /\ \A k \in 2 .. Len(ps) :
       ps[k].type \in {"middle", "last"} => ps[k - 1] = BadRecord \/ Continues(ps[k - 1], ps[k])

\* Putting a record before the records found keeps them adjacent, when the two may be.
LEMMA AdjacentCons ==
    ASSUME NEW parts, NEW ps, Adjacent(ps, parts), NEW p \in Found(parts),
           ps # <<>> /\ ps[1].type \in {"middle", "last"} => p = BadRecord \/ Continues(p, ps[1])
    PROVE  /\ Adjacent(<<p>> \o ps, parts)
           /\ <<p>> \o ps # <<>>
           /\ (<<p>> \o ps)[1] = p
<1> DEFINE P == Found(parts)
           s == <<p>> \o ps
<1>1. ps \in Seq(P) /\ Len(ps) \in Nat
  BY DEF Adjacent
<1> HIDE DEF P
<1>2. <<p>> \in Seq(P) /\ Len(<<p>>) = 1 /\ <<p>>[1] = p
  BY DEF P
<1>3. /\ s \in Seq(P) /\ Len(s) = 1 + Len(ps)
      /\ \A i \in 1 .. 1 + Len(ps) : s[i] = IF i <= 1 THEN p ELSE ps[i - 1]
  <2>1. /\ s \in Seq(P) /\ Len(s) = Len(<<p>>) + Len(ps)
        /\ \A i \in 1 .. Len(<<p>>) + Len(ps) : s[i] = IF i <= Len(<<p>>) THEN <<p>>[i] ELSE ps[i - Len(<<p>>)]
    BY <1>1, <1>2, ConcatProperties
  <2> HIDE DEF s
  <2>2. \A i \in 1 .. 1 + Len(ps) : i <= 1 => i = 1
    BY <1>1
  <2> QED
    BY <2>1, <2>2, <1>2
<1> HIDE DEF s
<1>4. s[1] = p /\ s # <<>>
  BY <1>1, <1>3
<1>5. ASSUME NEW k \in 2 .. Len(s), s[k].type \in {"middle", "last"}
      PROVE  s[k - 1] = BadRecord \/ Continues(s[k - 1], s[k])
  <2>1. k - 1 \in 1 .. Len(ps) /\ s[k] = ps[k - 1] /\ k \in Int
    BY <1>1, <1>3
  <2>2. CASE k = 2
    <3>1. s[k - 1] = p /\ s[k] = ps[1] /\ ps # <<>>
      BY <2>1, <2>2, <1>3, <1>4, <1>1, EmptySeq
    <3> QED
      BY <3>1, <1>5
  <2>3. CASE k # 2
    <3>1. k - 1 \in 2 .. Len(ps) /\ s[k - 1] = ps[(k - 1) - 1]
      BY <2>1, <2>3, <1>1, <1>3
    <3> QED
      BY <3>1, <2>1, <1>5 DEF Adjacent
  <2> QED
    BY <2>2, <2>3
<1> QED
  BY <1>3, <1>4, <1>5 DEF Adjacent, P, s

\* What the reader finds from a place on, when it finds the values of f further on.
FoundFrom(file, f, at) ==
  LET end == BlockEndOf(file, at)
  IN  IF at > Len(file) THEN <<>>
      ELSE IF end - at + 1 < HeaderSize THEN f[end + 1]
      ELSE IF IntactAt(file, at, end) THEN <<file[at][1]>> \o f[at + HeaderSize + file[at][1].len]
      ELSE <<BadRecord>> \o f[end + 1]

Parse(file) == CHOOSE f : f = [at \in 1 .. Len(file) + 1 |-> FoundFrom(file, f, at)]

\* The place it goes on at.
NextPlace(file, at) ==
  LET end == BlockEndOf(file, at)
  IN  IF end - at + 1 < HeaderSize \/ ~IntactAt(file, at, end) THEN end + 1
      ELSE at + HeaderSize + file[at][1].len

\* The function the reader computes from the end of the file.
LEMMA ParseIs ==
    ASSUME NEW parts, \A p \in parts : p.len \in Nat /\ p.type \notin {"zero", "bad"},
           NEW file \in Seq(BytesOf(parts))
    PROVE  /\ PhysicalRecords(file) = Parse(file)[1]
           /\ \A at \in 1 .. Len(file) + 1 :
                /\ Parse(file)[at] \in Seq(Found(parts))
                /\ Parse(file)[at] = FoundFrom(file, Parse(file), at)
                /\ at <= Len(file) => NextPlace(file, at) \in at + 1 .. Len(file) + 1
<1> DEFINE L == Len(file)
           D == 1 .. L + 1
           end(at) == BlockEndOf(file, at)
           skip(at) == end(at) - at + 1 < HeaderSize
           intact(at) == IntactAt(file, at, end(at))
           part(at) == file[at][1]
           V == Seq(Found(parts))
           Body(f, at) == IF at > L THEN <<>>
                          ELSE IF skip(at) THEN f[end(at) + 1]
                          ELSE IF intact(at) THEN <<part(at)>> \o f[at + HeaderSize + part(at).len]
                          ELSE <<BadRecord>> \o f[end(at) + 1]
<1>1. /\ file \in Seq(BytesOf(parts)) /\ L \in Nat
      /\ HeaderSize \in Nat /\ HeaderSize > 0 /\ BlockSize \in Nat /\ BlockSize > HeaderSize
  BY LogFormatAssumption
<1>2. ASSUME NEW at \in D, ~(at > L)
      PROVE  /\ at \in 1 .. L /\ end(at) \in at .. L
             /\ end(at) < L => end(end(at) + 1) = L \/ end(end(at) + 1) = end(at) + BlockSize
  <2>1. at \in 1 .. L
    BY <1>1, <1>2
  <2> QED
    BY <2>1, <1>1, BlockEnds
<1> HIDE DEF end
<1>3. ASSUME NEW at \in D, ~(at > L), intact(at)
      PROVE  /\ part(at) \in parts /\ part(at).len \in Nat
             /\ at + HeaderSize + part(at).len - 1 <= end(at)
             /\ \A i \in 1 .. HeaderSize + part(at).len : file[at + i - 1] = <<part(at), i>>
             /\ file[at] = <<part(at), 1>>
  <2>1. /\ part(at).type # "zero" /\ at + HeaderSize + part(at).len - 1 <= end(at)
        /\ \A i \in 1 .. HeaderSize + part(at).len : file[at + i - 1] = <<part(at), i>>
    BY <1>3 DEF IntactAt
  <2>2. at \in 1 .. L /\ file[at] \in BytesOf(parts)
    BY <1>1, <1>2, <1>3
  <2>3. part(at) \in parts
    <3>1. CASE file[at] = ZeroByte
      BY <3>1, <2>1 DEF ZeroByte, Physical
    <3>2. CASE file[at] \in parts \X Nat
      BY <3>2
    <3> QED
      BY <2>2, <3>1, <3>2 DEF BytesOf
  <2>4. part(at).len \in Nat
    BY <2>3
  <2>5. 1 \in 1 .. HeaderSize + part(at).len /\ at + 1 - 1 = at
    BY <2>2, <2>4, <1>1
  <2>6. file[at] = <<part(at), 1>>
    BY <2>1, <2>5
  <2> QED
    BY <2>1, <2>3, <2>4, <2>6
<1> HIDE DEF part, intact
<1> DEFINE stop == { at \in D : at > L }
           next == [at \in D |-> IF skip(at) \/ ~intact(at) THEN end(at) + 1 ELSE at + HeaderSize + part(at).len]
           F == [at \in D |-> [v \in V |-> IF skip(at) THEN v
                                           ELSE IF intact(at) THEN <<part(at)>> \o v ELSE <<BadRecord>> \o v]]
           b == [at \in D |-> <<>>]
           m == [at \in D |-> L + 1 - at]
<1>4. ASSUME NEW at \in D, ~(at > L)
      PROVE  next[at] \in D /\ next[at] > at
  <2>1. CASE skip(at) \/ ~intact(at)
    BY <1>1, <1>2, <1>4, <2>1
  <2>2. CASE ~skip(at) /\ intact(at)
    <3>1. next[at] = at + HeaderSize + part(at).len
      BY <2>2
    <3>2. /\ at \in Nat /\ part(at).len \in Nat /\ end(at) \in Nat /\ end(at) <= L /\ at >= 1
          /\ at + HeaderSize + part(at).len - 1 <= end(at)
      BY <1>1, <1>2, <1>3, <1>4, <2>2
    <3> HIDE DEF next
    <3> QED
      BY <3>1, <3>2, <1>1
  <2> QED
    BY <2>1, <2>2
<1>5. m \in [D -> Nat]
  BY <1>1
<1>6. ASSUME NEW at \in D, NEW v \in V
      PROVE  <<BadRecord>> \o v \in V /\ (~(at > L) /\ intact(at) => <<part(at)>> \o v \in V)
  <2>1. <<BadRecord>> \in V
    BY DEF Found
  <2>2. ~(at > L) /\ intact(at) => <<part(at)>> \in V
    BY <1>3 DEF Found
  <2> QED
    BY <2>1, <2>2, ConcatProperties
<1>7. RecursionOn(D, V, m, stop, next, b, F)
  <2>1. \A at \in D : at \in stop => b[at] \in V
    OBVIOUS
  <2>2. ASSUME NEW at \in D, at \notin stop
        PROVE  next[at] \in D /\ m[next[at]] < m[at] /\ F[at] \in [V -> V]
    <3>1. ~(at > L)
      BY <2>2
    <3>2. next[at] \in D /\ next[at] > at
      BY <1>4, <3>1
    <3> DEFINE t == next[at]
    <3>3. m[t] = L + 1 - t /\ m[at] = L + 1 - at
      BY <3>2
    <3>4. L + 1 - t < L + 1 - at
      <4>1. t \in Nat /\ at \in Nat /\ t > at
        BY <3>2, <1>1
      <4> HIDE DEF t
      <4> QED
        BY <4>1, <1>1
    <3>5. \A v \in V : (IF skip(at) THEN v ELSE IF intact(at) THEN <<part(at)>> \o v ELSE <<BadRecord>> \o v) \in V
      BY <1>6, <3>1
    <3> QED
      BY <3>2, <3>3, <3>4, <3>5
  <2> HIDE DEF D, V, stop, next, F, b, m
  <2> QED
    BY <1>5, <2>1, <2>2 DEF RecursionOn
<1>8. PICK f : Solves(f, D, V, stop, next, b, F)
  <2> HIDE DEF D, V, stop, next, F, b, m
  <2> QED
    BY <1>7, RecursionExists
<1>9. f = [at \in D |-> Body(f, at)]
  <2>1. f \in [D -> V] /\ \A at \in D : f[at] = IF at \in stop THEN b[at] ELSE F[at][f[next[at]]]
    BY <1>8 DEF Solves
  <2>2. ASSUME NEW at \in D
        PROVE  f[at] = Body(f, at)
    <3>1. CASE at > L
      BY <2>1, <3>1
    <3>2. CASE ~(at > L)
      <4>1. f[next[at]] \in V
        BY <2>1, <1>4, <3>2
      <4>2. f[at] = F[at][f[next[at]]]
        BY <2>1, <3>2
      <4> DEFINE v == f[next[at]]
      <4>3. F[at][v] = IF skip(at) THEN v ELSE IF intact(at) THEN <<part(at)>> \o v ELSE <<BadRecord>> \o v
        <5> HIDE DEF V, v, skip, next
        <5> QED
          BY <4>1 DEF v
      <4> QED
        BY <4>2, <4>3, <3>2
    <3> QED
      BY <3>1, <3>2
  <2> HIDE DEF D, V, Body
  <2> QED
    BY <2>1, <2>2
<1> DEFINE parse == CHOOSE parse : parse = [at \in D |-> Body(parse, at)]
<1>10. parse = [at \in D |-> Body(parse, at)]
  <2> HIDE DEF Body, D
  <2> QED
    BY <1>9
<1>11. PhysicalRecords(file) = parse[1]
  BY DEF PhysicalRecords, BlockEndOf, end, part, intact
<1>12. Parse(file) = parse
  BY DEF Parse, FoundFrom, end, part, intact
<1> HIDE DEF parse
<1>13. ASSUME NEW at \in D
       PROVE  parse[at] = Body(parse, at)
  <2> HIDE DEF Body
  <2> QED
    BY <1>10
<1>14. \A at \in D : parse[at] \in V
  <2>0. <<>> \in V
    OBVIOUS
  <2>1. \A at \in D : at \in stop => parse[at] \in V
    BY <2>0, <1>13
  <2>2. ASSUME NEW at \in D, at \notin stop
        PROVE  next[at] \in D /\ m[next[at]] < m[at] /\ (parse[next[at]] \in V => parse[at] \in V)
    <3>1. ~(at > L)
      BY <2>2
    <3>2. next[at] \in D /\ m[next[at]] < m[at]
      <4> HIDE DEF D, V, stop, next, F, b, m
      <4> QED
        BY <1>7, <2>2 DEF RecursionOn
    <3>3. ASSUME parse[next[at]] \in V
          PROVE  parse[at] \in V
      <4>1. CASE skip(at)
        BY <4>1, <3>1, <3>3, <1>13
      <4>2. CASE ~skip(at) /\ intact(at)
        <5>1. next[at] = at + HeaderSize + part(at).len
          BY <4>2
        <5> HIDE DEF next, V
        <5> QED
          BY <4>2, <5>1, <3>1, <3>3, <1>6, <1>13
      <4>3. CASE ~skip(at) /\ ~intact(at)
        <5>1. next[at] = end(at) + 1
          BY <4>3
        <5> HIDE DEF next, V
        <5> QED
          BY <4>3, <5>1, <3>1, <3>3, <1>6, <1>13
      <4> QED
        BY <4>1, <4>2, <4>3
    <3> QED
      BY <3>2, <3>3
  <2>3. Keeps(D, V, m, stop, next, parse)
    <3> HIDE DEF D, V, m, stop, next
    <3> QED
      BY <1>5, <2>1, <2>2 DEF Keeps
  <2> HIDE DEF D, V, m, stop, next
  <2> QED
    BY <2>3, RecursionStays
<1>15. ASSUME NEW at \in D, at <= L
       PROVE  NextPlace(file, at) \in at + 1 .. L + 1
  <2>1. ~(at > L)
    BY <1>15, <1>1
  <2>2. next[at] \in D /\ next[at] > at
    BY <2>1, <1>4
  <2>3. NextPlace(file, at) = next[at]
    BY DEF NextPlace, end, part, intact
  <2> HIDE DEF next
  <2> QED
    BY <2>2, <2>3, <1>1
<1>16. ASSUME NEW at \in D
       PROVE  parse[at] = FoundFrom(file, parse, at)
  BY <1>13 DEF FoundFrom, end, part, intact
<1> QED
  BY <1>11, <1>12, <1>14, <1>15, <1>16

\* The physical records the reader finds in a log file.
LEMMA PhysicalRecordsAre ==
    ASSUME NEW parts, \A p \in parts : p.len \in Nat /\ p.type \notin {"zero", "bad"},
           NEW file, Written(file, parts)
    PROVE  Adjacent(PhysicalRecords(file), parts)
<1> DEFINE L == Len(file)
           D == 1 .. L + 1
           end(at) == BlockEndOf(file, at)
           skip(at) == end(at) - at + 1 < HeaderSize
           intact(at) == IntactAt(file, at, end(at))
           part(at) == file[at][1]
           V == Seq(Found(parts))
           Body(f, at) == IF at > L THEN <<>>
                          ELSE IF skip(at) THEN f[end(at) + 1]
                          ELSE IF intact(at) THEN <<part(at)>> \o f[at + HeaderSize + part(at).len]
                          ELSE <<BadRecord>> \o f[end(at) + 1]
<1>1. /\ file \in Seq(BytesOf(parts)) /\ L \in Nat
      /\ HeaderSize \in Nat /\ HeaderSize > 0 /\ BlockSize \in Nat /\ BlockSize > HeaderSize
  BY LogFormatAssumption DEF Written
<1>2. ASSUME NEW at \in D, ~(at > L)
      PROVE  /\ at \in 1 .. L /\ end(at) \in at .. L
             /\ end(at) < L => end(end(at) + 1) = L \/ end(end(at) + 1) = end(at) + BlockSize
  <2>1. at \in 1 .. L
    BY <1>1, <1>2
  <2> QED
    BY <2>1, <1>1, BlockEnds
<1> HIDE DEF end
<1>3. ASSUME NEW at \in D, ~(at > L), intact(at)
      PROVE  /\ part(at) \in parts /\ part(at).len \in Nat
             /\ at + HeaderSize + part(at).len - 1 <= end(at)
             /\ \A i \in 1 .. HeaderSize + part(at).len : file[at + i - 1] = <<part(at), i>>
             /\ file[at] = <<part(at), 1>>
  <2>1. /\ part(at).type # "zero" /\ at + HeaderSize + part(at).len - 1 <= end(at)
        /\ \A i \in 1 .. HeaderSize + part(at).len : file[at + i - 1] = <<part(at), i>>
    BY <1>3 DEF IntactAt
  <2>2. at \in 1 .. L /\ file[at] \in BytesOf(parts)
    BY <1>1, <1>2, <1>3
  <2>3. part(at) \in parts
    <3>1. CASE file[at] = ZeroByte
      BY <3>1, <2>1 DEF ZeroByte, Physical
    <3>2. CASE file[at] \in parts \X Nat
      BY <3>2
    <3> QED
      BY <2>2, <3>1, <3>2 DEF BytesOf
  <2>4. part(at).len \in Nat
    BY <2>3
  <2>5. 1 \in 1 .. HeaderSize + part(at).len /\ at + 1 - 1 = at
    BY <2>2, <2>4, <1>1
  <2>6. file[at] = <<part(at), 1>>
    BY <2>1, <2>5
  <2> QED
    BY <2>1, <2>3, <2>4, <2>6
<1> HIDE DEF part, intact
<1> DEFINE next == [at \in D |-> IF skip(at) \/ ~intact(at) THEN end(at) + 1 ELSE at + HeaderSize + part(at).len]
<1>4. ASSUME NEW at \in D, ~(at > L)
      PROVE  next[at] \in D /\ next[at] > at
  <2>1. CASE skip(at) \/ ~intact(at)
    BY <1>1, <1>2, <1>4, <2>1
  <2>2. CASE ~skip(at) /\ intact(at)
    <3>1. next[at] = at + HeaderSize + part(at).len
      BY <2>2
    <3>2. /\ at \in Nat /\ part(at).len \in Nat /\ end(at) \in Nat /\ end(at) <= L /\ at >= 1
          /\ at + HeaderSize + part(at).len - 1 <= end(at)
      BY <1>1, <1>2, <1>3, <1>4, <2>2
    <3> HIDE DEF next
    <3> QED
      BY <3>1, <3>2, <1>1
  <2> QED
    BY <2>1, <2>2
<1> DEFINE parse == Parse(file)
<1>11. PhysicalRecords(file) = parse[1]
  BY <1>1, ParseIs
<1>10. \A at \in D : parse[at] = FoundFrom(file, parse, at)
  BY <1>1, ParseIs
<1> HIDE DEF parse
<1>12. ASSUME NEW at \in D
       PROVE  parse[at] = Body(parse, at)
  BY <1>10 DEF FoundFrom, end, part, intact
<1> DEFINE ps(at) == parse[at]
           Anew(at) == \E i \in at .. at + HeaderSize - 1 : i <= L /\ file[i] = <<ps(at)[1], 1>>
           OK(at) == /\ Adjacent(ps(at), parts)
                     /\ ps(at) # <<>> /\ ps(at)[1] # BadRecord => Anew(at)
           S == { n \in Nat : \A at \in D : L + 1 - at = n => OK(at) }
<1>13. ASSUME NEW at \in D, at > L
       PROVE  ps(at) = <<>> /\ OK(at)
  <2>1. ps(at) = <<>>
    BY <1>12, <1>13
  <2>2. Adjacent(<<>>, parts)
    BY DEF Adjacent
  <2> QED
    BY <2>1, <2>2
<1>14. ASSUME NEW at \in D, ~(at > L), ~skip(at), intact(at)
       PROVE  ps(at) = <<part(at)>> \o ps(next[at])
  <2>1. next[at] = at + HeaderSize + part(at).len
    BY <1>14
  <2> QED
    BY <1>12, <1>14, <2>1
<1>15. ASSUME NEW at \in D, ~(at > L), ~skip(at), ~intact(at)
       PROVE  ps(at) = <<BadRecord>> \o ps(next[at])
  <2>1. next[at] = end(at) + 1
    BY <1>15
  <2> QED
    BY <1>12, <1>15, <2>1
<1>16. ASSUME NEW at \in D, ~(at > L), skip(at)
       PROVE  next[at] = end(at) + 1 /\ ps(at) = ps(next[at])
  <2>1. next[at] = end(at) + 1
    BY <1>16
  <2> QED
    BY <1>12, <1>16, <2>1
<1> HIDE DEF next, OK, ps
<1>17. ASSUME NEW at \in D, ~(at > L), ~skip(at), OK(next[at])
       PROVE  OK(at) /\ ps(at) # <<>> /\ (ps(at)[1] # BadRecord => file[at] = <<ps(at)[1], 1>>)
  <2> DEFINE rest == ps(next[at])
  <2>1. Adjacent(rest, parts) /\ (rest # <<>> /\ rest[1] # BadRecord => Anew(next[at])) /\ next[at] \in D
    BY <1>4, <1>17 DEF OK
  <2>2. rest # <<>> => rest[1] \in Found(parts)
    BY <2>1, EmptySeq DEF Adjacent
  <2>3. at \in at .. at + HeaderSize - 1 /\ at <= L
    BY <1>1, <1>17
  <2>4. CASE intact(at)
    <3> DEFINE p == part(at)
    <3>1. /\ p \in parts /\ p.len \in Nat
          /\ \A i \in 1 .. HeaderSize + p.len : file[at + i - 1] = <<p, i>>
          /\ file[at] = <<p, 1>> /\ at \in 1 .. L
      BY <1>2, <1>3, <1>17, <2>4
    <3>2. next[at] = at + HeaderSize + p.len
      BY <1>17, <2>4 DEF next
    <3>3. ASSUME rest # <<>>, rest[1].type \in {"middle", "last"}
          PROVE  Continues(p, rest[1])
      <4>1. rest[1] # BadRecord
        BY <3>3 DEF BadRecord, Physical
      <4>2. rest[1] \in parts
        BY <2>2, <3>3, <4>1 DEF Found
      <4>3. PICK i \in next[at] .. next[at] + HeaderSize - 1 : i <= L /\ file[i] = <<rest[1], 1>>
        BY <2>1, <3>3, <4>1
      <4>4. i \in at + HeaderSize + p.len .. at + HeaderSize + p.len + HeaderSize - 1
        BY <4>3, <3>2
      <4> HIDE DEF p, rest, D, Anew
      <4> QED
        BY <3>1, <3>3, <4>2, <4>3, <4>4, FoundContinues
    <3> HIDE DEF p, rest
    <3>4. Adjacent(<<p>> \o rest, parts) /\ <<p>> \o rest # <<>> /\ (<<p>> \o rest)[1] = p
      <4>1. p \in Found(parts)
        BY <3>1 DEF Found
      <4> QED
        BY <2>1, <3>3, <4>1, AdjacentCons
    <3>5. ps(at) = <<p>> \o rest
      BY <1>14, <1>17, <2>4 DEF p, rest
    <3> HIDE DEF D
    <3> QED
      BY <2>3, <3>1, <3>4, <3>5 DEF OK
  <2>5. CASE ~intact(at)
    <3>1. Adjacent(<<BadRecord>> \o rest, parts) /\ <<BadRecord>> \o rest # <<>> /\ (<<BadRecord>> \o rest)[1] = BadRecord
      <4>1. BadRecord \in Found(parts)
        BY DEF Found
      <4> HIDE DEF rest
      <4> QED
        BY <2>1, <4>1, AdjacentCons
    <3>2. ps(at) = <<BadRecord>> \o rest
      BY <1>15, <1>17, <2>5
    <3> HIDE DEF rest, D
    <3> QED
      BY <3>1, <3>2 DEF OK
  <2> QED
    BY <2>4, <2>5
<1>18. ASSUME NEW at \in D, ~(at > L), skip(at), OK(next[at]), next[at] \in D,
              next[at] > L \/ OK(next[next[at]])
       PROVE  OK(at)
  <2> DEFINE t == next[at]
  <2>1. ps(at) = ps(t) /\ t = end(at) + 1 /\ Adjacent(ps(at), parts)
    BY <1>16, <1>18 DEF OK
  <2>2. CASE t > L
    BY <1>13, <1>18, <2>1, <2>2 DEF OK
  <2>3. CASE ~(t > L) /\ skip(t)
    <3>1. end(at) < L /\ end(at) \in Nat
      BY <1>1, <1>2, <1>18, <2>1, <2>3
    <3>2. end(t) = L
      BY <3>1, <1>1, <1>2, <1>18, <2>1, <2>3
    <3>3. ps(t) = ps(next[t]) /\ next[t] = L + 1
      BY <1>16, <1>18, <2>3, <3>2
    <3>4. L + 1 \in D /\ L + 1 > L
      BY <1>1
    <3>5. ps(L + 1) = <<>>
      BY <3>4, <1>13
    <3> QED
      BY <2>1, <3>3, <3>5 DEF OK
  <2>4. CASE ~(t > L) /\ ~skip(t)
    <3>1. ps(t) # <<>> /\ (ps(t)[1] # BadRecord => file[t] = <<ps(t)[1], 1>>)
      BY <1>17, <1>18, <2>4
    <3>2. t \in at .. at + HeaderSize - 1 /\ t <= L
      BY <1>1, <1>2, <1>18, <2>1, <2>4
    <3> HIDE DEF D
    <3> QED
      BY <2>1, <3>1, <3>2 DEF OK
  <2> QED
    BY <2>2, <2>3, <2>4
<1>19. ASSUME NEW n \in Nat, \A k \in Nat : k < n => k \in S
       PROVE  n \in S
  <2> SUFFICES ASSUME NEW at \in D, L + 1 - at = n
               PROVE  OK(at)
    OBVIOUS
  <2>1. ASSUME NEW t \in D, t > at
        PROVE  OK(t)
    <3>1. L + 1 - t \in Nat /\ L + 1 - t < n
      BY <2>1, <1>1
    <3> QED
      BY <3>1, <1>19
  <2>2. CASE at > L
    BY <1>13, <2>2
  <2>3. CASE ~(at > L)
    <3>1. next[at] \in D /\ OK(next[at])
      BY <1>4, <2>1, <2>3
    <3>2. ~(next[at] > L) => OK(next[next[at]])
      <4>1. SUFFICES ASSUME ~(next[at] > L) PROVE OK(next[next[at]])
        OBVIOUS
      <4>2. next[next[at]] \in D /\ next[next[at]] > next[at] /\ next[at] > at
        BY <1>4, <2>3, <3>1, <4>1
      <4> DEFINE t == next[at]
                 u == next[t]
      <4>3. u \in Int /\ t \in Int /\ at \in Int /\ u > t /\ t > at
        BY <4>2, <3>1
      <4>4. u > at
        <5> HIDE DEF u, t
        <5> QED
          BY <4>3
      <4> QED
        BY <4>2, <4>4, <2>1
    <3> QED
      BY <1>17, <1>18, <2>3, <3>1, <3>2
  <2> QED
    BY <2>2, <2>3
<1>20. \A n \in Nat : n \in S
  <2> HIDE DEF S
  <2> QED
    BY <1>19, SetInduction
<1>21. 1 \in D /\ L + 1 - 1 \in Nat
  BY <1>1
<1>22. OK(1)
  BY <1>20, <1>21
<1> QED
  BY <1>11, <1>22 DEF OK, ps

\* The parts of a record from its first on.
Begun(ps) ==
  /\ Len(ps) > 0
  /\ ps[1].from = 0
  /\ \A k \in 1 .. Len(ps) : ps[k].of = ps[1].of
  /\ \A k \in 2 .. Len(ps) : ps[k].from = ps[k - 1].from + ps[k - 1].len

\* A begun record with its next part is a begun record.
LEMMA BegunAppend ==
    ASSUME NEW parts, NEW ps \in Seq(parts), Begun(ps), NEW p \in parts, Continues(ps[Len(ps)], p)
    PROVE  LET qs == Append(ps, p)
           IN  /\ qs \in Seq(parts) /\ Len(qs) = Len(ps) + 1 /\ qs[1] = ps[1] /\ qs[Len(qs)] = p
               /\ Begun(qs)
<1> DEFINE qs == Append(ps, p)
           n == Len(ps)
<1>1. n \in Nat /\ n > 0
  BY DEF Begun
<1>2. /\ qs \in Seq(parts) /\ Len(qs) = n + 1 /\ qs[n + 1] = p
      /\ \A k \in 1 .. n : qs[k] = ps[k]
  BY <1>1
<1> HIDE DEF qs
<1>3. qs[1] = ps[1]
  BY <1>1, <1>2
<1>4. ASSUME NEW k \in 1 .. n + 1
      PROVE  qs[k].of = qs[1].of
  <2>1. CASE k = n + 1
    <3>1. p.of = ps[n].of /\ n \in 1 .. n
      BY <1>1 DEF Continues
    <3> QED
      BY <2>1, <3>1, <1>2, <1>3 DEF Begun
  <2>2. CASE k # n + 1
    <3>1. k \in 1 .. n
      BY <1>1, <2>2
    <3> QED
      BY <3>1, <1>2, <1>3 DEF Begun
  <2> QED
    BY <2>1, <2>2
<1>5. ASSUME NEW k \in 2 .. n + 1
      PROVE  qs[k].from = qs[k - 1].from + qs[k - 1].len
  <2>1. k - 1 \in 1 .. n /\ qs[k - 1] = ps[k - 1]
    BY <1>1, <1>2
  <2>2. CASE k = n + 1
    <3>1. k - 1 = n
      BY <1>1, <2>2
    <3> QED
      BY <2>1, <2>2, <3>1, <1>2 DEF Continues
  <2>3. CASE k # n + 1
    <3>1. k \in 2 .. n
      BY <1>1, <2>3
    <3>2. k \in 1 .. n
      BY <3>1
    <3> QED
      BY <2>1, <3>1, <3>2, <1>2 DEF Begun
  <2> QED
    BY <2>2, <2>3
<1> QED
  BY <1>1, <1>2, <1>3, <1>4, <1>5 DEF Begun, qs

\* All parts of one record.
WholeRecord(ps, size) == Len(ps) > 0 /\ Complete(ps, size[ps[1].of])

\* A begun record that ends in a full or last part is whole.
LEMMA BegunWhole ==
    ASSUME NEW O, NEW size, NEW ps \in Seq(Parts(O, size)), Begun(ps),
           ps[Len(ps)].type \in {"full", "last"}
    PROVE  WholeRecord(ps, size)
<1>1. Len(ps) \in Nat /\ Len(ps) > 0 /\ DOMAIN ps = 1 .. Len(ps) /\ Last(ps) = ps[Len(ps)]
  BY DEF Begun, Last
<1>2. Len(ps) \in 1 .. Len(ps) /\ ps[Len(ps)] \in Parts(O, size)
  BY <1>1
<1>3. ps[Len(ps)].from + ps[Len(ps)].len = size[ps[1].of]
  BY <1>2 DEF Parts, Begun
<1> QED
  BY <1>1, <1>3 DEF WholeRecord, Complete, Begun

Valid(parts) == \A p \in parts : p.len \in Nat /\ p.type \in {"full", "first", "middle", "last"}

ReadStates(parts) == [out : Seq(Seq(parts)), scratch : Seq(parts), inside : BOOLEAN]

\* What the reader has made of the first of the physical records.
Reader(ps) ==
  CHOOSE read : read = [i \in 0 .. Len(ps) |->
    IF i = 0 THEN [out |-> <<>>, scratch |-> <<>>, inside |-> FALSE] ELSE ReadPhysical(read[i - 1], ps[i])]

\* What one physical record does to it.
LEMMA ReadPhysicalIs ==
    ASSUME NEW parts, Valid(parts), NEW r \in ReadStates(parts), NEW p \in Found(parts)
    PROVE  /\ ReadPhysical(r, p) \in ReadStates(parts)
           /\ ReadPhysical(r, p).out = IF p.type = "full" THEN Append(r.out, <<p>>)
                                       ELSE IF p.type = "last" /\ r.inside THEN Append(r.out, Append(r.scratch, p))
                                       ELSE r.out
           /\ p.type = "first" => ReadPhysical(r, p).inside /\ ReadPhysical(r, p).scratch = <<p>>
           /\ p.type = "middle" /\ r.inside
                => ReadPhysical(r, p).inside /\ ReadPhysical(r, p).scratch = Append(r.scratch, p)
<1> DEFINE P == parts
           R == ReadStates(parts)
<1>1. r.out \in Seq(Seq(P)) /\ r.scratch \in Seq(P) /\ r.inside \in BOOLEAN
      /\ r = [out |-> r.out, scratch |-> r.scratch, inside |-> r.inside]
  BY DEF ReadStates
<1>2. <<>> \in Seq(P)
  OBVIOUS
<1>3. p \in P => /\ <<p>> \in Seq(P) /\ Append(r.scratch, p) \in Seq(P)
                 /\ Append(r.out, <<p>>) \in Seq(Seq(P))
                 /\ Append(r.out, Append(r.scratch, p)) \in Seq(Seq(P))
  BY <1>1, AppendProperties
<1>4. CASE p = BadRecord
  BY <1>1, <1>2, <1>4 DEF ReadPhysical, BadRecord, Physical, ReadStates
<1>5. CASE p \in P
  <2> HIDE DEF P
  <2>1. CASE p.type = "full"
    BY <2>1, <1>1, <1>2, <1>3, <1>5 DEF ReadPhysical, ReadStates, P
  <2>2. CASE p.type = "first"
    BY <2>2, <1>1, <1>2, <1>3, <1>5 DEF ReadPhysical, ReadStates, P
  <2>3. CASE p.type = "middle"
    BY <2>3, <1>1, <1>2, <1>3, <1>5 DEF ReadPhysical, ReadStates, P
  <2>4. CASE p.type = "last"
    BY <2>4, <1>1, <1>2, <1>3, <1>5 DEF ReadPhysical, ReadStates, P
  <2> QED
    BY <2>1, <2>2, <2>3, <2>4, <1>5 DEF Valid, P
<1> QED
  BY <1>4, <1>5 DEF Found

LEMMA ReaderIs ==
    ASSUME NEW parts, Valid(parts), NEW ps \in Seq(Found(parts))
    PROVE  /\ Reader(ps)[0] = [out |-> <<>>, scratch |-> <<>>, inside |-> FALSE]
           /\ \A i \in 1 .. Len(ps) : Reader(ps)[i] = ReadPhysical(Reader(ps)[i - 1], ps[i])
           /\ \A i \in 0 .. Len(ps) : Reader(ps)[i] \in ReadStates(parts)
<1> DEFINE n == Len(ps)
           R == ReadStates(parts)
           r0 == [out |-> <<>>, scratch |-> <<>>, inside |-> FALSE]
           F == [i \in 1 .. n |-> [r \in R |-> ReadPhysical(r, ps[i])]]
           Body(f, i) == IF i = 0 THEN r0 ELSE ReadPhysical(f[i - 1], ps[i])
<1>1. n \in Nat /\ \A i \in 1 .. n : ps[i] \in Found(parts)
  OBVIOUS
<1>2. r0 \in R
  BY DEF ReadStates
<1> HIDE DEF n, R, r0
<1>3. \A r \in R : \A p \in Found(parts) : ReadPhysical(r, p) \in R
  BY ReadPhysicalIs DEF R
<1>4. PICK f : Loops(f, R, r0, n, F)
  <2>1. \A i \in 1 .. n : [r \in R |-> ReadPhysical(r, ps[i])] \in [R -> R]
    BY <1>1, <1>3
  <2>2. LoopOn(R, r0, n, F)
    BY <1>1, <1>2, <2>1 DEF LoopOn
  <2> HIDE DEF F
  <2> QED
    BY <2>2, LoopExists
<1>5. f = [i \in 0 .. n |-> Body(f, i)]
  <2>1. f \in [0 .. n -> R] /\ f[0] = r0 /\ \A i \in 1 .. n : f[i] = F[i][f[i - 1]]
    BY <1>4 DEF Loops
  <2>2. ASSUME NEW i \in 0 .. n
        PROVE  f[i] = Body(f, i)
    <3>1. CASE i = 0
      BY <3>1, <2>1
    <3>2. CASE i # 0
      <4>1. i \in 1 .. n /\ i - 1 \in 0 .. n
        BY <3>2, <1>1
      <4>2. f[i - 1] \in R /\ f[i] = F[i][f[i - 1]]
        BY <4>1, <2>1
      <4> QED
        BY <4>1, <4>2, <3>2
    <3> QED
      BY <3>1, <3>2
  <2> HIDE DEF Body
  <2> QED
    BY <2>1, <2>2
<1> DEFINE read == CHOOSE read : read = [i \in 0 .. n |-> Body(read, i)]
<1>6. read = [i \in 0 .. n |-> Body(read, i)]
  <2> HIDE DEF Body
  <2> QED
    BY <1>5
<1>7. Reader(ps) = read
  BY DEF Reader, n, r0
<1> HIDE DEF read
<1>8. read[0] = r0
  BY <1>1, <1>6
<1>9. ASSUME NEW i \in 1 .. n
      PROVE  read[i] = ReadPhysical(read[i - 1], ps[i])
  <2>1. i \in 0 .. n /\ i # 0
    BY <1>1
  <2> QED
    BY <2>1, <1>6
<1>10. \A i \in 0 .. n : read[i] \in R
  <2>1. ASSUME NEW i \in 1 .. n, read[i - 1] \in R
        PROVE  read[i] \in R
    BY <2>1, <1>1, <1>3, <1>9
  <2> QED
    BY <1>1, <1>2, <1>8, <2>1, LoopStays
<1> QED
  BY <1>7, <1>8, <1>9, <1>10 DEF R, n, r0

\* The records the reader returns.
Readable(file) == { ReadRecords(file)[i][1].of : i \in 1 .. Len(ReadRecords(file)) }

LEMMA ReadRecordsAre ==
    ASSUME NEW file
    PROVE  ReadRecords(file) = Reader(PhysicalRecords(file))[Len(PhysicalRecords(file))].out
  BY DEF ReadRecords, Reader

\* Whatever was torn: what the reader returns are whole records.
LEMMA ReadRecordsWhole ==
    ASSUME NEW O, NEW size, NEW file, Written(file, Parts(O, size))
    PROVE  /\ ReadRecords(file) \in Seq(Seq(Parts(O, size)))
           /\ \A i \in 1 .. Len(ReadRecords(file)) : WholeRecord(ReadRecords(file)[i], size)
<1> DEFINE P == Parts(O, size)
           ps == PhysicalRecords(file)
           n == Len(ps)
           R == ReadStates(P)
           r0 == [out |-> <<>>, scratch |-> <<>>, inside |-> FALSE]
           read == Reader(ps)
<1>1. Adjacent(ps, P)
  <2>1. \A p \in P : p.len \in Nat /\ p.type \notin {"zero", "bad"}
    BY DEF Parts, PhysicalsOf
  <2> HIDE DEF P
  <2> QED
    BY <2>1, PhysicalRecordsAre DEF P
<1>2. Valid(P)
  BY DEF Valid, Parts, PhysicalsOf
<1>3. \A p \in P : p.type \in {"full", "first", "middle", "last"}
  BY DEF Parts, PhysicalsOf
<1>4. BadRecord.type = "bad"
  BY DEF BadRecord, Physical
<1> HIDE DEF P, ps
<1>5. n \in Nat /\ \A i \in 1 .. n : ps[i] \in P \cup {BadRecord}
  BY <1>1 DEF Adjacent, Found
<1>9. /\ read[0] = r0
      /\ \A i \in 1 .. n : read[i] = ReadPhysical(read[i - 1], ps[i])
      /\ \A i \in 0 .. n : read[i] \in R
  BY <1>1, <1>2, ReaderIs DEF Adjacent
<1>10. ReadRecords(file) = read[n].out
  BY ReadRecordsAre DEF ps
<1> HIDE DEF n, R, r0, read
<1> DEFINE OK(i) == /\ read[i] \in R
                    /\ \A k \in 1 .. Len(read[i].out) : WholeRecord(read[i].out[k], size)
                    /\ read[i].inside => /\ i > 0 /\ ps[i].type \in {"first", "middle"}
                                         /\ Begun(read[i].scratch)
                                         /\ read[i].scratch[Len(read[i].scratch)] = ps[i]
           S == { i \in Nat : i <= n => OK(i) }
<1>11. 0 \in S
  <2>1. read[0] = r0 /\ r0 \in R
    BY <1>5, <1>9
  <2>2. r0.out = <<>> /\ r0.inside = FALSE
    BY DEF r0
  <2>3. OK(0)
    BY <2>1, <2>2
  <2> QED
    BY <2>3
<1>12. ASSUME NEW i \in Nat, i \in S
       PROVE  i + 1 \in S
  <2> SUFFICES ASSUME i + 1 <= n
               PROVE  OK(i + 1)
    OBVIOUS
  <2> DEFINE r == read[i]
             p == ps[i + 1]
             t == read[i + 1]
  <2>1. i \in 0 .. n /\ i + 1 \in 1 .. n /\ i + 1 > 0 /\ OK(i)
    BY <1>5, <1>12
  <2>2. t = ReadPhysical(r, p)
    <3>1. i + 1 \in 1 .. n /\ (i + 1) - 1 = i
      BY <2>1
    <3> QED
      BY <3>1, <1>9
  <2>3. /\ r \in R /\ p \in P \cup {BadRecord} /\ t \in R
        /\ \A k \in 1 .. Len(r.out) : WholeRecord(r.out[k], size)
        /\ r.out \in Seq(Seq(P)) /\ r.scratch \in Seq(P) /\ r.inside \in BOOLEAN
    <3>1. r \in R /\ p \in P \cup {BadRecord}
      BY <1>5, <2>1
    <3>2. t \in R
      <4>1. i + 1 \in 0 .. n
        BY <2>1
      <4> QED
        BY <4>1, <1>9
    <3> HIDE DEF r, p, t
    <3>3. \A k \in 1 .. Len(r.out) : WholeRecord(r.out[k], size)
      BY <2>1 DEF r
    <3> QED
      BY <3>1, <3>2, <3>3 DEF R, ReadStates
  <2>4. r.inside /\ p.type \in {"middle", "last"} => /\ Begun(r.scratch) /\ Continues(r.scratch[Len(r.scratch)], p)
    <3> SUFFICES ASSUME r.inside, p.type \in {"middle", "last"}
                 PROVE  Begun(r.scratch) /\ Continues(r.scratch[Len(r.scratch)], p)
      OBVIOUS
    <3>1. i > 0 /\ ps[i].type \in {"first", "middle"} /\ Begun(r.scratch) /\ r.scratch[Len(r.scratch)] = ps[i]
      BY <2>1
    <3>2. i + 1 \in 2 .. n /\ (i + 1) - 1 = i
      BY <3>1, <2>1, <1>5
    <3>3. ps[i] # BadRecord
      BY <3>1, <1>4
    <3>4. Continues(ps[i], p)
      BY <3>2, <3>3, <1>1 DEF Adjacent, n
    <3> QED
      BY <3>1, <3>4
  <2> HIDE DEF r, p, t
  <2>5. ASSUME NEW qs \in Seq(P), WholeRecord(qs, size)
        PROVE  \A k \in 1 .. Len(Append(r.out, qs)) : WholeRecord(Append(r.out, qs)[k], size)
    <3>1. /\ Len(Append(r.out, qs)) = Len(r.out) + 1 /\ Len(r.out) \in Nat
          /\ Append(r.out, qs)[Len(r.out) + 1] = qs
          /\ \A k \in 1 .. Len(r.out) : Append(r.out, qs)[k] = r.out[k]
      BY <2>3, <2>5
    <3> SUFFICES ASSUME NEW k \in 1 .. Len(r.out) + 1
                 PROVE  WholeRecord(Append(r.out, qs)[k], size)
      BY <3>1
    <3>2. CASE k = Len(r.out) + 1
      BY <3>1, <3>2, <2>5
    <3>3. CASE k # Len(r.out) + 1
      <4>1. k \in 1 .. Len(r.out)
        BY <3>1, <3>3
      <4> QED
        BY <4>1, <3>1, <2>3
    <3> QED
      BY <3>2, <3>3
  <2>6. ASSUME p \in P, p.type \in {"full", "first"}
        PROVE  <<p>> \in Seq(P) /\ Begun(<<p>>) /\ <<p>>[Len(<<p>>)] = p
    <3>1. <<p>> \in Seq(P) /\ Len(<<p>>) = 1 /\ <<p>>[1] = p
      BY <2>6
    <3>2. p.from = 0
      BY <2>6 DEF P, Parts
    <3> DEFINE q == <<p>>
    <3> HIDE DEF q
    <3>3. Begun(q)
      BY <3>1, <3>2 DEF Begun, q
    <3> QED
      BY <3>1, <3>3 DEF q
  <2>7. ASSUME r.inside, p \in P, p.type \in {"middle", "last"}
        PROVE  LET qs == Append(r.scratch, p)
               IN  qs \in Seq(P) /\ Begun(qs) /\ qs[Len(qs)] = p
    BY <2>3, <2>4, <2>7, BegunAppend
  <2>8. CASE p = BadRecord
    <3>1. t = [r EXCEPT !.scratch = <<>>, !.inside = FALSE]
      BY <2>2, <2>8, <1>4 DEF ReadPhysical
    <3>2. t.out = r.out /\ t.inside = FALSE
      BY <2>3, <3>1 DEF R, ReadStates
    <3> QED
      BY <2>3, <3>2 DEF t
  <2>9. CASE p \in P /\ p.type = "full"
    <3>1. t = [out |-> Append(r.out, <<p>>), scratch |-> <<>>, inside |-> FALSE]
      BY <2>2, <2>9 DEF ReadPhysical
    <3>2. WholeRecord(<<p>>, size)
      BY <2>6, <2>9, BegunWhole DEF P
    <3>3. \A k \in 1 .. Len(t.out) : WholeRecord(t.out[k], size)
      BY <2>5, <2>6, <2>9, <3>1, <3>2
    <3> QED
      BY <2>3, <3>1, <3>3 DEF t
  <2>10. CASE p \in P /\ p.type = "first"
    <3>1. t = [r EXCEPT !.scratch = <<p>>, !.inside = TRUE]
      BY <2>2, <2>10 DEF ReadPhysical
    <3>2. t.out = r.out /\ t.scratch = <<p>>
      BY <2>3, <3>1 DEF R, ReadStates
    <3>3. Begun(t.scratch) /\ t.scratch[Len(t.scratch)] = p
      BY <2>6, <2>10, <3>2
    <3> QED
      BY <2>1, <2>3, <2>10, <3>2, <3>3 DEF t, p
  <2>11. CASE p \in P /\ p.type \in {"middle", "last"} /\ ~r.inside
    <3>1. t = r
      BY <2>2, <2>11 DEF ReadPhysical
    <3> QED
      BY <2>3, <2>11, <3>1 DEF t
  <2>12. CASE p \in P /\ p.type = "middle" /\ r.inside
    <3>1. t = [r EXCEPT !.scratch = Append(@, p), !.inside = TRUE]
      BY <2>2, <2>12 DEF ReadPhysical
    <3>2. t.out = r.out /\ t.scratch = Append(r.scratch, p)
      BY <2>3, <3>1 DEF R, ReadStates
    <3>3. Begun(t.scratch) /\ t.scratch[Len(t.scratch)] = p
      BY <2>7, <2>12, <3>2
    <3> QED
      BY <2>1, <2>3, <2>12, <3>2, <3>3 DEF t, p
  <2>13. CASE p \in P /\ p.type = "last" /\ r.inside
    <3> DEFINE qs == Append(r.scratch, p)
    <3>1. t = [out |-> Append(r.out, qs), scratch |-> <<>>, inside |-> FALSE]
      BY <2>2, <2>13 DEF ReadPhysical
    <3>2. qs \in Seq(P) /\ Begun(qs) /\ qs[Len(qs)] = p
      BY <2>7, <2>13
    <3> HIDE DEF qs
    <3>3. WholeRecord(qs, size)
      BY <3>2, <2>13, BegunWhole DEF P
    <3>4. \A k \in 1 .. Len(t.out) : WholeRecord(t.out[k], size)
      BY <2>5, <3>1, <3>2, <3>3
    <3> QED
      BY <2>3, <3>1, <3>4 DEF t
  <2> QED
    BY <2>3, <2>8, <2>9, <2>10, <2>11, <2>12, <2>13, <1>3
<1>13. n \in S
  <2> HIDE DEF S
  <2> QED
    BY <1>5, <1>11, <1>12, StepInduction
<1>14. OK(n)
  BY <1>5, <1>13
<1>15. read[n].out \in Seq(Seq(P))
  BY <1>14 DEF R, ReadStates
<1> QED
  BY <1>10, <1>14, <1>15 DEF P

-----------------------------------------------------------------------------
(* What the reader finds again *)

\* A place o bytes after the begin of a block.
Stands(n, o) == \E m \in Nat : n = m * BlockSize + o

\* Where a file stands in a block.
AtOffset(file, o) == o \in 0 .. BlockSize /\ Stands(Len(file), o)

\* Some bytes on, and the end of a block.
LEMMA StandsOn ==
    ASSUME NEW n \in Nat, NEW o \in Nat, Stands(n, o), NEW k \in Nat
    PROVE  /\ Stands(n + k, o + k)
           /\ o + k = BlockSize => Stands(n + k, 0)
<1>1. BlockSize \in Nat /\ BlockSize > 0
  BY LogFormatAssumption
<1>2. PICK m \in Nat : n = m * BlockSize + o
  BY DEF Stands
<1> DEFINE q == m * BlockSize
<1>3. q \in Nat /\ (m + 1) * BlockSize = q + BlockSize /\ n = q + o
  BY <1>1, <1>2
<1>4. n + k = m * BlockSize + (o + k)
  <2>1. n + k = q + (o + k)
    <3> HIDE DEF q
    <3> QED
      BY <1>3
  <2> QED
    BY <2>1
<1>5. ASSUME o + k = BlockSize
      PROVE  n + k = (m + 1) * BlockSize + 0
  <2> HIDE DEF q
  <2> QED
    BY <1>1, <1>3, <1>5
<1>6. m + 1 \in Nat
  OBVIOUS
<1> QED
  BY <1>4, <1>5, <1>6 DEF Stands

\* The end of the block a place is in.
LEMMA BlockEndHere ==
    ASSUME NEW file, Len(file) \in Nat, NEW n \in Nat, NEW o \in Nat, o < BlockSize, Stands(n, o)
    PROVE  LET e == n - o + BlockSize
           IN  BlockEndOf(file, n + 1) = IF e < Len(file) THEN e ELSE Len(file)
<1>1. BlockSize \in Nat /\ BlockSize > 0
  BY LogFormatAssumption
<1>2. PICK m \in Nat : n = m * BlockSize + o
  BY DEF Stands
<1> DEFINE q == m * BlockSize
<1>3. q \in Nat /\ (m + 1) * BlockSize = q + BlockSize /\ n = q + o
  BY <1>1, <1>2
<1>4. (m * BlockSize + o) \div BlockSize = m
  BY <1>1
<1>5. ((n + 1) - 1) \div BlockSize = m
  <2>1. (n + 1) - 1 = m * BlockSize + o
    BY <1>2
  <2> QED
    BY <1>4, <2>1
<1>6. (m + 1) * BlockSize = n - o + BlockSize
  <2> HIDE DEF q
  <2> QED
    BY <1>1, <1>3
<1> QED
  BY <1>5, <1>6 DEF BlockEndOf

\* Where a part ends in its block, and where that block ends.
LEMMA PartPlaces ==
    ASSUME NEW n \in Nat, NEW o \in Nat, NEW len \in Nat, NEW s, s = HeaderSize + len, o + s <= BlockSize,
           NEW L \in Nat, n + s <= L,
           NEW end, end = IF n - o + BlockSize < L THEN n - o + BlockSize ELSE L
    PROVE  /\ n + s <= end /\ end \in Nat /\ n + 1 \in 1 .. L + 1 /\ ~(n + 1 > L)
           /\ ~(end - (n + 1) + 1 < HeaderSize) /\ (n + 1) + HeaderSize + len - 1 <= end
           /\ (n + 1) + HeaderSize + len = n + s + 1
  BY LogFormatAssumption

\* The bytes of a part, or of an emission, are in a file after a place.
PartAt(file, n, p) ==
  /\ n + HeaderSize + p.len <= Len(file)
  /\ \A i \in 1 .. HeaderSize + p.len : file[n + i] = <<p, i>>

EmittedAt(file, n, e) ==
  /\ n + Len(EmittedBytes(e)) <= Len(file)
  /\ \A i \in 1 .. Len(EmittedBytes(e)) : file[n + i] = EmittedBytes(e)[i]

Room(o, p) == o + HeaderSize + p.len <= BlockSize

\* A whole part, where a block has room for it, is found.
LEMMA ParsePart ==
    ASSUME NEW parts, Valid(parts), NEW file \in Seq(BytesOf(parts)), NEW p \in parts,
           NEW n \in Nat, NEW o \in Nat, Stands(n, o), Room(o, p), PartAt(file, n, p)
    PROVE  Parse(file)[n + 1] = <<p>> \o Parse(file)[n + HeaderSize + p.len + 1]
<1> DEFINE end == BlockEndOf(file, n + 1)
           len == p.len
           L == Len(file)
           s == HeaderSize + len
<1>1. len \in Nat /\ L \in Nat /\ o + HeaderSize + len <= BlockSize /\ n + HeaderSize + len <= L
  BY DEF Valid, Room, PartAt
<1>2. p.type # "zero" /\ \A i \in 1 .. HeaderSize + len : file[n + i] = <<p, i>>
  BY DEF Valid, PartAt
<1> HIDE DEF len
<1>3. s = HeaderSize + len /\ o + s <= BlockSize /\ n + s <= L /\ o < BlockSize
  BY <1>1, LogFormatAssumption
<1>4. end = IF n - o + BlockSize < L THEN n - o + BlockSize ELSE L
  BY <1>1, <1>3, BlockEndHere
<1> HIDE DEF end, L, s
<1>5. /\ n + s <= end /\ end \in Nat /\ n + 1 \in 1 .. L + 1 /\ ~(n + 1 > L)
      /\ ~(end - (n + 1) + 1 < HeaderSize) /\ (n + 1) + HeaderSize + len - 1 <= end
      /\ (n + 1) + HeaderSize + len = n + s + 1
  BY <1>1, <1>3, <1>4, PartPlaces
<1>6. ASSUME NEW i \in 1 .. HeaderSize + len
      PROVE  file[(n + 1) + i - 1] = <<p, i>>
  <2>1. (n + 1) + i - 1 = n + i
    OBVIOUS
  <2> QED
    BY <1>2, <2>1
<1>7. file[n + 1] = <<p, 1>>
  <2>1. 1 \in 1 .. HeaderSize + len
    BY <1>1, LogFormatAssumption
  <2> QED
    BY <1>2, <2>1
<1>8. file[n + 1][1] = p
  BY <1>7
<1>9. IntactAt(file, n + 1, end)
  BY <1>2, <1>5, <1>6, <1>8 DEF IntactAt, len
<1>10. Parse(file)[n + 1] = FoundFrom(file, Parse(file), n + 1)
  <2> HIDE DEF Parse
  <2>1. n + 1 \in 1 .. Len(file) + 1
    BY <1>5 DEF L
  <2> QED
    BY <2>1, ParseIs DEF Valid
<1>11. n + HeaderSize + len + 1 = (n + 1) + HeaderSize + len
  BY <1>1, LogFormatAssumption
<1> QED
  BY <1>5, <1>8, <1>9, <1>10, <1>11 DEF FoundFrom, end, L, len

\* What was emitted at a place is found from there.
LEMMA ParseEmission ==
    ASSUME NEW parts, Valid(parts), NEW file \in Seq(BytesOf(parts)), NEW e \in EmissionsOf(parts),
           NEW n \in Nat, NEW o \in 0 .. BlockSize, Stands(n, o), Fits(e, o), EmittedAt(file, n, e)
    PROVE  LET l == Len(EmittedBytes(e))
           IN  /\ l \in Nat
               /\ Parse(file)[n + 1] = <<e.record>> \o Parse(file)[n + l + 1]
               /\ Stands(n + l, e.offset) /\ e.offset \in 0 .. BlockSize
<1> DEFINE p == e.record
           len == p.len
           z == e.trailer
           s == HeaderSize + len
           a == e.offset
           L == Len(file)
           l == Len(EmittedBytes(e))
           full == BlockSize - o < HeaderSize
<1>1. z \in Nat /\ a \in 0 .. BlockSize /\ L \in Nat
  BY LogFormatAssumption DEF EmissionsOf
<1>2. p \in parts /\ len \in Nat
  BY DEF EmissionsOf, Valid
<1>3. l = z + HeaderSize + len
      /\ \A i \in z + 1 .. z + HeaderSize + len : EmittedBytes(e)[i] = <<p, i - z>>
  BY EmittedBytesAre DEF Valid
<1>4. /\ z = IF full THEN BlockSize - o ELSE 0
      /\ a = (IF full THEN 0 ELSE o) + HeaderSize + len
  BY DEF Fits
<1>5. n + l <= L /\ \A i \in 1 .. l : file[n + i] = EmittedBytes(e)[i]
  BY DEF EmittedAt
<1> HIDE DEF p, z, a, L, l, full, len
<1>6. s \in Nat /\ s >= HeaderSize /\ l = z + s /\ a = (IF full THEN 0 ELSE o) + s /\ s = HeaderSize + len
  BY <1>1, <1>2, <1>3, <1>4, LogFormatAssumption
<1>7. \A i \in z + 1 .. z + s : EmittedBytes(e)[i] = <<p, i - z>>
  BY <1>1, <1>2, <1>3, <1>6, LogFormatAssumption
<1> HIDE DEF s
<1> DEFINE u == n + z
           x == IF full THEN 0 ELSE o
<1>8. full \in BOOLEAN /\ (full <=> BlockSize - o < HeaderSize)
  BY DEF full
<1>9. /\ u \in Nat /\ u + s = n + l /\ x \in Nat /\ x + s <= BlockSize /\ l \in Nat
      /\ u + s <= L /\ u + s + 1 = n + l + 1 /\ a = x + s /\ (~full => u = n)
      /\ full => o + z = BlockSize /\ (o < BlockSize => n - o + BlockSize = u)
      /\ u - (n + 1) + 1 < HeaderSize /\ ~(n + 1 > L) /\ n + 1 \in 1 .. L + 1 /\ u < L
  <2>1. l = z + s /\ z = (IF full THEN BlockSize - o ELSE 0) /\ a = (IF full THEN 0 ELSE o) + s
    BY <1>4, <1>6
  <2>2. z \in Nat /\ s \in Nat /\ s >= HeaderSize /\ a \in 0 .. BlockSize /\ L \in Nat /\ n + l <= L
    BY <1>1, <1>5, <1>6
  <2>3. u = n + z /\ x = IF full THEN 0 ELSE o
    OBVIOUS
  <2> HIDE DEF u, x
  <2>4. CASE full
    BY <2>1, <2>2, <2>3, <2>4, <1>8, LogFormatAssumption
  <2>5. CASE ~full
    BY <2>1, <2>2, <2>3, <2>5, <1>8, LogFormatAssumption
  <2> QED
    BY <2>4, <2>5, <1>8
<1>10. Stands(u, x)
  <2>1. CASE full
    <3>1. o + z = BlockSize /\ o \in Nat
      BY <1>9, <2>1
    <3> QED
      BY <1>1, <2>1, <3>1, StandsOn
  <2>2. CASE ~full
    BY <1>9, <2>2
  <2> QED
    BY <2>1, <2>2, <1>8
<1> HIDE DEF x
<1>11. PartAt(file, u, p)
  <2>1. ASSUME NEW i \in 1 .. s
        PROVE  file[u + i] = <<p, i>>
    <3>1. z + i \in 1 .. l /\ z + i \in z + 1 .. z + s /\ u + i = n + (z + i) /\ (z + i) - z = i
      BY <1>1, <1>6
    <3> HIDE DEF u
    <3> QED
      BY <3>1, <1>5, <1>7
  <2>2. u + HeaderSize + len = u + s
    BY <1>2, <1>6, <1>9, LogFormatAssumption
  <2> HIDE DEF u
  <2>3. u + HeaderSize + len <= L /\ \A i \in 1 .. HeaderSize + len : file[u + i] = <<p, i>>
    BY <1>6, <1>9, <2>1, <2>2
  <2> QED
    BY <2>3 DEF PartAt, L, len
<1> HIDE DEF u
<1>12. Room(x, p)
  <2>1. x + HeaderSize + len <= BlockSize
    BY <1>2, <1>6, <1>9, LogFormatAssumption
  <2> QED
    BY <2>1 DEF Room, len
<1>13. Parse(file)[u + 1] = <<p>> \o Parse(file)[n + l + 1]
  <2>1. Parse(file)[u + 1] = <<p>> \o Parse(file)[u + HeaderSize + len + 1]
    BY <1>2, <1>9, <1>10, <1>11, <1>12, ParsePart DEF len
  <2>2. u + HeaderSize + len + 1 = n + l + 1
    BY <1>2, <1>6, <1>9, LogFormatAssumption
  <2> QED
    BY <2>1, <2>2
<1>14. Parse(file)[n + 1] = Parse(file)[u + 1]
  <2>1. CASE u = n
    BY <2>1
  <2>2. CASE u # n
    <3> DEFINE end == BlockEndOf(file, n + 1)
    <3>1. full
      BY <1>8, <1>9, <2>2
    <3>2. o \in Nat /\ o < BlockSize
      <4>1. o + z = BlockSize /\ o \in Nat /\ u = n + z
        BY <3>1, <1>9 DEF u
      <4> QED
        BY <4>1, <1>1, <2>2
    <3>3. end = IF n - o + BlockSize < L THEN n - o + BlockSize ELSE L
      BY <3>2, <1>1, BlockEndHere DEF L
    <3> HIDE DEF end
    <3>4. u < L /\ n - o + BlockSize = u /\ u - (n + 1) + 1 < HeaderSize /\ ~(n + 1 > L) /\ n + 1 \in 1 .. L + 1
      BY <3>1, <3>2, <1>9
    <3>5. end = u /\ end - (n + 1) + 1 < HeaderSize
      BY <3>3, <3>4
    <3>6. Parse(file)[n + 1] = FoundFrom(file, Parse(file), n + 1)
      BY <3>4, ParseIs DEF L, Valid
    <3> QED
      BY <3>4, <3>5, <3>6 DEF FoundFrom, end, L
  <2> QED
    BY <2>1, <2>2
<1>15. Stands(n + l, a) /\ a \in 0 .. BlockSize
  <2>1. Stands(u + s, x + s)
    BY <1>6, <1>9, <1>10, StandsOn
  <2> QED
    BY <2>1, <1>1, <1>9
<1> QED
  BY <1>9, <1>13, <1>14, <1>15 DEF p, a, l

\* A file after whose end the reader starts afresh: what is in front of it and
\* what follows it are read each on their own.
EndsWhole(file, parts) ==
  /\ file \in Seq(BytesOf(parts))
  /\ \A ext \in Seq(BytesOf(parts)) :
       PhysicalRecords(file \o ext) = PhysicalRecords(file) \o Parse(file \o ext)[Len(file) + 1]

\* An empty file is one.
LEMMA EmptyEnds ==
    ASSUME NEW parts, Valid(parts)
    PROVE  EndsWhole(<<>>, parts) /\ AtOffset(<<>>, 0) /\ PhysicalRecords(<<>>) = <<>>
<1> DEFINE A == BytesOf(parts)
<1>1. <<>> \in Seq(A) /\ Len(<<>>) = 0
  OBVIOUS
<1>2. \A f \in Seq(A) : PhysicalRecords(f) = Parse(f)[1]
  BY ParseIs DEF Valid
<1>3. PhysicalRecords(<<>>) = <<>>
  <2> DEFINE e == <<>>
  <2>1. e \in Seq(A) /\ Len(e) = 0
    OBVIOUS
  <2>2. <<>> = e
    OBVIOUS
  <2> HIDE DEF e, A
  <2>3. \A at \in 1 .. Len(e) + 1 : Parse(e)[at] = FoundFrom(e, Parse(e), at)
    BY <2>1, ParseIs DEF Valid, A
  <2>4. Parse(e)[1] = FoundFrom(e, Parse(e), 1)
    BY <2>1, <2>3
  <2>5. FoundFrom(e, Parse(e), 1) = <<>>
    BY <2>1 DEF FoundFrom
  <2>6. PhysicalRecords(e) = <<>>
    BY <2>1, <2>4, <2>5, <1>2
  <2> QED
    BY <2>2, <2>6
<1>4. ASSUME NEW ext \in Seq(A)
      PROVE  PhysicalRecords(<<>> \o ext) = PhysicalRecords(<<>>) \o Parse(<<>> \o ext)[Len(<<>>) + 1]
  <2>1. <<>> \o ext = ext
    BY <1>4
  <2>2. Parse(ext)[1] \in Seq(Found(parts))
    <3>1. 1 \in 1 .. Len(ext) + 1
      BY <1>4
    <3> QED
      BY <3>1, <1>4, ParseIs DEF Valid
  <2>3. <<>> \o Parse(ext)[1] = Parse(ext)[1]
    BY <2>2
  <2>4. Len(<<>>) + 1 = 1
    BY <1>1
  <2>5. PhysicalRecords(ext) = Parse(ext)[1]
    BY <1>2, <1>4
  <2> QED
    BY <1>3, <2>1, <2>3, <2>4, <2>5
<1>5. AtOffset(<<>>, 0)
  <2>1. 0 = 0 * BlockSize + 0 /\ BlockSize \in Nat /\ 0 \in 0 .. BlockSize
    BY LogFormatAssumption
  <2> QED
    BY <2>1, <1>1 DEF AtOffset, Stands
<1> QED
  BY <1>1, <1>3, <1>4, <1>5 DEF EndsWhole

\* The bytes of the one are found behind those of the other.
Behind(f, b, ext, A) ==
  /\ (f \o b) \o ext = f \o (b \o ext) /\ b \o ext \in Seq(A) /\ (f \o b) \o ext \in Seq(A)
  /\ f \o b \in Seq(A) /\ Len(f \o b) = Len(f) + Len(b)
  /\ Len(f) + Len(b) <= Len((f \o b) \o ext) /\ Len(f) \in Nat /\ Len(b) \in Nat
  /\ \A i \in 1 .. Len(b) : ((f \o b) \o ext)[Len(f) + i] = b[i]

LEMMA BehindOther ==
    ASSUME NEW A, NEW f \in Seq(A), NEW b \in Seq(A), NEW ext \in Seq(A)
    PROVE  Behind(f, b, ext, A)
<1>1. /\ f \o b \in Seq(A) /\ b \o ext \in Seq(A) /\ f \o (b \o ext) = (f \o b) \o ext
  BY ConcatThree
<1>2. /\ Len(f \o b) = Len(f) + Len(b) /\ Len(f) \in Nat /\ Len(b) \in Nat /\ Len(ext) \in Nat
      /\ \A i \in 1 .. Len(b) : (f \o b)[Len(f) + i] = b[i]
  BY ConcatProperties
<1> DEFINE g == f \o b
<1> HIDE DEF g
<1>3. g \in Seq(A)
  BY <1>1 DEF g
<1>4. /\ g \o ext \in Seq(A) /\ Len(g \o ext) = Len(g) + Len(ext)
      /\ \A i \in 1 .. Len(g) : (g \o ext)[i] = g[i]
  BY <1>3, ConcatProperties
<1>5. ASSUME NEW i \in 1 .. Len(b)
      PROVE  (g \o ext)[Len(f) + i] = b[i]
  <2>1. Len(f) + i \in 1 .. Len(g) /\ g[Len(f) + i] = b[i]
    BY <1>2 DEF g
  <2> QED
    BY <2>1, <1>4
<1>6. Len(f) + Len(b) <= Len(g \o ext)
  BY <1>2, <1>4 DEF g
<1> QED
  BY <1>1, <1>2, <1>4, <1>5, <1>6 DEF g, Behind

\* What is emitted behind such a file is found, and leaves such a file.
LEMMA EmissionFound ==
    ASSUME NEW parts, Valid(parts), NEW file, EndsWhole(file, parts), NEW o, AtOffset(file, o),
           NEW e \in EmissionsOf(parts), Fits(e, o)
    PROVE  LET g == file \o EmittedBytes(e)
           IN  /\ EndsWhole(g, parts) /\ AtOffset(g, e.offset)
               /\ PhysicalRecords(g) = PhysicalRecords(file) \o <<e.record>>
<1> DEFINE A == BytesOf(parts)
           b == EmittedBytes(e)
           g == file \o b
           n == Len(file)
           l == Len(b)
           F == Found(parts)
           ps == PhysicalRecords(file)
           p == <<e.record>>
<1>1. file \in Seq(A) /\ o \in 0 .. BlockSize /\ Stands(n, o) /\ n \in Nat
  BY DEF EndsWhole, AtOffset
<1>2. b \in Seq(A)
  BY EmittedBytesAre DEF Valid
<1>3. ps \in Seq(F) /\ p \in Seq(F)
  <2>1. e.record \in F
    BY DEF EmissionsOf, Found
  <2>2. 1 \in 1 .. n + 1
    BY <1>1
  <2>3. ps = Parse(file)[1] /\ Parse(file)[1] \in Seq(F)
    BY <2>2, <1>1, ParseIs DEF Valid
  <2> QED
    BY <2>1, <2>3
<1> HIDE DEF A, b, ps, F, p
<1>4. ASSUME NEW ext \in Seq(A)
      PROVE  /\ PhysicalRecords(g \o ext) = (ps \o p) \o Parse(g \o ext)[Len(g) + 1]
             /\ Stands(Len(g), e.offset) /\ e.offset \in 0 .. BlockSize
             /\ g \o ext \in Seq(A) /\ Len(g) \in Nat /\ Len(g) <= Len(g \o ext)
             /\ Parse(g \o ext)[Len(g) + 1] \in Seq(F)
  <2> DEFINE h == g \o ext
  <2>0. file \in Seq(A) /\ b \in Seq(A) /\ ext \in Seq(A)
    BY <1>1, <1>2
  <2>1. /\ h = file \o (b \o ext) /\ b \o ext \in Seq(A) /\ h \in Seq(A)
        /\ Len(g) = n + l /\ n + l <= Len(h) /\ n \in Nat /\ l \in Nat
        /\ \A i \in 1 .. l : h[n + i] = b[i]
    <3> HIDE DEF g
    <3>1. \A f, c, x \in Seq(A) : Behind(f, c, x, A)
      BY ONLY BehindOther
    <3>2. Behind(file, b, ext, A)
      BY ONLY <2>0, <3>1
    <3> QED
      BY ONLY <3>2 DEF Behind, g, h
  <2> HIDE DEF h
  <2>2. PhysicalRecords(h) = ps \o Parse(h)[n + 1]
    BY <2>1 DEF EndsWhole, A, ps
  <2>3. EmittedAt(h, n, e)
    BY <2>1 DEF EmittedAt, b
  <2>4. /\ Parse(h)[n + 1] = p \o Parse(h)[n + l + 1]
        /\ Stands(n + l, e.offset) /\ e.offset \in 0 .. BlockSize
    <3>1. h \in Seq(BytesOf(parts))
      BY <2>1 DEF A
    <3>2. /\ Parse(h)[n + 1] = <<e.record>> \o Parse(h)[n + Len(EmittedBytes(e)) + 1]
          /\ Stands(n + Len(EmittedBytes(e)), e.offset) /\ e.offset \in 0 .. BlockSize
      BY <1>1, <2>1, <2>3, <3>1, ParseEmission
    <3> QED
      BY <3>2 DEF b, p
  <2>5. Parse(h)[n + l + 1] \in Seq(F)
    <3>1. n + l + 1 \in 1 .. Len(h) + 1
      BY <2>1
    <3> QED
      BY <3>1, <2>1, ParseIs DEF Valid, A, F
  <2>6. ps \o (p \o Parse(h)[n + l + 1]) = (ps \o p) \o Parse(h)[n + l + 1]
    <3> DEFINE r == Parse(h)[n + l + 1]
    <3>1. r \in Seq(F)
      BY <2>5
    <3> HIDE DEF r
    <3>2. ps \o (p \o r) = (ps \o p) \o r
      BY ONLY <1>3, <3>1, ConcatThree
    <3> QED
      BY <3>2 DEF r
  <2>7. n + l + 1 = Len(g) + 1
    BY <2>1
  <2> HIDE DEF g
  <2>8. PhysicalRecords(h) = (ps \o p) \o Parse(h)[Len(g) + 1]
    BY <2>2, <2>4, <2>6, <2>7
  <2>9. Stands(Len(g), e.offset) /\ Len(g) \in Nat /\ Len(g) <= Len(h) /\ Parse(h)[Len(g) + 1] \in Seq(F)
    BY <2>1, <2>4, <2>5, <2>7
  <2>10. e.offset \in 0 .. BlockSize /\ h \in Seq(A)
    BY <2>1, <2>4
  <2> QED
    BY ONLY <2>8, <2>9, <2>10 DEF h
<1>5. g \in Seq(A) /\ <<>> \in Seq(A)
  BY <1>1, <1>2, ConcatProperties
<1> HIDE DEF g
<1>6. PhysicalRecords(g) = ps \o p
  <2>1. g \o <<>> = g
    BY <1>5
  <2>2. PhysicalRecords(g) = (ps \o p) \o Parse(g)[Len(g) + 1]
    BY <1>4, <1>5, <2>1
  <2>3. Parse(g)[Len(g) + 1] = <<>>
    <3>1. Len(g) + 1 \in 1 .. Len(g) + 1 /\ Len(g) + 1 > Len(g)
      BY <1>5
    <3>2. Parse(g)[Len(g) + 1] = FoundFrom(g, Parse(g), Len(g) + 1)
      BY <3>1, <1>5, ParseIs DEF Valid, A
    <3> QED
      BY <3>1, <3>2 DEF FoundFrom
  <2>4. ps \o p \in Seq(F)
    BY <1>3, ConcatProperties
  <2> DEFINE qs == ps \o p
  <2> HIDE DEF qs
  <2>5. qs \in Seq(F)
    BY <2>4 DEF qs
  <2>6. qs \o <<>> = qs
    BY <2>5
  <2> QED
    BY <2>2, <2>3, <2>6 DEF qs
<1>7. EndsWhole(g, parts)
  BY <1>4, <1>5, <1>6 DEF EndsWhole, A
<1>8. AtOffset(g, e.offset)
  BY <1>4, <1>5 DEF AtOffset
<1> QED
  BY <1>6, <1>7, <1>8 DEF g, b, ps, p

\* All that is emitted behind such a file is found, in its order.
LEMMA EmissionsFound ==
    ASSUME NEW parts, Valid(parts), NEW file, EndsWhole(file, parts), NEW o, AtOffset(file, o),
           NEW es \in Seq(EmissionsOf(parts)), es # <<>>, FitTogether(es, o)
    PROVE  LET g == file \o AllBytes(es)
               rs == [k \in 1 .. Len(es) |-> es[k].record]
           IN  /\ EndsWhole(g, parts) /\ AtOffset(g, es[Len(es)].offset)
               /\ PhysicalRecords(g) = PhysicalRecords(file) \o rs
<1> DEFINE A == BytesOf(parts)
           E == EmissionsOf(parts)
           F == Found(parts)
           n == Len(es)
           ps == PhysicalRecords(file)
           Rs(k) == [j \in 1 .. k |-> es[j].record]
<1>1. PICK f : BytesUpTo(f, es, A)
  BY AllBytesAre DEF Valid
<1>2. /\ f \in [0 .. n -> Seq(A)] /\ f[0] = <<>> /\ AllBytes(es) = f[n]
      /\ \A k \in 1 .. n : f[k] = f[k - 1] \o EmittedBytes(es[k])
  BY <1>1 DEF BytesUpTo
<1>3. n \in Nat /\ n > 0 /\ (\A k \in 1 .. n : es[k] \in E) /\ file \in Seq(A)
  BY EmptySeq DEF EndsWhole
<1>4. ps \in Seq(F)
  <2>1. 1 \in 1 .. Len(file) + 1
    BY <1>3
  <2> QED
    BY <1>3, <2>1, ParseIs DEF Valid
<1>5. \A k \in 1 .. n : es[k].record \in F /\ EmittedBytes(es[k]) \in Seq(A)
  <2>1. \A k \in 1 .. n : es[k].record \in F
    BY <1>3 DEF EmissionsOf, Found
  <2> QED
    BY <1>3, <2>1, EmittedBytesAre DEF Valid
<1> HIDE DEF A, E, F, n, ps
<1>6. ASSUME NEW k \in 1 .. n
      PROVE  /\ k - 1 \in 0 .. n /\ k \in 0 .. n
             /\ file \o f[k] = (file \o f[k - 1]) \o EmittedBytes(es[k])
             /\ ps \o Rs(k) = (ps \o Rs(k - 1)) \o <<es[k].record>>
  <2>1. k - 1 \in 0 .. n /\ k \in 0 .. n
    BY <1>3
  <2> DEFINE x == f[k - 1]
             b == EmittedBytes(es[k])
             r == es[k].record
             q == Rs(k - 1)
             t == Rs(k)
  <2>2. x \in Seq(A) /\ b \in Seq(A) /\ r \in F /\ f[k] = x \o b
    BY <2>1, <1>2, <1>5
  <2>3. q \in Seq(F) /\ t \in Seq(F) /\ Len(q) = k - 1 /\ Len(t) = k
    <3>1. ASSUME NEW m \in Nat, m <= n
          PROVE  Rs(m) \in Seq(F) /\ Len(Rs(m)) = m
      <4>1. Rs(m) \in [1 .. m -> F]
        BY <1>5, <3>1, <1>3
      <4> DEFINE w == Rs(m)
      <4> HIDE DEF w
      <4> QED
        BY <4>1 DEF w
    <3> HIDE DEF Rs
    <3> QED
      BY <2>1, <1>3, <3>1
  <2>4. (\A j \in 1 .. k - 1 : t[j] = q[j]) /\ t[k] = r
    BY <2>1
  <2> HIDE DEF x, b, r, q, t
  <2>5. file \o (x \o b) = (file \o x) \o b
    <3>1. file \in Seq(A) /\ x \in Seq(A) /\ b \in Seq(A)
      BY <1>3, <2>2
    <3> QED
      BY ONLY <3>1, ConcatThree
  <2>6. <<r>> \in Seq(F) /\ Len(<<r>>) = 1 /\ <<r>>[1] = r
    BY <2>2
  <2> DEFINE s == <<r>>
  <2> HIDE DEF s
  <2>7. ps \o (q \o s) = (ps \o q) \o s
    BY ONLY <1>4, <2>3, <2>6, ConcatThree DEF s
  <2>8. t = q \o s
    <3>1. /\ q \o s \in Seq(F) /\ Len(q \o s) = k
          /\ (\A j \in 1 .. k - 1 : (q \o s)[j] = q[j]) /\ (q \o s)[(k - 1) + 1] = s[1]
      <4>1. s \in Seq(F) /\ Len(s) = 1 /\ q \in Seq(F) /\ Len(q) = k - 1
        BY <2>3, <2>6 DEF s
      <4>2. /\ q \o s \in Seq(F) /\ Len(q \o s) = Len(q) + Len(s)
            /\ \A j \in 1 .. Len(q) + Len(s) : (q \o s)[j] = IF j <= Len(q) THEN q[j] ELSE s[j - Len(q)]
        BY ONLY <4>1, ConcatProperties
      <4> DEFINE u == q \o s
      <4> HIDE DEF u
      <4>3. \A j \in 1 .. k : u[j] = IF j <= k - 1 THEN q[j] ELSE s[j - (k - 1)]
        BY <4>1, <4>2 DEF u
      <4>4. k \in Nat /\ k >= 1 /\ (k - 1) + 1 = k /\ k - (k - 1) = 1
        BY <2>1, <1>3
      <4>5. (\A j \in 1 .. k - 1 : u[j] = q[j]) /\ u[k] = s[1]
        BY <4>3, <4>4
      <4> QED
        BY <4>1, <4>2, <4>4, <4>5 DEF u
    <3>2. (k - 1) + 1 = k
      OBVIOUS
    <3> DEFINE u == q \o s
    <3> HIDE DEF u
    <3>3. \A j \in 1 .. k : t[j] = u[j]
      BY <2>4, <2>6, <3>1, <3>2 DEF u, s
    <3> QED
      BY <2>3, <3>1, <3>3, SeqEqual DEF u
  <2> QED
    BY <2>1, <2>2, <2>5, <2>7, <2>8 DEF x, b, r, q, t, s
<1> DEFINE OK(k) == /\ EndsWhole(file \o f[k], parts)
                    /\ AtOffset(file \o f[k], IF k = 0 THEN o ELSE es[k].offset)
                    /\ PhysicalRecords(file \o f[k]) = ps \o Rs(k)
           S == { k \in Nat : k <= n => OK(k) }
<1>7. 0 \in S
  <2>1. file \o f[0] = file
    BY <1>2, <1>3
  <2>2. Rs(0) = <<>> /\ ps \o <<>> = ps
    BY <1>4
  <2>3. OK(0)
    BY <2>1, <2>2 DEF ps
  <2> QED
    BY <2>3
<1>8. ASSUME NEW k \in Nat, k \in S
      PROVE  k + 1 \in S
  <2> SUFFICES ASSUME k + 1 <= n
               PROVE  OK(k + 1)
    OBVIOUS
  <2> DEFINE e == es[k + 1]
             g == file \o f[k]
             at == IF k = 0 THEN o ELSE es[k].offset
  <2>1. OK(k) /\ k + 1 \in 1 .. n /\ (k + 1) - 1 = k /\ k + 1 # 0
    BY <1>3, <1>8
  <2>2. EndsWhole(g, parts) /\ AtOffset(g, at) /\ PhysicalRecords(g) = ps \o Rs(k)
    BY <2>1
  <2>3. Fits(e, at) /\ e \in EmissionsOf(parts)
    <3>1. e \in EmissionsOf(parts)
      BY <2>1, <1>3 DEF E
    <3>2. CASE k = 0
      BY <3>1, <3>2 DEF FitTogether
    <3>3. CASE k # 0
      <4>1. k + 1 \in 2 .. Len(es)
        BY <3>3, <2>1 DEF n
      <4>2. Fits(es[k + 1], es[(k + 1) - 1].offset)
        BY <4>1 DEF FitTogether
      <4> QED
        BY <3>1, <3>3, <4>2, <2>1
    <3> QED
      BY <3>2, <3>3
  <2>4. /\ file \o f[k + 1] = g \o EmittedBytes(e)
        /\ ps \o Rs(k + 1) = (ps \o Rs(k)) \o <<e.record>>
    <3> HIDE DEF Rs
    <3>1. /\ file \o f[k + 1] = (file \o f[(k + 1) - 1]) \o EmittedBytes(es[k + 1])
          /\ ps \o Rs(k + 1) = (ps \o Rs((k + 1) - 1)) \o <<es[k + 1].record>>
      BY <2>1, <1>6
    <3> QED
      BY <3>1, <2>1
  <2> HIDE DEF e, g, at, Rs
  <2>5. /\ EndsWhole(g \o EmittedBytes(e), parts) /\ AtOffset(g \o EmittedBytes(e), e.offset)
        /\ PhysicalRecords(g \o EmittedBytes(e)) = PhysicalRecords(g) \o <<e.record>>
    BY <2>2, <2>3, EmissionFound
  <2> QED
    BY <2>1, <2>2, <2>4, <2>5 DEF e
<1>9. n \in S
  <2> HIDE DEF S
  <2> QED
    BY <1>3, <1>7, <1>8, StepInduction
<1>10. OK(n)
  BY <1>3, <1>9
<1> QED
  BY <1>2, <1>3, <1>10 DEF n, ps

Returns(r, of) == \E i \in 1 .. Len(r.out) : r.out[i][1].of = of

\* The parts of one record, one after the other.
GroupAt(ps, k, n, of) ==
  /\ \A j \in 1 .. n : ps[k + j].of = of
  /\ ps[k + 1].type \in {"full", "first"}
  /\ \A j \in 2 .. n : ps[k + j - 1].type \in {"first", "middle"} /\ ps[k + j].type \in {"middle", "last"}
  /\ ps[k + n].type \in {"full", "last"}

\* A record of which all parts are found is returned, whatever was found before
\* and is found after.
LEMMA GroupReturned ==
    ASSUME NEW parts, Valid(parts), NEW ps \in Seq(Found(parts)),
           NEW k \in Nat, NEW n \in Nat, n > 0, k + n <= Len(ps), NEW of, GroupAt(ps, k, n, of)
    PROVE  Returns(Reader(ps)[Len(ps)], of)
<1> DEFINE R(i) == Reader(ps)[i]
           L == Len(ps)
<1>1. /\ L \in Nat
      /\ \A i \in 1 .. L : ps[i] \in Found(parts) /\ R(i) = ReadPhysical(R(i - 1), ps[i])
      /\ \A i \in 0 .. L : R(i) \in ReadStates(parts)
  BY ReaderIs
<1> HIDE DEF R, L
<1>2. ASSUME NEW r \in ReadStates(parts), NEW q \in Seq(parts), Len(q) > 0
      PROVE  /\ Len(Append(r.out, q)) = Len(r.out) + 1 /\ Len(r.out) \in Nat
             /\ Append(r.out, q)[Len(r.out) + 1] = q
             /\ \A i \in 1 .. Len(r.out) : Append(r.out, q)[i] = r.out[i]
  <2>1. r.out \in Seq(Seq(parts))
    BY DEF ReadStates
  <2> QED
    BY <2>1
<1>3. ASSUME NEW i \in 1 .. L
      PROVE  LET r == R(i - 1)
                 p == ps[i]
             IN  /\ r \in ReadStates(parts) /\ p \in Found(parts) /\ R(i) \in ReadStates(parts)
                 /\ R(i).out = IF p.type = "full" THEN Append(r.out, <<p>>)
                               ELSE IF p.type = "last" /\ r.inside THEN Append(r.out, Append(r.scratch, p))
                               ELSE r.out
                 /\ p.type = "first" => R(i).inside /\ R(i).scratch = <<p>>
                 /\ p.type = "middle" /\ r.inside => R(i).inside /\ R(i).scratch = Append(r.scratch, p)
  <2>1. i - 1 \in 0 .. L /\ i \in 0 .. L
    BY <1>1
  <2> DEFINE r == R(i - 1)
             p == ps[i]
             t == R(i)
  <2>2. r \in ReadStates(parts) /\ p \in Found(parts) /\ t \in ReadStates(parts) /\ t = ReadPhysical(r, p)
    BY <2>1, <1>1
  <2> HIDE DEF r, p, t
  <2>3. /\ t.out = IF p.type = "full" THEN Append(r.out, <<p>>)
                   ELSE IF p.type = "last" /\ r.inside THEN Append(r.out, Append(r.scratch, p))
                   ELSE r.out
        /\ p.type = "first" => t.inside /\ t.scratch = <<p>>
        /\ p.type = "middle" /\ r.inside => t.inside /\ t.scratch = Append(r.scratch, p)
    BY <2>2, ReadPhysicalIs
  <2> QED
    BY <2>2, <2>3 DEF r, p, t
<1>4. ASSUME NEW i \in 1 .. L, Returns(R(i - 1), of)
      PROVE  Returns(R(i), of)
  <2> DEFINE r == R(i - 1)
             p == ps[i]
  <2>1. PICK m \in 1 .. Len(r.out) : r.out[m][1].of = of
    BY <1>4 DEF Returns
  <2>2. r \in ReadStates(parts)
    BY <1>3
  <2>3. r.out \in Seq(Seq(parts)) /\ r.scratch \in Seq(parts)
    BY <2>2 DEF ReadStates
  <2> HIDE DEF r
  <2>4. ASSUME NEW q
        PROVE  m \in 1 .. Len(Append(r.out, q)) /\ Append(r.out, q)[m] = r.out[m]
    <3>1. Len(Append(r.out, q)) = Len(r.out) + 1 /\ Len(r.out) \in Nat
      BY <2>3
    <3> QED
      BY <3>1, <2>1, <2>3
  <2>5. R(i).out = r.out \/ \E q : R(i).out = Append(r.out, q)
    BY <1>3 DEF r
  <2> QED
    BY <2>1, <2>4, <2>5 DEF Returns
<1> DEFINE Going(i) == /\ R(i).inside /\ Len(R(i).scratch) > 0 /\ R(i).scratch[1].of = of
<1>5. k + 1 \in 1 .. L /\ k + n \in 1 .. L
  BY <1>1 DEF L
<1>6. ASSUME NEW j \in 1 .. n
      PROVE  /\ k + j \in 1 .. L /\ ps[k + j].of = of /\ R(k + j) \in ReadStates(parts)
             /\ (j < n => ps[k + j].type \in {"first", "middle"})
  <2>1. k + j \in 1 .. L /\ k + j \in 0 .. L
    BY <1>1 DEF L
  <2>2. ASSUME j < n
        PROVE  ps[k + j].type \in {"first", "middle"}
    <3>1. j + 1 \in 2 .. n /\ k + (j + 1) - 1 = k + j
      BY <2>2
    <3> QED
      BY <3>1 DEF GroupAt
  <2> QED
    BY <2>1, <2>2, <1>1 DEF GroupAt
<1>7. ASSUME NEW j \in 1 .. n, j < n
      PROVE  Going(k + j)
  <2> DEFINE S == { x \in Nat : x + 1 < n => Going(k + (x + 1)) }
  <2>1. 0 \in S
    <3> SUFFICES ASSUME 0 + 1 < n
                 PROVE  Going(k + (0 + 1))
      OBVIOUS
    <3>1. 1 \in 1 .. n /\ 1 < n /\ k + (0 + 1) = k + 1
      OBVIOUS
    <3>2. ps[k + 1].type = "first" /\ ps[k + 1].of = of
      BY <3>1, <1>6 DEF GroupAt
    <3> DEFINE i == k + 1
               p == ps[i]
    <3>3. i \in 1 .. L /\ p.type = "first" /\ p.of = of
      BY <3>2, <1>5
    <3> HIDE DEF i, p
    <3>4. p.type = "first" => R(i).inside /\ R(i).scratch = <<p>>
      BY <3>3, <1>3 DEF p
    <3>5. Len(<<p>>) > 0 /\ <<p>>[1] = p
      OBVIOUS
    <3>6. Going(i)
      BY <3>3, <3>4, <3>5
    <3> QED
      BY <3>1, <3>6 DEF i
  <2>2. ASSUME NEW x \in Nat, x \in S
        PROVE  x + 1 \in S
    <3> SUFFICES ASSUME (x + 1) + 1 < n
                 PROVE  Going(k + ((x + 1) + 1))
      OBVIOUS
    <3> DEFINE i == k + (x + 1)
               p == ps[i + 1]
    <3>1. Going(i) /\ i + 1 = k + ((x + 1) + 1) /\ i \in Nat /\ (i + 1) - 1 = i
      BY <2>2
    <3>2. x + 1 \in 1 .. n /\ (x + 1) + 1 \in 1 .. n /\ (x + 1) + 1 \in 2 .. n
      OBVIOUS
    <3>3. i + 1 \in 1 .. L /\ p.type \in {"first", "middle"}
      BY <3>1, <3>2, <1>6
    <3>4. p.type \in {"middle", "last"}
      BY <3>1, <3>2 DEF GroupAt
    <3>5. p.type = "middle" /\ p \in Found(parts) /\ R(i) \in ReadStates(parts)
      BY <3>1, <3>3, <3>4, <1>3
    <3> HIDE DEF i, p
    <3>6. R(i + 1).inside /\ R(i + 1).scratch = Append(R(i).scratch, p)
      BY <3>1, <3>3, <3>5, <1>3 DEF p
    <3>7. R(i).scratch \in Seq(parts)
      BY <3>5 DEF ReadStates
    <3>8. Len(R(i + 1).scratch) > 0 /\ R(i + 1).scratch[1] = R(i).scratch[1]
      <4> DEFINE s == R(i).scratch
      <4>1. s \in Seq(parts) /\ Len(s) > 0
        BY <3>1, <3>7
      <4> HIDE DEF s
      <4>2. Len(Append(s, p)) > 0 /\ Append(s, p)[1] = s[1]
        BY <4>1
      <4> QED
        BY <4>2, <3>6 DEF s
    <3>9. Going(i + 1)
      BY <3>1, <3>6, <3>8
    <3> QED
      BY <3>1, <3>9
  <2>3. j - 1 \in Nat /\ (j - 1) + 1 = j
    OBVIOUS
  <2>4. j - 1 \in S
    <3> HIDE DEF S
    <3>1. \A x \in Nat : x \in S => x + 1 \in S
      BY <2>2
    <3>2. Nat \subseteq S
      BY ONLY <2>1, <3>1, StepInduction
    <3> QED
      BY <2>3, <3>2
  <2> QED
    BY <2>3, <2>4, <1>7
<1>8. Returns(R(k + n), of)
  <2> DEFINE i == k + n
             p == ps[i]
             r == R(i - 1)
  <2>1. i \in 1 .. L /\ p.of = of /\ p.type \in {"full", "last"}
    BY <1>5, <1>6 DEF GroupAt
  <2>2. r \in ReadStates(parts) /\ p \in Found(parts)
    BY <1>3, <2>1
  <2>3. p \in parts
    BY <2>1, <2>2 DEF Found, BadRecord, Physical
  <2>4. r.out \in Seq(Seq(parts)) /\ r.scratch \in Seq(parts)
    BY <2>2 DEF ReadStates
  <2>5. CASE p.type = "full"
    <3>1. R(i).out = Append(r.out, <<p>>)
      BY <2>1, <2>5, <1>3
    <3> DEFINE q == <<p>>
    <3>2. q \in Seq(parts) /\ Len(q) > 0 /\ q[1].of = of
      BY <2>1, <2>3
    <3> HIDE DEF q, r
    <3>3. Len(Append(r.out, q)) = Len(r.out) + 1 /\ Len(r.out) \in Nat /\ Append(r.out, q)[Len(r.out) + 1] = q
      BY <2>2, <3>2, <1>2
    <3>4. Len(r.out) + 1 \in 1 .. Len(R(i).out) /\ R(i).out[Len(r.out) + 1][1].of = of
      BY <3>1, <3>2, <3>3 DEF q
    <3> QED
      BY <3>4 DEF Returns
  <2>6. CASE p.type = "last"
    <3>1. n > 1 /\ n - 1 \in 1 .. n /\ n - 1 < n /\ k + (n - 1) = i - 1
      <4>1. n # 1
        BY <2>6 DEF GroupAt
      <4> QED
        BY <4>1
    <3>2. Going(i - 1)
      BY <3>1, <1>7
    <3> DEFINE q == Append(r.scratch, p)
    <3>3. R(i).out = Append(r.out, q)
      BY <2>1, <2>6, <3>2, <1>3
    <3>4. q \in Seq(parts) /\ Len(q) > 0 /\ q[1].of = of
      <4> DEFINE s == r.scratch
      <4>1. s \in Seq(parts) /\ Len(s) > 0 /\ s[1].of = of
        BY <2>4, <3>2
      <4> HIDE DEF s
      <4>2. Append(s, p) \in Seq(parts) /\ Len(Append(s, p)) > 0 /\ Append(s, p)[1] = s[1]
        BY <4>1, <2>3
      <4> QED
        BY <4>1, <4>2 DEF s
    <3> HIDE DEF q, r
    <3>5. Len(Append(r.out, q)) = Len(r.out) + 1 /\ Len(r.out) \in Nat /\ Append(r.out, q)[Len(r.out) + 1] = q
      <4>1. r \in ReadStates(parts) /\ q \in Seq(parts) /\ Len(q) > 0
        BY <2>2, <3>4 DEF r
      <4> QED
        BY ONLY <4>1, <1>2
    <3>6. Len(r.out) + 1 \in 1 .. Len(R(i).out) /\ R(i).out[Len(r.out) + 1][1].of = of
      BY <3>3, <3>4, <3>5
    <3> QED
      BY <3>6 DEF Returns
  <2> QED
    BY <2>1, <2>5, <2>6
<1> DEFINE T == { x \in Nat : k + n + x <= L => Returns(R(k + n + x), of) }
<1>9. 0 \in T
  <2>1. k + n + 0 = k + n
    OBVIOUS
  <2> QED
    BY <1>8, <2>1
<1>10. ASSUME NEW x \in Nat, x \in T
       PROVE  x + 1 \in T
  <2>1. SUFFICES ASSUME k + n + (x + 1) <= L
                 PROVE  Returns(R(k + n + (x + 1)), of)
    OBVIOUS
  <2>2. k + n + (x + 1) \in 1 .. L /\ (k + n + (x + 1)) - 1 = k + n + x /\ k + n + x <= L
    BY <2>1, <1>1
  <2> QED
    BY <2>2, <1>4, <1>10
<1>11. L - (k + n) \in Nat /\ k + n + (L - (k + n)) = L
  BY <1>1 DEF L
<1>12. L - (k + n) \in T
  <2> HIDE DEF T
  <2> QED
    BY <1>9, <1>10, <1>11, StepInduction
<1> QED
  BY <1>11, <1>12 DEF R, L

LEMMA PartsValid == \A O, size : Valid(Parts(O, size))
  BY DEF Valid, Parts, PhysicalsOf

\* All emissions of one record, and that they are found after a place.
EmissionsOfOne(es, of, parts) ==
  /\ es \in Seq(EmissionsOf(parts)) /\ Chained(es)
  /\ es[1].record.type \in {"full", "first"}
  /\ \A k \in 1 .. Len(es) : es[k].record.of = of

AllAt(ps, m, es) == \A k \in 1 .. Len(es) : ps[m + k] = es[k].record

LEMMA ChainedGroup ==
    ASSUME NEW parts, NEW es, NEW of, EmissionsOfOne(es, of, parts), NEW ps, NEW m \in Nat, AllAt(ps, m, es)
    PROVE  GroupAt(ps, m, Len(es), of) /\ Len(es) \in Nat /\ Len(es) > 0
<1> DEFINE n == Len(es)
<1> USE DEF EmissionsOfOne, AllAt
<1>1. n \in Nat /\ n > 0
  BY EmptySeq DEF Chained
<1>2. 1 \in 1 .. n /\ n \in 1 .. n
  BY <1>1
<1>3. ASSUME NEW j \in 2 .. n
      PROVE  ps[m + j - 1].type \in {"first", "middle"} /\ ps[m + j].type \in {"middle", "last"}
  <2>1. j \in 1 .. n /\ j - 1 \in 1 .. n /\ m + (j - 1) = m + j - 1
    BY <1>1
  <2>2. ps[m + j] = es[j].record /\ ps[m + (j - 1)] = es[j - 1].record
    BY <2>1
  <2>3. Continues(es[j - 1].record, es[j].record)
    BY <1>3 DEF Chained
  <2> QED
    BY <2>1, <2>2, <2>3 DEF Continues
<1>4. \A j \in 1 .. n : ps[m + j].of = of
  OBVIOUS
<1>5. ps[m + 1].type \in {"full", "first"} /\ ps[m + n].type \in {"full", "last"}
  <2>1. ps[m + 1] = es[1].record /\ ps[m + n] = es[n].record
    BY <1>2
  <2> QED
    BY <2>1 DEF Chained
<1> QED
  BY <1>1, <1>3, <1>4, <1>5 DEF GroupAt

\* A record AddRecord succeeded to add behind a file the reader reads to its end is
\* returned, and such a file is left: no matter what is written after it, and
\* whether that is whole.
THEOREM AddedIsRead ==
    ASSUME NEW O, NEW size \in [O -> Nat], NEW of \in O,
           NEW file, EndsWhole(file, Parts(O, size)), NEW offset, AtOffset(file, offset)
    PROVE  LET added == AddRecord(of, size[of], offset)
               g == file \o added.bytes
           IN  /\ EndsWhole(g, Parts(O, size)) /\ AtOffset(g, added.offset)
               /\ \A ext \in Seq(BytesOf(Parts(O, size))) : of \in Readable(g \o ext)
<1> DEFINE P == Parts(O, size)
           es == Emissions(of, size[of], offset)
           rs == [k \in 1 .. Len(es) |-> es[k].record]
           added == AddRecord(of, size[of], offset)
           g == file \o added.bytes
           F == Found(P)
           ps == PhysicalRecords(file)
<1>1. Valid(P)
  BY PartsValid
<1>2. offset \in 0 .. BlockSize
  BY DEF AtOffset
<1>3. /\ es \in Seq(EmissionsOf(P)) /\ Chained(es) /\ FitTogether(es, offset)
      /\ es[1].record.type \in {"full", "first"}
      /\ \A k \in 1 .. Len(es) : es[k].record.of = of
  BY <1>2, EmissionsAre
<1>4. added = [bytes |-> AllBytes(es), offset |-> es[Len(es)].offset]
  BY DEF AddRecord, Last
<1>5. g = file \o AllBytes(es) /\ added.offset = es[Len(es)].offset
  BY <1>4
<1> HIDE DEF P, es, added, g
<1>6. EndsWhole(g, P) /\ AtOffset(g, added.offset) /\ PhysicalRecords(g) = ps \o rs
  <2>1. es # <<>> /\ EndsWhole(file, P)
    BY <1>3 DEF Chained, P
  <2> QED
    BY <1>1, <1>3, <1>5, <2>1, EmissionsFound
<1>7. ASSUME NEW ext \in Seq(BytesOf(P))
      PROVE  of \in Readable(g \o ext)
  <2> DEFINE h == g \o ext
             qs == PhysicalRecords(h)
             m == Len(ps)
             n == Len(es)
             tail == Parse(h)[Len(g) + 1]
  <2>1. g \in Seq(BytesOf(P)) /\ file \in Seq(BytesOf(P)) /\ qs = (ps \o rs) \o tail
    BY <1>6 DEF EndsWhole, P
  <2>2. h \in Seq(BytesOf(P)) /\ Len(h) = Len(g) + Len(ext) /\ Len(g) \in Nat /\ Len(ext) \in Nat
    BY <2>1, ConcatProperties
  <2>3. tail \in Seq(F) /\ qs \in Seq(F)
    <3>1. Len(g) + 1 \in 1 .. Len(h) + 1 /\ 1 \in 1 .. Len(h) + 1
      BY <2>2
    <3>2. \A p \in P : p.len \in Nat /\ p.type \notin {"zero", "bad"}
      BY <1>1 DEF Valid
    <3> HIDE DEF h
    <3>3. PhysicalRecords(h) = Parse(h)[1] /\ \A at \in 1 .. Len(h) + 1 : Parse(h)[at] \in Seq(Found(P))
      BY <3>2, <2>2, ParseIs
    <3> QED
      BY <3>1, <3>3
  <2>4. ps \in Seq(F)
    <3>1. 1 \in 1 .. Len(file) + 1
      BY <2>1
    <3> QED
      BY <3>1, <2>1, <1>1, ParseIs DEF Valid
  <2>5. rs \in Seq(F) /\ Len(rs) = n /\ n \in Nat /\ \A k \in 1 .. n : rs[k] = es[k].record
    <3>0. n \in Nat /\ \A k \in 1 .. n : es[k] \in EmissionsOf(P)
      BY <1>3
    <3>1. \A k \in 1 .. n : es[k].record \in F
      BY <3>0 DEF EmissionsOf, Found
    <3>2. rs \in [1 .. n -> F] /\ \A k \in 1 .. n : rs[k] = es[k].record
      BY <3>1
    <3> HIDE DEF rs
    <3> QED
      BY <3>0, <3>2
  <2> HIDE DEF h, tail, rs, F, ps, qs
  <2>6. Behind(ps, rs, tail, F)
    BY <2>3, <2>4, <2>5, BehindOther
  <2>7. m \in Nat /\ m + n <= Len(qs) /\ \A k \in 1 .. n : qs[m + k] = es[k].record
    BY <2>1, <2>5, <2>6 DEF Behind
  <2>8. GroupAt(qs, m, n, of) /\ n > 0
    <3>1. EmissionsOfOne(es, of, P) /\ AllAt(qs, m, es)
      BY <1>3, <2>7 DEF EmissionsOfOne, AllAt
    <3> QED
      BY <2>7, <3>1, ChainedGroup
  <2>9. Returns(Reader(qs)[Len(qs)], of)
    <3>1. qs \in Seq(Found(P)) /\ m \in Nat /\ n \in Nat /\ n > 0 /\ m + n <= Len(qs)
      BY <2>3, <2>5, <2>7, <2>8 DEF F
    <3> HIDE DEF m, n
    <3> QED
      BY <1>1, <2>8, <3>1, GroupReturned
  <2>10. ReadRecords(h) = Reader(qs)[Len(qs)].out
    BY ReadRecordsAre DEF qs
  <2> QED
    BY <2>9, <2>10 DEF Returns, Readable, h
<1> QED
  BY <1>6, <1>7 DEF P, g, added

-----------------------------------------------------------------------------
(* What the reader returns of a file that was cut *)

\* The physical records of a file that was cut, but for a last one that was torn.
Cuts(s, t) ==
  \A i \in 1 .. Len(s) : (i <= Len(t) /\ s[i] = t[i]) \/ (i = Len(s) /\ s[i] = BadRecord)

\* One record more in front of both.
LEMMA CutsCons ==
    ASSUME NEW S, NEW s \in Seq(S), NEW t \in Seq(S), NEW p \in S, Cuts(s, t)
    PROVE  Cuts(<<p>> \o s, <<p>> \o t)
<1>1. /\ Len(s) \in Nat /\ Len(t) \in Nat
      /\ Len(<<p>> \o s) = 1 + Len(s) /\ (<<p>> \o s)[1] = p
      /\ \A i \in 2 .. 1 + Len(s) : (<<p>> \o s)[i] = s[i - 1]
      /\ Len(<<p>> \o t) = 1 + Len(t) /\ (<<p>> \o t)[1] = p
      /\ \A i \in 2 .. 1 + Len(t) : (<<p>> \o t)[i] = t[i - 1]
  OBVIOUS
<1> DEFINE u == <<p>> \o s
           v == <<p>> \o t
<1> HIDE DEF u, v
<1>2. ASSUME NEW i \in 1 .. Len(u)
      PROVE  (i <= Len(v) /\ u[i] = v[i]) \/ (i = Len(u) /\ u[i] = BadRecord)
  <2>1. CASE i = 1
    BY <2>1, <1>1 DEF u, v
  <2>2. CASE i # 1
    <3>1. i \in 2 .. 1 + Len(s) /\ i - 1 \in 1 .. Len(s) /\ u[i] = s[i - 1] /\ Len(u) = 1 + Len(s)
          /\ Len(v) = 1 + Len(t)
      BY <2>2, <1>1 DEF u, v
    <3>2. CASE i - 1 <= Len(t) /\ s[i - 1] = t[i - 1]
      <4>1. i \in 2 .. 1 + Len(t)
        BY <3>1, <3>2, <1>1
      <4>2. v[i] = t[i - 1]
        BY <4>1, <1>1 DEF v
      <4> QED
        BY <3>1, <3>2, <4>1, <4>2, <1>1
    <3>3. CASE i - 1 = Len(s) /\ s[i - 1] = BadRecord
      BY <3>1, <3>3, <1>1
    <3> QED
      BY <3>1, <3>2, <3>3 DEF Cuts
  <2> QED
    BY <2>1, <2>2
<1> QED
  BY <1>2 DEF Cuts, u, v

\* The end of a block in a file that was cut.
LEMMA CutBlock ==
    ASSUME NEW a, NEW f, Len(a) \in Nat, Len(f) \in Nat, Len(a) <= Len(f), NEW at \in 1 .. Len(a)
    PROVE  /\ BlockEndOf(a, at) \in Int /\ BlockEndOf(f, at) \in Int
           /\ BlockEndOf(a, at) <= BlockEndOf(f, at)
           /\ BlockEndOf(a, at) = BlockEndOf(f, at) \/ BlockEndOf(a, at) = Len(a)
<1> DEFINE e == ((at - 1) \div BlockSize + 1) * BlockSize
<1>1. e \in Int
  <2>1. BlockSize \in Nat /\ BlockSize > 0 /\ at - 1 \in Nat
    BY LogFormatAssumption
  <2> DEFINE q == (at - 1) \div BlockSize
  <2>2. q \in Int
    BY <2>1
  <2> HIDE DEF q
  <2> QED
    BY <2>1, <2>2 DEF q
<1> HIDE DEF e
<1>2. /\ BlockEndOf(a, at) = IF e < Len(a) THEN e ELSE Len(a)
      /\ BlockEndOf(f, at) = IF e < Len(f) THEN e ELSE Len(f)
  BY DEF BlockEndOf, e
<1> QED
  BY <1>1, <1>2

\* A part that is found before the cut is found in the whole file, and no other.
LEMMA CutIntact ==
    ASSUME NEW parts, \A p \in parts : p.len \in Nat /\ p.type \notin {"zero", "bad"},
           NEW a \in Seq(BytesOf(parts)), NEW f \in Seq(BytesOf(parts)), Len(a) <= Len(f),
           \A i \in 1 .. Len(a) : a[i] = f[i],
           NEW at \in 1 .. Len(a), NEW end \in at .. Len(a), NEW more \in end .. Len(f)
    PROVE  /\ IntactAt(a, at, end) => IntactAt(f, at, more)
           /\ IntactAt(f, at, end) => IntactAt(a, at, end)
<1> DEFINE p == a[at][1]
<1>1. /\ HeaderSize \in Nat /\ HeaderSize > 0 /\ Len(a) \in Nat /\ Len(f) \in Nat /\ at \in Nat /\ end \in Nat
      /\ end <= Len(a) /\ more \in Nat /\ end <= more
  BY LogFormatAssumption
<1>2. p = f[at][1]
  OBVIOUS
<1>3. p.type # "zero" => p.len \in Nat
  <2>1. a[at] \in BytesOf(parts)
    OBVIOUS
  <2>2. CASE a[at] = ZeroByte
    BY <2>2 DEF ZeroByte, Physical
  <2>3. CASE a[at] \in parts \X Nat
    BY <2>3
  <2> QED
    BY <2>1, <2>2, <2>3 DEF BytesOf
<1> DEFINE Whole(g) == \A i \in 1 .. HeaderSize + p.len : g[at + i - 1] = <<p, i>>
<1>4. /\ \A e : IntactAt(a, at, e) <=> p.type # "zero" /\ at + HeaderSize + p.len - 1 <= e /\ Whole(a)
      /\ \A e : IntactAt(f, at, e) <=> p.type # "zero" /\ at + HeaderSize + p.len - 1 <= e /\ Whole(f)
  BY <1>2 DEF IntactAt
<1> HIDE DEF p
<1>5. ASSUME p.type # "zero", at + HeaderSize + p.len - 1 <= end
      PROVE  Whole(a) <=> Whole(f)
  <2>1. ASSUME NEW i \in 1 .. HeaderSize + p.len
        PROVE  a[at + i - 1] = f[at + i - 1]
    <3>1. at + i - 1 \in 1 .. Len(a)
      BY <1>1, <1>3, <1>5
    <3> QED
      BY <3>1
  <2> QED
    BY <2>1
<1>6. ASSUME p.type # "zero", at + HeaderSize + p.len - 1 <= end
      PROVE  at + HeaderSize + p.len - 1 <= more
  BY <1>1, <1>3, <1>6
<1> HIDE DEF Whole
<1> QED
  BY <1>4, <1>5, <1>6

\* What the reader finds in a file that was cut are such records.
LEMMA PhysicalCut ==
    ASSUME NEW parts, \A p \in parts : p.len \in Nat /\ p.type \notin {"zero", "bad"},
           NEW a \in Seq(BytesOf(parts)), NEW f \in Seq(BytesOf(parts)), Len(a) <= Len(f),
           \A i \in 1 .. Len(a) : a[i] = f[i]
    PROVE  Cuts(PhysicalRecords(a), PhysicalRecords(f))
<1> DEFINE c == Len(a)
           D == 1 .. c + 1
           s(at) == Parse(a)[at]
           t(at) == Parse(f)[at]
           next == [at \in D |-> NextPlace(a, at)]
           m == [at \in D |-> c + 1 - at]
           V == { at \in D : Cuts(s(at), t(at)) }
           stop == {c + 1}
           F == Found(parts)
<1>1. c \in Nat /\ Len(f) \in Nat /\ HeaderSize \in Nat /\ HeaderSize > 0
  BY LogFormatAssumption
<1>2. /\ PhysicalRecords(a) = s(1)
      /\ \A at \in D : s(at) \in Seq(F) /\ s(at) = FoundFrom(a, Parse(a), at)
                       /\ (at <= c => NextPlace(a, at) \in at + 1 .. c + 1)
  BY ParseIs
<1>3. /\ PhysicalRecords(f) = t(1)
      /\ \A at \in D : t(at) \in Seq(F) /\ t(at) = FoundFrom(f, Parse(f), at)
  <2>1. \A at \in D : at \in 1 .. Len(f) + 1
    BY <1>1
  <2> QED
    BY <2>1, ParseIs
<1>4. s(c + 1) = <<>>
  <2>1. c + 1 \in D /\ c + 1 > Len(a)
    BY <1>1
  <2>2. FoundFrom(a, Parse(a), c + 1) = <<>>
    BY <2>1 DEF FoundFrom
  <2> QED
    BY <1>2, <2>1, <2>2
<1>5. \A x : Cuts(<<>>, x)
  BY DEF Cuts
<1>6. ASSUME NEW at \in D, at \notin stop
      PROVE  next[at] \in D /\ m[next[at]] < m[at] /\ (next[at] \in V => at \in V)
  <2>1. at \in 1 .. c /\ at \in Nat
    BY <1>1, <1>6
  <2>2. NextPlace(a, at) \in at + 1 .. c + 1
    BY <1>2, <2>1
  <2>3. next[at] \in D /\ m[next[at]] < m[at]
    BY <2>1, <2>2, <1>1
  <2> DEFINE end == BlockEndOf(a, at)
             more == BlockEndOf(f, at)
             skip == end - at + 1 < HeaderSize
             p == a[at][1]
             n == NextPlace(a, at)
  <2>4. end \in at .. c
    BY <2>1, BlockEnds
  <2>5. more \in end .. Len(f) /\ (end = more \/ end = c)
    <3>1. at \in 1 .. Len(f)
      BY <2>1, <1>1
    <3>2. more \in at .. Len(f)
      BY <3>1, BlockEnds
    <3>3. end <= more /\ (end = more \/ end = c)
      BY <2>1, <1>1, CutBlock
    <3> HIDE DEF end, more
    <3> QED
      BY <3>2, <3>3, <2>4
  <2>6. /\ IntactAt(a, at, end) => IntactAt(f, at, more)
        /\ IntactAt(f, at, end) => IntactAt(a, at, end)
    <3> HIDE DEF end, more
    <3> QED
      BY <2>1, <2>4, <2>5, CutIntact
  <2>7. p = f[at][1]
    BY <2>1
  <2>8. ~(at > Len(a)) /\ ~(at > Len(f))
    BY <2>1, <1>1
  <2>9. /\ FoundFrom(a, Parse(a), at) = IF skip THEN Parse(a)[end + 1]
                                        ELSE IF IntactAt(a, at, end) THEN <<p>> \o Parse(a)[at + HeaderSize + p.len]
                                        ELSE <<BadRecord>> \o Parse(a)[end + 1]
        /\ FoundFrom(f, Parse(f), at) = IF more - at + 1 < HeaderSize THEN Parse(f)[more + 1]
                                        ELSE IF IntactAt(f, at, more) THEN <<p>> \o Parse(f)[at + HeaderSize + p.len]
                                        ELSE <<BadRecord>> \o Parse(f)[more + 1]
        /\ n = IF skip \/ ~IntactAt(a, at, end) THEN end + 1 ELSE at + HeaderSize + p.len
    BY <2>7, <2>8 DEF FoundFrom, NextPlace
  <2>10. s(at) = FoundFrom(a, Parse(a), at) /\ t(at) = FoundFrom(f, Parse(f), at)
    BY <1>2, <1>3
  <2>11. n \in D /\ s(n) \in Seq(F) /\ t(n) \in Seq(F)
    BY <2>3, <1>2, <1>3
  <2>12. ASSUME n \in V
         PROVE  Cuts(s(at), t(at))
    <3>0. Cuts(s(n), t(n))
      BY <2>12
    <3> HIDE DEF n, p, end, more, s, t, F, V, D, next, m
    <3>1. CASE skip
      <4>1. CASE end = more
        <5>1. s(at) = s(n) /\ t(at) = t(n)
          BY <3>1, <4>1, <2>9, <2>10 DEF s, t
        <5> QED
          BY <5>1, <3>0
      <4>2. CASE end = c
        <5>1. s(at) = s(c + 1)
          BY <3>1, <4>2, <2>9, <2>10 DEF s
        <5> QED
          BY <5>1, <1>4, <1>5
      <4> QED
        BY <4>1, <4>2, <2>5
    <3>2. CASE ~skip /\ IntactAt(a, at, end)
      <4>0. n = at + HeaderSize + p.len
        BY <3>2, <2>9
      <4>1. ~(more - at + 1 < HeaderSize)
        BY <3>2, <2>1, <2>4, <2>5, <1>1
      <4>2. s(at) = <<p>> \o s(n) /\ t(at) = <<p>> \o t(n)
        BY <3>2, <4>0, <4>1, <2>6, <2>9, <2>10 DEF s, t
      <4>3. p \in F
        <5>1. a[at] \in BytesOf(parts)
          BY <2>1
        <5>2. p.type # "zero"
          BY <3>2 DEF IntactAt, p
        <5>3. CASE a[at] = ZeroByte
          BY <5>2, <5>3 DEF ZeroByte, Physical, p
        <5>4. CASE a[at] \in parts \X Nat
          BY <5>4 DEF p, F, Found
        <5> QED
          BY <5>1, <5>3, <5>4 DEF BytesOf
      <4> QED
        BY <3>0, <4>2, <4>3, <2>11, CutsCons
    <3>3. CASE ~skip /\ ~IntactAt(a, at, end)
      <4>0. BadRecord \in F
        BY DEF F, Found
      <4>1. CASE end = more
        <5>1. s(at) = <<BadRecord>> \o s(n) /\ t(at) = <<BadRecord>> \o t(n)
          BY <3>3, <4>1, <2>6, <2>9, <2>10 DEF s, t
        <5> QED
          BY <3>0, <4>0, <5>1, <2>11, CutsCons
      <4>2. CASE end = c
        <5>1. s(at) = <<BadRecord>> \o s(c + 1)
          BY <3>3, <4>2, <2>9, <2>10 DEF s
        <5> DEFINE x == s(c + 1)
        <5>2. x = <<>> /\ s(at) = <<BadRecord>> \o x
          BY <5>1, <1>4
        <5> HIDE DEF x
        <5>3. s(at) = <<BadRecord>>
          BY <5>2
        <5> QED
          BY <5>3 DEF Cuts
      <4> QED
        BY <4>1, <4>2, <2>5
    <3> QED
      BY <3>1, <3>2, <3>3
  <2> QED
    BY <2>3, <2>12
<1> DEFINE g == [at \in D |-> at]
<1>7. Keeps(D, V, m, stop, next, g)
  <2>1. m \in [D -> Nat]
    BY <1>1
  <2>2. c + 1 \in V
    BY <1>1, <1>4, <1>5
  <2>3. \A at \in D : at \in stop => g[at] \in V
    BY <2>2
  <2>4. \A at \in D : at \notin stop => next[at] \in D /\ m[next[at]] < m[at] /\ (g[next[at]] \in V => g[at] \in V)
    BY <1>6
  <2> HIDE DEF D, V, m, stop, next, g
  <2> QED
    BY <2>1, <2>3, <2>4 DEF Keeps
<1>8. \A at \in D : g[at] \in V
  <2> HIDE DEF D, V, m, stop, next, g
  <2> QED
    BY <1>7, RecursionStays
<1>9. 1 \in D
  BY <1>1
<1>10. 1 \in V
  <2> HIDE DEF V
  <2> QED
    BY <1>8, <1>9
<1>11. Cuts(s(1), t(1))
  <2> HIDE DEF s, t
  <2> QED
    BY <1>10
<1> QED
  BY <1>2, <1>3, <1>11

\* The reader takes back nothing that it returned.
LEMMA ReturnedStays ==
    ASSUME NEW parts, Valid(parts), NEW ps \in Seq(Found(parts)), NEW k \in 0 .. Len(ps),
           NEW of, Returns(Reader(ps)[k], of)
    PROVE  Returns(Reader(ps)[Len(ps)], of)
<1> DEFINE R(i) == Reader(ps)[i]
           L == Len(ps)
<1>1. /\ L \in Nat
      /\ \A i \in 1 .. L : ps[i] \in Found(parts) /\ R(i) = ReadPhysical(R(i - 1), ps[i])
      /\ \A i \in 0 .. L : R(i) \in ReadStates(parts)
  BY ReaderIs
<1> HIDE DEF R, L
<1>2. ASSUME NEW i \in 1 .. L, Returns(R(i - 1), of)
      PROVE  Returns(R(i), of)
  <2> DEFINE r == R(i - 1)
             p == ps[i]
  <2>1. r \in ReadStates(parts) /\ p \in Found(parts) /\ R(i) = ReadPhysical(r, p)
    <3>1. i - 1 \in 0 .. L
      BY <1>1
    <3> QED
      BY <3>1, <1>1
  <2>2. PICK m \in 1 .. Len(r.out) : r.out[m][1].of = of
    BY <1>2 DEF Returns
  <2>3. r.out \in Seq(Seq(parts)) /\ r.scratch \in Seq(parts)
    BY <2>1 DEF ReadStates
  <2> HIDE DEF r, p
  <2>4. ASSUME NEW q
        PROVE  m \in 1 .. Len(Append(r.out, q)) /\ Append(r.out, q)[m] = r.out[m]
    <3>1. Len(Append(r.out, q)) = Len(r.out) + 1 /\ Len(r.out) \in Nat
      BY <2>3
    <3> QED
      BY <3>1, <2>2, <2>3
  <2>5. R(i).out = r.out \/ \E q : R(i).out = Append(r.out, q)
    <3>1. ReadPhysical(r, p).out = IF p.type = "full" THEN Append(r.out, <<p>>)
                                   ELSE IF p.type = "last" /\ r.inside THEN Append(r.out, Append(r.scratch, p))
                                   ELSE r.out
      BY <2>1, ReadPhysicalIs
    <3> QED
      BY <2>1, <3>1
  <2> QED
    BY <2>2, <2>4, <2>5 DEF Returns
<1> DEFINE S == { i \in Nat : i >= k /\ i <= L => Returns(R(i), of) }
<1>3. 0 \in S
  <2>1. k \in 0 .. L
    BY DEF L
  <2>2. 0 >= k => k = 0
    BY <2>1, <1>1
  <2> QED
    BY <2>2 DEF R
<1>4. ASSUME NEW i \in Nat, i \in S
      PROVE  i + 1 \in S
  <2> SUFFICES ASSUME i + 1 >= k, i + 1 <= L PROVE Returns(R(i + 1), of)
    OBVIOUS
  <2>0. k \in Nat
    BY <1>1 DEF L
  <2>1. CASE i + 1 = k
    BY <2>1 DEF R
  <2>2. CASE i + 1 # k
    <3>1. i >= k /\ i <= L /\ i + 1 \in 1 .. L /\ (i + 1) - 1 = i
      BY <2>0, <2>2, <1>1
    <3>2. Returns(R(i), of)
      BY <3>1, <1>4
    <3> QED
      BY <3>1, <3>2, <1>2
  <2> QED
    BY <2>1, <2>2
<1>5. L \in S
  <2> HIDE DEF S
  <2> QED
    BY <1>1, <1>3, <1>4, StepInduction
<1>6. L >= k /\ L <= L
  BY <1>1 DEF L
<1> QED
  BY <1>5, <1>6 DEF R, L

\* What it returns of the cut file it returns of the whole.
LEMMA ReaderCut ==
    ASSUME NEW parts, Valid(parts), NEW s \in Seq(Found(parts)), NEW t \in Seq(Found(parts)), Cuts(s, t),
           NEW of, Returns(Reader(s)[Len(s)], of)
    PROVE  Returns(Reader(t)[Len(t)], of)
<1> DEFINE R(i) == Reader(s)[i]
           Q(i) == Reader(t)[i]
           n == Len(s)
           same == n <= Len(t) /\ (n > 0 => s[n] = t[n])
           k == IF same THEN n ELSE n - 1
<1>1. /\ n \in Nat
      /\ \A i \in 1 .. n : s[i] \in Found(parts) /\ R(i) = ReadPhysical(R(i - 1), s[i])
      /\ \A i \in 0 .. n : R(i) \in ReadStates(parts)
      /\ R(0) = [out |-> <<>>, scratch |-> <<>>, inside |-> FALSE]
  BY ReaderIs
<1>2. /\ Len(t) \in Nat
      /\ \A i \in 1 .. Len(t) : Q(i) = ReadPhysical(Q(i - 1), t[i])
      /\ Q(0) = [out |-> <<>>, scratch |-> <<>>, inside |-> FALSE]
  BY ReaderIs
<1>3. /\ k \in 0 .. n /\ k <= Len(t) /\ \A i \in 1 .. k : s[i] = t[i]
      /\ k # n => k = n - 1 /\ n \in 1 .. n /\ s[n] = BadRecord
  <2>1. ASSUME NEW i \in 1 .. n, i # n
        PROVE  i <= Len(t) /\ s[i] = t[i]
    BY <2>1 DEF Cuts
  <2>2. CASE same
    <3>1. n = 0 \/ n > 0
      BY <1>1
    <3> QED
      BY <2>1, <2>2, <3>1, <1>1
  <2>3. CASE ~same
    <3>1. n > 0
      BY <2>3, <1>1, <1>2
    <3>2. n \in 1 .. n
      BY <3>1, <1>1
    <3>3. s[n] = BadRecord
      BY <2>3, <3>2 DEF Cuts
    <3>4. k = n - 1 /\ k \in 0 .. n
      BY <2>3, <3>1, <1>1
    <3>5. k <= Len(t)
      <4> HIDE DEF k, n
      <4>1. CASE k = 0
        BY <4>1, <1>2
      <4>2. CASE k # 0
        <5>1. k \in 1 .. n /\ k # n
          BY <4>2, <3>4, <1>1
        <5> QED
          BY <5>1, <2>1
      <4> QED
        BY <4>1, <4>2
    <3>6. \A i \in 1 .. k : i \in 1 .. n /\ i # n
      BY <3>4, <1>1
    <3> QED
      BY <2>1, <3>2, <3>3, <3>4, <3>5, <3>6
  <2> QED
    BY <2>2, <2>3
<1> HIDE DEF k, same, n, R, Q
<1> DEFINE S == { i \in Nat : i <= k => R(i) = Q(i) }
<1>4. 0 \in S
  BY <1>1, <1>2
<1>5. ASSUME NEW i \in Nat, i \in S
      PROVE  i + 1 \in S
  <2> SUFFICES ASSUME i + 1 <= k PROVE R(i + 1) = Q(i + 1)
    OBVIOUS
  <2>1. i <= k /\ i + 1 \in 1 .. k /\ i + 1 \in 1 .. n /\ i + 1 \in 1 .. Len(t) /\ (i + 1) - 1 = i
    BY <1>1, <1>2, <1>3
  <2> QED
    BY <2>1, <1>1, <1>2, <1>3, <1>5
<1>6. k \in S
  <2>1. k \in Nat
    BY <1>3, <1>1
  <2> HIDE DEF S
  <2> QED
    BY <2>1, <1>4, <1>5, StepInduction
<1>7. R(k) = Q(k)
  BY <1>1, <1>3, <1>6
<1>8. R(n).out = R(k).out
  <2>1. CASE k = n
    BY <2>1
  <2>2. CASE k # n
    <3>1. k = n - 1 /\ n \in 1 .. n /\ s[n] = BadRecord
      BY <2>2, <1>3
    <3>2. R(n) = ReadPhysical(R(k), BadRecord) /\ R(k) \in ReadStates(parts)
      BY <3>1, <1>1, <1>3
    <3>3. BadRecord \in Found(parts) /\ BadRecord.type = "bad"
      BY DEF Found, BadRecord, Physical
    <3> DEFINE r == R(k)
    <3> HIDE DEF r
    <3>4. ReadPhysical(r, BadRecord).out = r.out
      BY <3>2, <3>3, ReadPhysicalIs DEF r
    <3> QED
      BY <3>2, <3>4 DEF r
  <2> QED
    BY <2>1, <2>2
<1>9. Returns(Q(k), of)
  <2>1. Returns(R(n), of)
    BY DEF R, n
  <2> QED
    BY <2>1, <1>7, <1>8 DEF Returns
<1>10. k \in 0 .. Len(t)
  BY <1>1, <1>2, <1>3
<1> QED
  BY <1>9, <1>10, ReturnedStays DEF Q

\* Of a file that was cut the reader returns no record that it would not return of the whole.
THEOREM CutReadable ==
    ASSUME NEW O, NEW size \in [O -> Nat], NEW file \in Seq(BytesOf(Parts(O, size))), NEW c \in 0 .. Len(file)
    PROVE  Readable(SubSeq(file, 1, c)) \subseteq Readable(file)
<1> DEFINE P == Parts(O, size)
           a == SubSeq(file, 1, c)
           s == PhysicalRecords(a)
           t == PhysicalRecords(file)
<1>1. Valid(P) /\ \A p \in P : p.len \in Nat /\ p.type \notin {"zero", "bad"}
  BY PartsValid DEF Valid
<1>2. file \in Seq(BytesOf(P))
  OBVIOUS
<1> HIDE DEF P
<1>3. /\ a \in Seq(BytesOf(P)) /\ Len(a) = c /\ c \in Nat /\ Len(file) \in Nat
      /\ \A i \in 1 .. Len(a) : a[i] = file[i]
  BY <1>2, PrefixSeq
<1>4. Len(a) <= Len(file)
  BY <1>3
<1> HIDE DEF a
<1>5. Cuts(s, t)
  BY <1>1, <1>2, <1>3, <1>4, PhysicalCut
<1>6. s \in Seq(Found(P)) /\ t \in Seq(Found(P))
  <2>1. 1 \in 1 .. Len(a) + 1 /\ 1 \in 1 .. Len(file) + 1
    BY <1>3
  <2>2. s = Parse(a)[1] /\ \A at \in 1 .. Len(a) + 1 : Parse(a)[at] \in Seq(Found(P))
    BY <1>1, <1>3, ParseIs
  <2>3. t = Parse(file)[1] /\ \A at \in 1 .. Len(file) + 1 : Parse(file)[at] \in Seq(Found(P))
    BY <1>1, <1>2, ParseIs
  <2> QED
    BY <2>1, <2>2, <2>3
<1>7. ReadRecords(a) = Reader(s)[Len(s)].out /\ ReadRecords(file) = Reader(t)[Len(t)].out
  BY ReadRecordsAre
<1> HIDE DEF s, t
<1> SUFFICES ASSUME NEW of \in Readable(a) PROVE of \in Readable(file)
  BY DEF a
<1>8. Returns(Reader(s)[Len(s)], of)
  BY <1>7 DEF Readable, Returns
<1>9. Returns(Reader(t)[Len(t)], of)
  BY <1>1, <1>5, <1>6, <1>8, ReaderCut
<1> QED
  BY <1>7, <1>9 DEF Readable, Returns

-----------------------------------------------------------------------------
(* The queue of writers *)

\* The fields of job, which TypeOK speaks of one by one.
JobInv == job = [stage |-> job.stage, ws |-> job.ws, rec |-> job.rec]

QueueInv == TypeOK /\ QueueOK /\ JobInv

InCall == {"queued", "waiting", "leading"}

\* The group is a prefix of the queue that has its first writer.
LEMMA GroupIsPrefix ==
    ASSUME TypeOK, writers # <<>>
    PROVE  \E n \in 1 .. Len(writers) : BatchGroup = SubSeq(writers, 1, n)
<1> DEFINE size == BatchSize[Head(writers)]
           limit == IF size <= SmallGroup THEN size + SmallGroup ELSE LargeGroup
           Joins(k) == /\ writers[k] \in Syncs => Head(writers) \in Syncs
                       /\ BatchSize[writers[k]] > 0 => DataSize(SubSeq(writers, 1, k)) <= limit
           K == { k \in DOMAIN writers : \A j \in 2 .. k : Joins(j) }
<1>1. BatchGroup = SubSeq(writers, 1, Cardinality(K))
  BY DEF BatchGroup
<1> HIDE DEF Joins
<1>2. /\ Len(writers) \in Nat /\ DOMAIN writers = 1 .. Len(writers) /\ Len(writers) >= 1
  BY DEF TypeOK
<1>3. 1 \in K /\ K \in SUBSET (1 .. Len(writers))
  BY <1>2
<1> HIDE DEF K
<1>4. Cardinality(K) \in 1 .. Len(writers)
  BY <1>2, <1>3, PrefixSize
<1> QED
  BY <1>1, <1>4

-----------------------------------------------------------------------------
(* Steps of the queue. *)

\* What the types and the queue need of a step that leaves the writers alone,
\* or wakes those that wait for room.
LEMMA QueueStays ==
    ASSUME QueueInv,
           phase' \in {"down", "opening", "installed", "up", "failed"},
           {bg_error', scheduled'} \subseteq BOOLEAN,
           UNCHANGED <<writers, asleep, job>>,
           pc' = pc \/ pc' = Woken
    PROVE  QueueInv'
<1> USE DEF QueueInv
<1>1. CASE pc' = pc
  BY <1>1 DEF TypeOK, QueueOK, JobInv
<1>2. CASE pc' = Woken
  <2>1. pc' \in [Writes -> {"none", "new", "queued", "waiting", "leading", "ok", "error", "lost"}]
    BY <1>2 DEF TypeOK, Woken
  <2>2. \A w \in Writes : /\ pc'[w] \in InCall <=> pc[w] \in InCall
                          /\ pc'[w] = "leading" <=> pc[w] = "leading"
                          /\ pc[w] = "queued" => pc'[w] = "queued"
    BY <1>2 DEF TypeOK, Woken, InCall
  <2>3. \A i \in 1 .. Len(writers) : writers[i] \in Writes
    BY DEF TypeOK
  <2>4. writers # <<>> => 1 \in 1 .. Len(writers)
    BY DEF TypeOK
  <2> QED
    BY <2>1, <2>2, <2>3, <2>4 DEF TypeOK, QueueOK, JobInv, InCall
<1> QED
  BY <1>1, <1>2

\* A group at the head of the queue returns and wakes the next.
LEMMA FinishQueue ==
    ASSUME QueueInv, NEW n \in 1 .. Len(writers), NEW answer \in {"ok", "error"},
           Finish(SubSeq(writers, 1, n), answer),
           phase' \in {"down", "opening", "installed", "up", "failed"},
           {bg_error', scheduled'} \subseteq BOOLEAN
    PROVE  QueueInv'
<1> USE DEF QueueInv
<1> DEFINE group == { writers[i] : i \in 1 .. n }
<1>1. /\ Len(writers) \in Nat /\ writers \in Seq(Writes)
      /\ \A i \in 1 .. Len(writers) : writers[i] \in Writes
      /\ \A i, j \in 1 .. Len(writers) : writers[i] = writers[j] => i = j
  BY DEF TypeOK, IsInjective
<1>2. Len(SubSeq(writers, 1, n)) = n /\ Range(SubSeq(writers, 1, n)) = group
  BY <1>1, Prefix
<1>3. /\ writers' = SubSeq(writers, n + 1, Len(writers))
      /\ pc' = [w \in Writes |-> IF w \in group THEN answer ELSE pc[w]]
      /\ asleep' = asleep \ (group \cup IF writers' = <<>> THEN {} ELSE {Head(writers')})
      /\ job' = IdleJob
  BY <1>2 DEF Finish
<1> HIDE DEF group
<1>4. /\ writers' \in Seq(Writes) /\ Len(writers') = Len(writers) - n
      /\ \A i \in 1 .. Len(writers') : writers'[i] = writers[n + i]
      /\ Range(writers') = { writers[i] : i \in n + 1 .. Len(writers) }
  BY <1>1, <1>3, Suffix
<1>5. \A i \in 1 .. Len(writers') : n + i \in n + 1 .. Len(writers)
  BY <1>1, <1>4
<1>6. Range(writers) = { writers[i] : i \in 1 .. Len(writers) }
  BY <1>1 DEF Range
<1>7. \A i \in n + 1 .. Len(writers) : writers[i] \notin group
  BY <1>1 DEF group
<1>8. IsInjective(writers')
  <2>1. ASSUME NEW i \in 1 .. Len(writers'), NEW j \in 1 .. Len(writers'), writers'[i] = writers'[j]
        PROVE  i = j
    <3>1. n + i \in 1 .. Len(writers) /\ n + j \in 1 .. Len(writers)
      BY <1>1, <1>4
    <3>2. n + i = n + j
      BY <1>1, <1>4, <2>1, <3>1
    <3> QED
      BY <1>1, <1>4, <3>2
  <2>2. DOMAIN writers' = 1 .. Len(writers')
    BY <1>4
  <2> QED
    BY <2>1, <2>2 DEF IsInjective
<1>9. pc' \in [Writes -> {"none", "new", "queued", "waiting", "leading", "ok", "error", "lost"}]
  BY <1>3 DEF TypeOK
<1>10. \A w \in Writes : pc'[w] \in InCall <=> w \in Range(writers')
  <2> SUFFICES ASSUME NEW w \in Writes
               PROVE  pc'[w] \in InCall <=> w \in Range(writers')
    OBVIOUS
  <2>1. pc[w] \in InCall <=> w \in Range(writers)
    BY DEF QueueOK, InCall
  <2>2. w \in Range(writers) <=> w \in group \/ w \in Range(writers')
    <3>1. \A i : i \in 1 .. Len(writers) <=> i \in 1 .. n \/ i \in n + 1 .. Len(writers)
      BY <1>1
    <3> QED
      BY <1>4, <1>6, <3>1 DEF group
  <2>3. w \in group => pc'[w] \notin InCall
    BY <1>3 DEF InCall
  <2>4. w \in Range(writers') => w \notin group
    BY <1>4, <1>7
  <2>5. w \notin group => pc'[w] = pc[w]
    BY <1>3
  <2> QED
    BY <2>1, <2>2, <2>3, <2>4, <2>5
<1>11. \A i \in 1 .. Len(writers') : pc'[writers'[i]] = "queued"
  <2> SUFFICES ASSUME NEW i \in 1 .. Len(writers')
               PROVE  pc'[writers'[i]] = "queued"
    OBVIOUS
  <2>1. n + i \in 2 .. Len(writers) /\ n + i \in 1 .. Len(writers)
    BY <1>1, <1>4
  <2>2. pc[writers[n + i]] = "queued"
    BY <2>1 DEF QueueOK
  <2>3. writers[n + i] \notin group /\ writers[n + i] \in Writes
    BY <1>1, <1>5, <1>7, <2>1
  <2> QED
    BY <1>3, <1>4, <2>2, <2>3
<1>12. asleep' = { writers'[i] : i \in 2 .. Len(writers') }
  <2>1. ASSUME NEW w \in asleep' PROVE w \in { writers'[i] : i \in 2 .. Len(writers') }
    <3>1. PICK j \in 2 .. Len(writers) : w = writers[j]
      BY <1>3, <2>1 DEF QueueOK
    <3>2. j \notin 1 .. n
      BY <1>3, <2>1, <3>1 DEF group
    <3>3. j # n + 1
      <4> SUFFICES ASSUME j = n + 1 PROVE FALSE
        OBVIOUS
      <4>1. Len(writers') >= 1
        BY <1>1, <1>4
      <4>2. writers' # <<>> /\ Head(writers') = writers'[1]
        BY <1>4, <4>1
      <4>3. Head(writers') = w
        BY <1>4, <3>1, <4>1, <4>2
      <4> QED
        BY <1>3, <2>1, <4>2, <4>3
    <3>4. j - n \in 2 .. Len(writers') /\ n + (j - n) = j
      BY <1>1, <1>4, <3>2, <3>3
    <3>5. writers'[j - n] = w
      BY <1>4, <3>1, <3>4
    <3> QED
      BY <3>4, <3>5
  <2>2. ASSUME NEW i \in 2 .. Len(writers') PROVE writers'[i] \in asleep'
    <3>1. n + i \in 2 .. Len(writers) /\ n + i \in n + 1 .. Len(writers) /\ n + i # n + 1
      BY <1>1, <1>4
    <3>2. writers'[i] = writers[n + i]
      BY <1>4
    <3>3. writers[n + i] \in asleep
      BY <3>1 DEF QueueOK
    <3>4. writers[n + i] \notin group
      BY <1>7, <3>1
    <3>5. writers' # <<>> => Head(writers') = writers[n + 1]
      BY <1>1, <1>4
    <3>6. writers[n + i] # writers[n + 1]
      BY <1>1, <3>1
    <3> QED
      BY <1>3, <3>2, <3>3, <3>4, <3>5, <3>6
  <2> QED
    BY <2>1, <2>2
<1>13. asleep' \subseteq Range(writers')
  BY <1>4, <1>12 DEF Range
<1>14. job'.stage = "none" /\ job'.ws \in Seq(Writes) /\ JobInv'
  BY <1>3 DEF IdleJob, JobInv
<1>15. TypeOK'
  BY <1>4, <1>8, <1>9, <1>13, <1>14 DEF TypeOK
<1>16. QueueOK'
  <2>1. writers' # <<>> => pc'[writers'[1]] = "queued"
    BY <1>4, <1>11
  <2> QED
    BY <1>10, <1>11, <1>12, <1>14, <2>1 DEF QueueOK, InCall
<1> QED
  BY <1>14, <1>15, <1>16

\* A call joins the end of the queue.
LEMMA WriteQueue ==
    ASSUME QueueInv, NEW w \in Writes, Write(w)
    PROVE  QueueInv'
<1> USE DEF QueueInv
<1> DEFINE n == Len(writers)
<1>1. /\ pc[w] = "new" /\ pc' = [pc EXCEPT ![w] = "queued"]
      /\ writers' = Append(writers, w)
      /\ asleep' = IF writers = <<>> THEN asleep ELSE asleep \cup {w}
      /\ UNCHANGED <<phase, job, bg_error, scheduled>>
  BY DEF Write, bgVars
<1>2. /\ n \in Nat /\ writers \in Seq(Writes)
      /\ \A i \in 1 .. n : writers[i] \in Writes
      /\ \A i, j \in 1 .. n : writers[i] = writers[j] => i = j
      /\ Range(writers) = { writers[i] : i \in 1 .. n }
  BY DEF TypeOK, IsInjective, Range
<1>3. /\ writers' \in Seq(Writes) /\ Len(writers') = n + 1 /\ DOMAIN writers' = 1 .. n + 1
      /\ \A i \in 1 .. n : writers'[i] = writers[i]
      /\ writers'[n + 1] = w
  BY <1>1, <1>2
<1> HIDE DEF n
<1>4. w \notin Range(writers)
  BY <1>1 DEF QueueOK
<1>5. Range(writers') = Range(writers) \cup {w}
  <2>1. \A i : i \in 1 .. n + 1 <=> i \in 1 .. n \/ i = n + 1
    BY <1>2
  <2>2. Range(writers') = { writers'[i] : i \in 1 .. n + 1 }
    BY <1>3 DEF Range
  <2> QED
    BY <1>2, <1>3, <2>1, <2>2
<1>6. IsInjective(writers')
  <2> SUFFICES ASSUME NEW i \in 1 .. n + 1, NEW j \in 1 .. n + 1, writers'[i] = writers'[j]
               PROVE  i = j
    BY <1>3 DEF IsInjective
  <2>1. CASE i \in 1 .. n /\ j \in 1 .. n
    BY <1>2, <1>3, <2>1
  <2>2. CASE i = n + 1 /\ j = n + 1
    BY <2>2
  <2>3. ASSUME NEW k \in 1 .. n PROVE writers'[k] # w
    BY <1>2, <1>3, <1>4
  <2>4. i \in 1 .. n \/ i = n + 1
    BY <1>2
  <2>5. j \in 1 .. n \/ j = n + 1
    BY <1>2
  <2> QED
    BY <1>3, <2>1, <2>2, <2>3, <2>4, <2>5
<1>7. pc' \in [Writes -> {"none", "new", "queued", "waiting", "leading", "ok", "error", "lost"}]
  BY <1>1 DEF TypeOK
<1>8. asleep' = { writers'[i] : i \in 2 .. n + 1 }
  <2>1. CASE writers = <<>>
    <3>1. n = 0
      BY <2>1 DEF n
    <3> QED
      BY <1>1, <2>1, <3>1 DEF QueueOK, n
  <2>2. CASE writers # <<>>
    <3>1. n >= 1
      BY <1>2, <2>2 DEF n
    <3>2. \A i : i \in 2 .. n + 1 <=> i \in 2 .. n \/ i = n + 1
      BY <1>2, <3>1
    <3>3. asleep = { writers[i] : i \in 2 .. n }
      BY DEF QueueOK, n
    <3>4. \A i \in 2 .. n : writers'[i] = writers[i]
      BY <1>2, <1>3
    <3> QED
      BY <1>1, <1>3, <2>2, <3>2, <3>3, <3>4
  <2> QED
    BY <2>1, <2>2
<1>9. TypeOK'
  <2>1. asleep' \subseteq Range(writers')
    <3>1. Range(writers') = { writers'[i] : i \in 1 .. n + 1 }
      BY <1>3 DEF Range
    <3> QED
      BY <1>2, <1>8, <3>1
  <2> QED
    BY <1>1, <1>3, <1>6, <1>7, <2>1 DEF TypeOK
<1>10. \A v \in Writes : pc'[v] \in InCall <=> v \in Range(writers')
  BY <1>1, <1>5 DEF TypeOK, QueueOK, InCall
<1>11. \A i \in 2 .. n + 1 : pc'[writers'[i]] = "queued"
  <2>1. ASSUME NEW i \in 2 .. n PROVE pc'[writers'[i]] = "queued"
    <3>1. pc[writers[i]] = "queued" /\ writers'[i] = writers[i] /\ writers[i] \in Writes
      BY <1>2, <1>3 DEF QueueOK, n
    <3> QED
      BY <1>1, <3>1 DEF TypeOK
  <2>2. pc'[writers'[n + 1]] = "queued"
    BY <1>1, <1>3 DEF TypeOK
  <2>3. \A i \in 2 .. n + 1 : i \in 2 .. n \/ i = n + 1
    BY <1>2
  <2> QED
    BY <2>1, <2>2, <2>3
<1>12. writers' # <<>> => (pc'[writers'[1]] = "leading" <=> job'.stage # "none")
  <2>1. CASE writers = <<>>
    <3>1. n = 0 /\ writers'[1] = w
      BY <1>3, <2>1 DEF n
    <3>2. job.stage = "none"
      BY <2>1, <3>1 DEF QueueOK, n
    <3> QED
      BY <1>1, <3>1, <3>2 DEF TypeOK
  <2>2. CASE writers # <<>>
    <3>1. 1 \in 1 .. n
      BY <1>2, <2>2 DEF n
    <3>2. writers'[1] = writers[1] /\ writers[1] \in Writes /\ writers[1] # w
      BY <1>2, <1>3, <1>4, <3>1
    <3>3. pc'[writers'[1]] = pc[writers[1]]
      BY <1>1, <3>2 DEF TypeOK
    <3> QED
      BY <1>1, <2>2, <3>3 DEF QueueOK
  <2> QED
    BY <2>1, <2>2
<1>13. job'.stage # "none" => /\ Len(job'.ws) \in 1 .. n + 1
                              /\ job'.ws = SubSeq(writers', 1, Len(job'.ws))
  <2> SUFFICES ASSUME job.stage # "none"
               PROVE  /\ Len(job.ws) \in 1 .. n + 1
                      /\ job.ws = SubSeq(writers', 1, Len(job.ws))
    BY <1>1
  <2>1. Len(job.ws) \in 1 .. n /\ job.ws = SubSeq(writers, 1, Len(job.ws))
    BY DEF QueueOK, n
  <2>2. SubSeq(writers', 1, Len(job.ws)) = SubSeq(writers, 1, Len(job.ws))
    BY <1>2, <1>3, <2>1 DEF n
  <2> QED
    BY <1>2, <2>1, <2>2
<1>14. QueueOK'
  BY <1>3, <1>8, <1>10, <1>11, <1>12, <1>13 DEF QueueOK, InCall
<1> QED
  BY <1>1, <1>9, <1>14 DEF JobInv

\* The first writer takes a group and goes to work.
LEMMA StartGroupQueue ==
    ASSUME QueueInv, NEW w \in Writes, Leads(w), StartGroup(w),
           UNCHANGED <<phase, bg_error>>, scheduled' \in BOOLEAN
    PROVE  QueueInv'
<1> USE DEF QueueInv
<1>1. /\ writers # <<>> /\ Head(writers) = w /\ pc[w] = "queued"
      /\ writers \in Seq(Writes) /\ Len(writers) >= 1 /\ w = writers[1]
  BY DEF Leads, TypeOK
<1>2. /\ pc' = [pc EXCEPT ![w] = "leading"]
      /\ job' = [stage |-> "append", ws |-> BatchGroup,
                 rec |-> [seq |-> last_sequence + 1, ws |-> WithData(BatchGroup)]]
      /\ UNCHANGED <<writers, asleep>>
  BY DEF StartGroup
<1>3. PICK n \in 1 .. Len(writers) : BatchGroup = SubSeq(writers, 1, n)
  BY <1>1, GroupIsPrefix
<1>4. /\ BatchGroup \in Seq(Writes) /\ Len(BatchGroup) = n
  BY <1>1, <1>3, Prefix
<1>5. TypeOK' /\ JobInv'
  BY <1>2, <1>4 DEF TypeOK, JobInv
<1>6. \A i \in 2 .. Len(writers) : pc'[writers[i]] = "queued"
  <2> SUFFICES ASSUME NEW i \in 2 .. Len(writers) PROVE pc'[writers[i]] = "queued"
    OBVIOUS
  <2>1. writers[i] # w /\ writers[i] \in Writes
    BY <1>1 DEF TypeOK, IsInjective
  <2>2. pc[writers[i]] = "queued"
    BY DEF QueueOK
  <2> QED
    BY <1>2, <2>1, <2>2 DEF TypeOK
<1>7. \A v \in Writes : pc'[v] \in InCall <=> pc[v] \in InCall
  BY <1>1, <1>2 DEF TypeOK, InCall
<1>8. pc'[writers[1]] = "leading" /\ job'.stage = "append" /\ job'.ws = BatchGroup
  BY <1>1, <1>2 DEF TypeOK
<1>9. QueueOK'
  BY <1>2, <1>3, <1>4, <1>6, <1>7, <1>8 DEF QueueOK, InCall
<1> QED
  BY <1>5, <1>9

\* The first writer gets on with its job.
LEMMA JobQueue ==
    ASSUME QueueInv, job.stage # "none",
           NEW stage \in {"append", "sync", "insert", "failed", "sync_error"},
           job' = [job EXCEPT !.stage = stage],
           UNCHANGED <<phase, writers, pc, asleep, bg_error, scheduled>>
    PROVE  QueueInv'
<1>1. /\ job' = [stage |-> stage, ws |-> job.ws, rec |-> job.rec]
      /\ job'.stage = stage /\ job'.ws = job.ws /\ job'.rec = job.rec
  BY DEF QueueInv, JobInv
<1>2. TypeOK' /\ JobInv'
  BY <1>1 DEF QueueInv, TypeOK, JobInv
<1>3. QueueOK'
  BY <1>1 DEF QueueInv, QueueOK
<1> QED
  BY <1>2, <1>3 DEF QueueInv

\* A first writer alone returns.
LEMMA FinishFirstQueue ==
    ASSUME QueueInv, NEW w \in Writes, Leads(w), NEW answer \in {"ok", "error"},
           Finish(<<w>>, answer),
           UNCHANGED <<phase, bg_error>>, scheduled' \in BOOLEAN
    PROVE  QueueInv'
<1>1. writers \in Seq(Writes) /\ Len(writers) >= 1 /\ w = writers[1]
  BY DEF QueueInv, Leads, TypeOK
<1>2. 1 \in 1 .. Len(writers) /\ SubSeq(writers, 1, 1) = <<w>>
  <2>1. 1 \in 1 .. Len(writers)
    BY <1>1
  <2>2. /\ SubSeq(writers, 1, 1) \in Seq(Writes) /\ Len(SubSeq(writers, 1, 1)) = 1
        /\ SubSeq(writers, 1, 1)[1] = w
    BY <1>1, <2>1, Prefix
  <2>3. <<w>> \in Seq(Writes) /\ Len(<<w>>) = 1 /\ <<w>>[1] = w
    OBVIOUS
  <2>4. \A i \in 1 .. 1 : SubSeq(writers, 1, 1)[i] = <<w>>[i]
    BY <2>2, <2>3
  <2>5. SubSeq(writers, 1, 1) = <<w>>
    BY ONLY <2>2, <2>3, <2>4, SeqEqual
  <2> QED
    BY <2>1, <2>5
<1>3. /\ phase' \in {"down", "opening", "installed", "up", "failed"}
      /\ {bg_error', scheduled'} \subseteq BOOLEAN
  BY DEF QueueInv, TypeOK
<1>4. Finish(SubSeq(writers, 1, 1), answer)
  BY <1>2
<1> QED
  BY <1>2, <1>3, <1>4, FinishQueue

\* The writer at the front of the queue: a write refused, or a group built and room made for it.
LEMMA LeadQueue ==
    ASSUME QueueInv, NEW w \in Writes, LeadWrite(w)
    PROVE  QueueInv'
<1>1. scheduled \in BOOLEAN
  BY DEF QueueInv, TypeOK
<1>2. CASE RefuseWrite(w)
  <2>1. Leads(w) /\ Finish(<<w>>, "error") /\ UNCHANGED <<phase, bg_error, scheduled>>
    BY <1>2 DEF RefuseWrite, bgVars
  <2> QED
    BY <1>1, <2>1, FinishFirstQueue
<1>3. CASE WaitForRoom(w)
  <2> USE DEF QueueInv
  <2>1. /\ writers # <<>> /\ w = Head(writers) /\ pc[w] = "queued"
        /\ pc' = [pc EXCEPT ![w] = "waiting"]
        /\ UNCHANGED <<phase, writers, asleep, job, bg_error, scheduled>>
    BY <1>3 DEF WaitForRoom, Leads, bgVars
  <2>2. writers \in Seq(Writes) /\ Len(writers) >= 1 /\ w = writers[1]
    BY <2>1 DEF TypeOK
  <2>3. TypeOK' /\ JobInv'
    BY <2>1 DEF TypeOK, JobInv
  <2>4. \A i \in 2 .. Len(writers) : pc'[writers[i]] = "queued"
    <3> SUFFICES ASSUME NEW i \in 2 .. Len(writers) PROVE pc'[writers[i]] = "queued"
      OBVIOUS
    <3>1. writers[i] # w /\ writers[i] \in Writes
      BY <2>2 DEF TypeOK, IsInjective
    <3>2. pc[writers[i]] = "queued"
      BY DEF QueueOK
    <3> QED
      BY <2>1, <3>1, <3>2 DEF TypeOK
  <2>5. \A v \in Writes : pc'[v] \in InCall <=> pc[v] \in InCall
    BY <2>1 DEF TypeOK, InCall
  <2>6. pc'[writers[1]] = "waiting" /\ job.stage = "none"
    BY <2>1, <2>2 DEF TypeOK, QueueOK
  <2>7. QueueOK'
    BY <2>1, <2>4, <2>5, <2>6 DEF QueueOK, InCall
  <2> QED
    BY <2>3, <2>7
<1>4. CASE WriteToMem(w)
  <2>1. Leads(w) /\ StartGroup(w) /\ UNCHANGED <<phase, bg_error, scheduled>>
    BY <1>4 DEF WriteToMem, bgVars
  <2> QED
    BY <1>1, <2>1, StartGroupQueue
<1>5. CASE NoNewLog(w)
  <2>1. Leads(w) /\ Finish(<<w>>, "error") /\ UNCHANGED <<phase, bg_error, scheduled>>
    BY <1>5 DEF NoNewLog, bgVars
  <2> QED
    BY <1>1, <2>1, FinishFirstQueue
<1>6. CASE SwitchMem(w)
  <2>1. Leads(w) /\ UNCHANGED <<phase, bg_error>> /\ scheduled' \in BOOLEAN
    BY <1>6 DEF SwitchMem
  <2>2. Finish(<<w>>, "ok") \/ StartGroup(w)
    BY <1>6 DEF SwitchMem
  <2> QED
    BY <2>1, <2>2, FinishFirstQueue, StartGroupQueue
<1> QED
  BY <1>2, <1>3, <1>4, <1>5, <1>6 DEF LeadWrite

\* The write that holds the queue: its record appended, synced and inserted.
LEMMA GoOnQueue ==
    ASSUME QueueInv, GoOnWriting
    PROVE  QueueInv'
<1>1. CASE AppendRecord
  <2>1. /\ job.stage # "none"
        /\ \E stage \in {"sync", "insert"} : job' = [job EXCEPT !.stage = stage]
        /\ UNCHANGED <<phase, writers, pc, asleep, bg_error, scheduled>>
    BY <1>1 DEF AppendRecord, bgVars
  <2> QED
    BY <2>1, JobQueue
<1>2. CASE AppendFails
  <2>1. /\ job.stage # "none" /\ job' = [job EXCEPT !.stage = "failed"]
        /\ UNCHANGED <<phase, writers, pc, asleep, bg_error, scheduled>>
    BY <1>2 DEF AppendFails, bgVars
  <2> QED
    BY <2>1, JobQueue
<1>3. CASE SyncLog
  <2>1. /\ job.stage # "none" /\ job' = [job EXCEPT !.stage = "insert"]
        /\ UNCHANGED <<phase, writers, pc, asleep, bg_error, scheduled>>
    BY <1>3 DEF SyncLog, bgVars
  <2> QED
    BY <2>1, JobQueue
<1>4. CASE SyncFails
  <2>1. /\ job.stage # "none" /\ job' = [job EXCEPT !.stage = "sync_error"]
        /\ UNCHANGED <<phase, writers, pc, asleep, bg_error, scheduled>>
    BY <1>4 DEF SyncFails, bgVars
  <2> QED
    BY <2>1, JobQueue
<1>5. CASE EndWrite
  <2>1. /\ job.stage # "none"
        /\ \E answer \in {"ok", "error"} : Finish(job.ws, answer)
        /\ bg_error' = (bg_error \/ job.stage = "sync_error")
        /\ UNCHANGED <<phase, scheduled>>
    BY <1>5 DEF EndWrite
  <2>2. Len(job.ws) \in 1 .. Len(writers) /\ job.ws = SubSeq(writers, 1, Len(job.ws))
    BY <2>1 DEF QueueInv, QueueOK
  <2>3. /\ phase' \in {"down", "opening", "installed", "up", "failed"}
        /\ {bg_error', scheduled'} \subseteq BOOLEAN
    BY <2>1 DEF QueueInv, TypeOK
  <2> QED
    BY <2>1, <2>2, <2>3, FinishQueue
<1> QED
  BY <1>1, <1>2, <1>3, <1>4, <1>5 DEF GoOnWriting

\* The background touches the writers only to wake those that wait for room.
LEMMA BackgroundQueue ==
    ASSUME QueueInv, Background
    PROVE  QueueInv'
<1>1. /\ {bg_error, scheduled} \subseteq BOOLEAN
      /\ phase \in {"down", "opening", "installed", "up", "failed"}
  BY DEF QueueInv, TypeOK
<1>2. ASSUME NEW files, NEW old, NEW err \in BOOLEAN, EndBackground(files, old, err)
      PROVE  scheduled' \in BOOLEAN /\ pc' = Woken
  BY <1>2 DEF EndBackground
<1>3. ASSUME NEW old, NEW err \in BOOLEAN, EndImm(old, err)
      PROVE  scheduled' \in BOOLEAN /\ pc' = Woken
  BY <1>1, <1>2, <1>3 DEF EndImm
<1>4. /\ UNCHANGED <<phase, writers, asleep, job>>
      /\ bg_error' \in BOOLEAN /\ scheduled' \in BOOLEAN
      /\ pc' = pc \/ pc' = Woken
  <2>1. CASE NothingToDo
    <3>1. EndBackground(version, imm, bg_error) /\ UNCHANGED <<phase, writers, asleep, job, bg_error>>
      BY <2>1 DEF NothingToDo
    <3> QED
      BY <1>1, <1>2, <3>1
  <2>2. CASE StartTable \/ FinishTable
    BY <1>1, <2>2 DEF StartTable, FinishTable, callVars
  <2>3. CASE TableFails
    <3>1. EndImm(imm, TRUE) /\ bg_error' = TRUE /\ UNCHANGED <<phase, writers, asleep, job>>
      BY <2>3 DEF TableFails
    <3> QED
      BY <1>3, <3>1
  <2>4. CASE StartMove \/ StartMerge \/ FinishMerge \/ WriteManifest
    BY <1>1, <2>4 DEF StartMove, StartMerge, FinishMerge, WriteManifest, callVars
  <2>5. CASE MergeFails
    <3>1. EndBackground(version, imm, TRUE) /\ bg_error' = TRUE /\ UNCHANGED <<phase, writers, asleep, job>>
      BY <2>5 DEF MergeFails, AbandonMerge
    <3> QED
      BY <1>2, <3>1
  <2>6. CASE ManifestFails
    <3>1. UNCHANGED <<phase, writers, asleep, job>>
      BY <2>6 DEF ManifestFails
    <3>2. \/ bg_error' = TRUE /\ EndImm(imm, TRUE)
          \/ bg_error' = TRUE /\ EndBackground(version, imm, TRUE)
      BY <2>6 DEF ManifestFails, AbandonMerge
    <3> QED
      BY <1>2, <1>3, <3>1, <3>2
  <2>7. CASE InstallVersion
    <3>1. UNCHANGED <<phase, writers, asleep, job, bg_error>>
      BY <2>7 DEF InstallVersion
    <3>2. EndImm(Nothing, bg_error) \/ EndBackground(version', imm, bg_error)
      BY <2>7 DEF InstallVersion
    <3> QED
      BY <1>1, <1>2, <1>3, <3>1, <3>2
  <2> QED
    BY <2>1, <2>2, <2>3, <2>4, <2>5, <2>6, <2>7 DEF Background
<1> QED
  BY <1>1, <1>4, QueueStays

\* A crash leaves nobody in the queue.
LEMMA CrashQueue ==
    ASSUME QueueInv, LoseMemory
    PROVE  QueueInv'
<1>1. /\ phase' = "down" /\ writers' = <<>> /\ asleep' = {} /\ job' = IdleJob
      /\ pc' = [w \in Writes |-> IF pc[w] \in {"queued", "waiting", "leading"} THEN "lost" ELSE pc[w]]
      /\ bg_error' = FALSE /\ scheduled' = FALSE
  BY DEF LoseMemory
<1>2. writers' \in Seq(Writes) /\ IsInjective(writers') /\ Range(writers') = {} /\ Len(writers') = 0
  BY <1>1 DEF IsInjective, Range
<1>3. pc' \in [Writes -> {"none", "new", "queued", "waiting", "leading", "ok", "error", "lost"}]
  BY <1>1 DEF QueueInv, TypeOK
<1>4. job'.stage = "none" /\ job'.ws \in Seq(Writes) /\ JobInv'
  BY <1>1 DEF IdleJob, JobInv
<1>5. TypeOK'
  BY <1>1, <1>2, <1>3, <1>4 DEF TypeOK
<1>6. QueueOK'
  BY <1>1, <1>2, <1>4 DEF QueueOK
<1> QED
  BY <1>4, <1>5, <1>6 DEF QueueInv

\* The queue is empty before the store is opened.
LEMMA InitQueue == Init => QueueInv
<1> SUFFICES ASSUME Init PROVE QueueInv
  OBVIOUS
<1>1. /\ phase = "down" /\ writers = <<>> /\ asleep = {} /\ job = IdleJob
      /\ bg_error = FALSE /\ scheduled = FALSE
  BY DEF Init
<1>2. \E S : pc = [w \in Writes |-> IF w \in S THEN "new" ELSE "none"]
  BY DEF Init
<1>3. /\ pc \in [Writes -> {"none", "new", "queued", "waiting", "leading", "ok", "error", "lost"}]
      /\ \A w \in Writes : pc[w] \in {"none", "new"}
  BY <1>2
<1>4. writers \in Seq(Writes) /\ IsInjective(writers) /\ Range(writers) = {} /\ Len(writers) = 0
  BY <1>1 DEF IsInjective, Range
<1>5. job.stage = "none" /\ job.ws \in Seq(Writes) /\ JobInv
  BY <1>1 DEF IdleJob, JobInv
<1>6. TypeOK
  BY <1>1, <1>3, <1>4, <1>5 DEF TypeOK
<1>7. QueueOK
  BY <1>1, <1>3, <1>4, <1>5 DEF QueueOK
<1> QED
  BY <1>5, <1>6, <1>7 DEF QueueInv

\* Every step keeps the queue and the scheduling of the background call in order.
LEMMA NextQueue == QueueInv /\ [Next]_vars => QueueInv'
<1> SUFFICES ASSUME QueueInv, [Next]_vars PROVE QueueInv'
  OBVIOUS
<1>1. ASSUME NEW w \in Writes, Write(w) PROVE QueueInv'
  BY <1>1, WriteQueue
<1>2. ASSUME NEW w \in Writes, LeadWrite(w) PROVE QueueInv'
  BY <1>2, LeadQueue
<1>3. CASE GoOnWriting
  BY <1>3, GoOnQueue
<1>4. CASE Background
  BY <1>4, BackgroundQueue
<1>5. CASE OpenIterator \/ CloseIterator \/ Open
  <2>1. CASE OpenIterator \/ CloseIterator \/ OpenFails \/ OpenRecover \/ OpenInstall
    <3>1. /\ UNCHANGED <<writers, pc, asleep, job, bg_error, scheduled>>
          /\ phase' \in {phase, "failed", "opening", "installed"}
      BY <2>1 DEF OpenIterator, CloseIterator, OpenFails, OpenRecover, OpenInstall, callVars, bgVars
    <3>2. {bg_error, scheduled} \subseteq BOOLEAN /\ phase \in {"down", "opening", "installed", "up", "failed"}
      BY DEF QueueInv, TypeOK
    <3> QED
      BY <3>1, <3>2, QueueStays
  <2>2. CASE OpenEnds
    <3>1. /\ UNCHANGED <<writers, pc, asleep, job, bg_error>>
          /\ phase' = "up" /\ scheduled' \in BOOLEAN
      BY <2>2 DEF OpenEnds, NeedsCompaction, callVars
    <3>2. bg_error \in BOOLEAN
      BY DEF QueueInv, TypeOK
    <3> QED
      BY <3>1, <3>2, QueueStays
  <2> QED
    BY <1>5, <2>1, <2>2 DEF Open
<1>6. CASE ProcessCrash \/ MachineCrash
  <2>1. LoseMemory
    BY <1>6 DEF ProcessCrash, MachineCrash
  <2> QED
    BY <2>1, CrashQueue
<1>7. CASE UNCHANGED vars
  <2>1. UNCHANGED <<phase, writers, pc, asleep, job, bg_error, scheduled>>
    BY <1>7 DEF vars, callVars, bgVars
  <2> QED
    BY <2>1 DEF QueueInv, TypeOK, QueueOK, JobInv
<1> QED
  BY <1>1, <1>2, <1>3, <1>4, <1>5, <1>6, <1>7 DEF Next

-----------------------------------------------------------------------------

\* Whatever fails and whenever the process dies: one writer at a time writes to the
\* log and the memtable, the first of the queue, and all others sleep until it
\* has answered them or made one of them the first.
THEOREM QueueCorrect == Spec => []QueueOK
<1>1. QueueInv => QueueOK
  BY DEF QueueInv
<1> QED
  BY <1>1, InitQueue, NextQueue, PTL DEF Spec

\* The queue of writers and the state of its first are what their names say; no
\* call is in the queue twice.
THEOREM TypeCorrect == Spec => []TypeOK
<1>1. QueueInv => TypeOK
  BY DEF QueueInv
<1> QED
  BY <1>1, InitQueue, NextQueue, PTL DEF Spec

-----------------------------------------------------------------------------
(* Data, versions and records *)

\* The size of the data of writes.
LEMMA DataSizeNat ==
    ASSUME NEW ws \in Seq(Writes)
    PROVE  DataSize(ws) \in Nat
<1> DEFINE n == Len(ws)
           F == [k \in 1 .. n |-> [x \in Nat |-> x + BatchSize[ws[k]]]]
           Body(f, k) == IF k = 0 THEN 0 ELSE f[k - 1] + BatchSize[ws[k]]
<1>1. n \in Nat /\ \A k \in 1 .. n : BatchSize[ws[k]] \in Nat
  BY LevelStoreAssumption
<1>2. LoopOn(Nat, 0, n, F)
  BY <1>1 DEF LoopOn
<1>3. PICK f : Loops(f, Nat, 0, n, F)
  BY <1>2, LoopExists
<1>4. ASSUME NEW k \in 0 .. n
      PROVE  f[k] = Body(f, k)
  <2>1. k # 0 => k \in 1 .. n /\ k - 1 \in 0 .. n
    BY <1>1
  <2> QED
    BY <2>1, <1>3 DEF Loops
<1> DEFINE size == CHOOSE g : g = [k \in 0 .. n |-> Body(g, k)]
<1>5. DataSize(ws) = size[n]
  BY DEF DataSize
<1> HIDE DEF Body
<1>6. f = [k \in 0 .. n |-> Body(f, k)]
  BY <1>3, <1>4 DEF Loops
<1>7. size = [k \in 0 .. n |-> Body(size, k)]
  BY <1>6
<1> HIDE DEF size
<1>8. size[0] \in Nat /\ \A k \in 1 .. n : size[k - 1] \in Nat => size[k] \in Nat
  <2>1. size[0] = Body(size, 0) /\ \A k \in 1 .. n : size[k] = Body(size, k)
    BY <1>1, <1>7
  <2> QED
    BY <2>1, <1>1 DEF Body
<1>9. \A k \in 0 .. n : size[k] \in Nat
  BY <1>1, <1>8, LoopStays
<1> QED
  BY <1>5, <1>9, <1>1

\* What has data among writes are writes.
LEMMA WithDataSeq ==
    ASSUME NEW S, NEW ws \in Seq(S)
    PROVE  WithData(ws) \in Seq(S)
<1> DEFINE n == Len(ws)
           V == Seq(S)
           Body(f, k) == IF k = 0 THEN <<>>
                         ELSE IF BatchSize[ws[k]] > 0 THEN Append(f[k - 1], ws[k]) ELSE f[k - 1]
           F == [k \in 1 .. n |-> [x \in V |-> IF BatchSize[ws[k]] > 0 THEN Append(x, ws[k]) ELSE x]]
<1>1. n \in Nat /\ <<>> \in V /\ \A k \in 1 .. n : ws[k] \in S
  OBVIOUS
<1>2. \A x \in V, w \in S : Append(x, w) \in V
  OBVIOUS
<1> HIDE DEF V
<1>3. LoopOn(V, <<>>, n, F)
  BY <1>1, <1>2 DEF LoopOn
<1>4. PICK f : Loops(f, V, <<>>, n, F)
  BY <1>3, LoopExists
<1>5. ASSUME NEW k \in 0 .. n
      PROVE  f[k] = Body(f, k)
  <2>1. k # 0 => k \in 1 .. n /\ k - 1 \in 0 .. n
    BY <1>1
  <2> QED
    BY <2>1, <1>4 DEF Loops
<1> DEFINE data == CHOOSE g : g = [k \in 0 .. n |-> Body(g, k)]
<1>6. WithData(ws) = data[n]
  BY DEF WithData
<1> HIDE DEF Body
<1>7. f = [k \in 0 .. n |-> Body(f, k)]
  BY <1>4, <1>5 DEF Loops
<1>8. data = [k \in 0 .. n |-> Body(data, k)]
  BY <1>7
<1> HIDE DEF data
<1>9. data[0] \in V /\ \A k \in 1 .. n : data[k - 1] \in V => data[k] \in V
  <2>1. data[0] = Body(data, 0) /\ \A k \in 1 .. n : data[k] = Body(data, k)
    BY <1>1, <1>8
  <2> QED
    BY <2>1, <1>1, <1>2 DEF Body
<1>10. \A k \in 0 .. n : data[k] \in V
  BY <1>1, <1>9, LoopStays
<1> QED
  BY <1>6, <1>10, <1>1 DEF V

\* A version, and the records of the MANIFEST, of which some may be torn.
Versions == [files : SUBSET Files, log : Nat, next : Nat, last : Nat]

EditRecords == Edits \cup {Nothing}

NoVersion == [files |-> {}, log |-> 0, next |-> 0, last |-> 0]

\* Applying an edit to a version gives a version.
LEMMA ApplyEditIs ==
    ASSUME NEW v \in Versions, NEW e \in EditRecords
    PROVE  ApplyEdit(v, e) \in Versions
  BY DEF Versions, EditRecords, Edits, ApplyEdit

\* Replayed goes through the records one by one.
LEMMA ReplayedIs ==
    ASSUME NEW edits \in Seq(EditRecords)
    PROVE  \E v : /\ v \in [0 .. Len(edits) -> Versions] /\ v[0] = NoVersion
                  /\ \A k \in 1 .. Len(edits) : v[k] = ApplyEdit(v[k - 1], edits[k])
                  /\ Replayed(edits) = v[Len(edits)]
<1> DEFINE n == Len(edits)
           Body(f, k) == IF k = 0 THEN NoVersion ELSE ApplyEdit(f[k - 1], edits[k])
           F == [k \in 1 .. n |-> [x \in Versions |-> ApplyEdit(x, edits[k])]]
<1>1. n \in Nat /\ NoVersion \in Versions /\ \A k \in 1 .. n : edits[k] \in EditRecords
  BY DEF NoVersion, Versions
<1>2. \A x \in Versions, k \in 1 .. n : ApplyEdit(x, edits[k]) \in Versions
  BY <1>1, ApplyEditIs
<1>3. LoopOn(Versions, NoVersion, n, F)
  BY <1>1, <1>2 DEF LoopOn
<1>4. PICK f : Loops(f, Versions, NoVersion, n, F)
  BY <1>3, LoopExists
<1>5. ASSUME NEW k \in 0 .. n
      PROVE  f[k] = Body(f, k)
  <2>1. k # 0 => k \in 1 .. n /\ k - 1 \in 0 .. n
    BY <1>1
  <2> QED
    BY <2>1, <1>4 DEF Loops
<1> DEFINE v == CHOOSE g : g = [k \in 0 .. n |-> Body(g, k)]
<1>6. Replayed(edits) = v[n]
  BY DEF Replayed, NoVersion
<1> HIDE DEF Body
<1>7. f = [k \in 0 .. n |-> Body(f, k)]
  BY <1>4, <1>5 DEF Loops
<1>8. v = [k \in 0 .. n |-> Body(v, k)]
  BY <1>7
<1> HIDE DEF v
<1>9. v[0] = Body(v, 0) /\ \A k \in 1 .. n : v[k] = Body(v, k)
  BY <1>1, <1>8
<1>10. v[0] = NoVersion /\ \A k \in 1 .. n : v[k] = ApplyEdit(v[k - 1], edits[k])
  BY <1>9, <1>1 DEF Body
<1>11. \A k \in 1 .. n : v[k - 1] \in Versions => v[k] \in Versions
  BY <1>10, <1>2
<1>12. \A k \in 0 .. n : v[k] \in Versions
  BY <1>1, <1>10, <1>11, LoopStays
<1>13. v \in [0 .. n -> Versions]
  BY <1>8, <1>12
<1> QED
  BY <1>6, <1>10, <1>13

\* One record more.
LEMMA ReplayedAppend ==
    ASSUME NEW edits \in Seq(EditRecords), NEW e \in EditRecords
    PROVE  /\ Replayed(edits) \in Versions
           /\ Replayed(<<>>) = NoVersion
           /\ Replayed(Append(edits, e)) = ApplyEdit(Replayed(edits), e)
<1> DEFINE n == Len(edits)
           more == Append(edits, e)
<1>1. n \in Nat /\ more \in Seq(EditRecords) /\ Len(more) = n + 1 /\ more[n + 1] = e
      /\ \A k \in 1 .. n : more[k] = edits[k]
  OBVIOUS
<1> HIDE DEF more
<1>2. PICK v : /\ v \in [0 .. n -> Versions] /\ v[0] = NoVersion
               /\ \A k \in 1 .. n : v[k] = ApplyEdit(v[k - 1], edits[k])
               /\ Replayed(edits) = v[n]
  BY ReplayedIs
<1>3. PICK u : /\ u \in [0 .. Len(more) -> Versions] /\ u[0] = NoVersion
               /\ \A k \in 1 .. Len(more) : u[k] = ApplyEdit(u[k - 1], more[k])
               /\ Replayed(more) = u[Len(more)]
  BY <1>1, ReplayedIs
<1> DEFINE V == { k \in 0 .. n : u[k] = v[k] }
           g == [k \in 0 .. n |-> k]
<1>4. g[0] \in V
  BY <1>1, <1>2, <1>3
<1>5. ASSUME NEW k \in 1 .. n, g[k - 1] \in V
      PROVE  g[k] \in V
  <2>1. k - 1 \in 0 .. n /\ k \in 0 .. n /\ k \in 1 .. n + 1
    BY <1>1
  <2>2. u[k - 1] = v[k - 1]
    BY <2>1, <1>5
  <2>3. u[k] = ApplyEdit(u[k - 1], edits[k])
    BY <2>1, <1>1, <1>3
  <2>4. u[k] = v[k]
    BY <2>2, <2>3, <1>2
  <2> QED
    BY <2>1, <2>4
<1> HIDE DEF V, g
<1>6. \A k \in 0 .. n : g[k] \in V
  BY <1>1, <1>4, <1>5, LoopStays
<1>7. u[n] = v[n] /\ n \in 0 .. n
  BY <1>1, <1>6 DEF V, g
<1>8. u[n + 1] = ApplyEdit(u[n], e)
  <2>1. n + 1 \in 1 .. n + 1 /\ (n + 1) - 1 = n
    BY <1>1
  <2> QED
    BY <2>1, <1>1, <1>3
<1>9. Replayed(<<>>) = NoVersion
  <2>1. <<>> \in Seq(EditRecords) /\ Len(<<>>) = 0
    OBVIOUS
  <2>2. PICK w : w[0] = NoVersion /\ Replayed(<<>>) = w[Len(<<>>)]
    BY <2>1, ReplayedIs
  <2> QED
    BY <2>1, <2>2
<1>10. v[n] \in Versions
  BY <1>2, <1>7
<1> QED
  BY <1>1, <1>2, <1>3, <1>7, <1>8, <1>9, <1>10 DEF more

Size == [r \in Records |-> DataSize(r.ws)]

LogParts == Parts(Records, Size)

\* A log record has a size.
LEMMA SizeIs == Size \in [Records -> Nat] /\ \A r \in Records : Size[r] = DataSize(r.ws)
  BY DataSizeNat DEF Size, Records

\* The records of a file as the reader returns them: each has parts.
AnyParts == Seq(PhysicalsOf(Records)) \ {<<>>}

\* The recursion of LogRecords.
BatchesOf(f, rs) ==
  IF rs = <<>> THEN <<>>
  ELSE IF Complete(rs[1], DataSize(rs[1][1].of.ws)) THEN <<rs[1][1].of>> \o f[Tail(rs)] ELSE f[Tail(rs)]

\* It has a solution, which gives the records of all logs.
LEMMA BatchesAre ==
  \E f : /\ \A rs \in Seq(AnyParts) : f[rs] = BatchesOf(f, rs)
         /\ \A n : LogRecords(n) = f[ReadRecords(logs[n].bytes)]
<1> DEFINE D == Seq(AnyParts)
           V == Seq(Records)
           Of(rs) == rs[1][1].of
           Good(rs) == Complete(rs[1], DataSize(Of(rs).ws))
           Body(f, rs) == IF rs = <<>> THEN <<>>
                          ELSE IF Good(rs) THEN <<Of(rs)>> \o f[Tail(rs)] ELSE f[Tail(rs)]
           m == [rs \in D |-> Len(rs)]
           next == [rs \in D |-> Tail(rs)]
           stop == {<<>>}
           b == [rs \in D |-> <<>>]
           F == [rs \in D |-> [x \in V |-> IF Good(rs) THEN <<Of(rs)>> \o x ELSE x]]
<1>1. \A t \in AnyParts : t[1].of \in Records
  <2> SUFFICES ASSUME NEW t \in AnyParts PROVE t[1].of \in Records
    OBVIOUS
  <2>1. t \in Seq(PhysicalsOf(Records)) /\ t # <<>>
    BY DEF AnyParts
  <2>2. t[1] \in PhysicalsOf(Records)
    BY <2>1
  <2> QED
    BY <2>2 DEF PhysicalsOf
<1>2. ASSUME NEW rs \in D, rs \notin stop
      PROVE  /\ Tail(rs) \in D /\ Len(Tail(rs)) < Len(rs) /\ Of(rs) \in Records
             /\ \A x \in V : <<Of(rs)>> \o x \in V
  <2>1. rs # <<>> /\ rs[1] \in AnyParts
    BY <1>2
  <2>2. Of(rs) \in Records
    BY <2>1, <1>1
  <2>3. Tail(rs) \in D /\ Len(Tail(rs)) < Len(rs)
    BY <2>1
  <2> HIDE DEF Of
  <2>4. \A x \in V : <<Of(rs)>> \o x \in V
    BY <2>2
  <2> QED
    BY <2>2, <2>3, <2>4
<1>3. \A rs \in D : Len(rs) \in Nat
  OBVIOUS
<1>4. <<>> \in V
  OBVIOUS
<1> HIDE DEF Good, Of, D, V
<1>5. RecursionOn(D, V, m, stop, next, b, F)
  <2>1. m \in [D -> Nat]
    BY <1>3
  <2>2. \A rs \in D : rs \in stop => b[rs] \in V
    BY <1>4
  <2>3. ASSUME NEW rs \in D, rs \notin stop
        PROVE  next[rs] \in D /\ m[next[rs]] < m[rs] /\ F[rs] \in [V -> V]
    BY <1>2, <2>3
  <2> HIDE DEF m, stop, next, b, F
  <2> QED
    BY <2>1, <2>2, <2>3 DEF RecursionOn
<1>6. PICK f : Solves(f, D, V, stop, next, b, F)
  <2> HIDE DEF m, stop, next, b, F
  <2> QED
    BY <1>5, RecursionExists
<1>7. ASSUME NEW rs \in D
      PROVE  f[rs] = Body(f, rs)
  <2>1. f[rs] = IF rs \in stop THEN b[rs] ELSE F[rs][f[next[rs]]]
    BY <1>6 DEF Solves
  <2>2. rs \notin stop => f[Tail(rs)] \in V /\ next[rs] = Tail(rs)
    BY <1>2, <1>6 DEF Solves
  <2> QED
    BY <2>1, <2>2
<1> DEFINE batches == CHOOSE g : g = [rs \in D |-> Body(g, rs)]
<1>8. \A n : LogRecords(n) = batches[ReadRecords(logs[n].bytes)]
  BY DEF LogRecords, D, AnyParts, Good, Of
<1> HIDE DEF Body
<1>9. f = [rs \in D |-> Body(f, rs)]
  BY <1>6, <1>7 DEF Solves
<1>10. batches = [rs \in D |-> Body(batches, rs)]
  BY <1>9
<1> HIDE DEF batches
<1>11. \A rs \in D : batches[rs] = Body(batches, rs)
  BY <1>10
<1>12. \A rs \in D : batches[rs] = BatchesOf(batches, rs)
  BY <1>11 DEF Body, Good, Of, BatchesOf
<1> QED
  BY <1>8, <1>12 DEF D

\* What the reader returns of a log has parts.
LEMMA ReturnedParts ==
    ASSUME NEW O \in SUBSET Records, NEW file, Written(file, Parts(O, Size))
    PROVE  ReadRecords(file) \in Seq(Seq(PhysicalsOf(O)) \ {<<>>})
<1> DEFINE U == Seq(PhysicalsOf(O)) \ {<<>>}
           rr == ReadRecords(file)
<1>1. rr \in Seq(Seq(Parts(O, Size))) /\ \A i \in 1 .. Len(rr) : Len(rr[i]) > 0
  BY ReadRecordsWhole DEF WholeRecord
<1>2. \A s \in Seq(Parts(O, Size)) : s \in Seq(PhysicalsOf(O))
  <2>1. Parts(O, Size) \subseteq PhysicalsOf(O)
    BY DEF Parts
  <2> QED
    BY <2>1
<1> HIDE DEF rr
<1>3. \A i \in 1 .. Len(rr) : rr[i] \in U
  <2> SUFFICES ASSUME NEW i \in 1 .. Len(rr) PROVE rr[i] \in U
    OBVIOUS
  <2>1. rr[i] \in Seq(Parts(O, Size)) /\ Len(rr[i]) > 0
    BY <1>1
  <2>2. rr[i] # <<>>
    BY <2>1
  <2> QED
    BY <2>1, <2>2, <1>2
<1>4. Len(rr) \in Nat /\ rr = [i \in 1 .. Len(rr) |-> rr[i]]
  BY <1>1
<1> HIDE DEF U
<1> QED
  BY <1>3, <1>4 DEF rr, U

\* The records of a log are records of which it has parts.
LEMMA LogRecordsSeq ==
    ASSUME NEW n, NEW O \in SUBSET Records, Written(logs[n].bytes, Parts(O, Size))
    PROVE  LogRecords(n) \in Seq(O)
<1> DEFINE U == Seq(PhysicalsOf(O)) \ {<<>>}
           E == Seq(U)
           W == Seq(O)
           stop == {<<>>}
           m == [rs \in E |-> Len(rs)]
           next == [rs \in E |-> Tail(rs)]
<1>1. ReadRecords(logs[n].bytes) \in E
  BY ReturnedParts
<1>2. PICK f : /\ \A rs \in Seq(AnyParts) : f[rs] = BatchesOf(f, rs)
               /\ \A k : LogRecords(k) = f[ReadRecords(logs[k].bytes)]
  BY BatchesAre
<1>3. E \subseteq Seq(AnyParts)
  <2>1. PhysicalsOf(O) \subseteq PhysicalsOf(Records)
    BY DEF PhysicalsOf
  <2>2. U \subseteq AnyParts
    BY <2>1 DEF AnyParts
  <2> HIDE DEF U
  <2> QED
    BY <2>2
<1>4. \A t \in U : t[1].of \in O
  <2> SUFFICES ASSUME NEW t \in U PROVE t[1].of \in O
    OBVIOUS
  <2>1. t \in Seq(PhysicalsOf(O)) /\ t # <<>>
    OBVIOUS
  <2>2. t[1] \in PhysicalsOf(O)
    BY <2>1
  <2> QED
    BY <2>2 DEF PhysicalsOf
<1> HIDE DEF U
<1>5. ASSUME NEW rs \in E, rs \notin stop
      PROVE  Tail(rs) \in E /\ Len(Tail(rs)) < Len(rs) /\ (f[Tail(rs)] \in W => f[rs] \in W)
  <2>1. rs # <<>> /\ rs[1] \in U /\ Tail(rs) \in E /\ Len(Tail(rs)) < Len(rs)
    BY <1>5
  <2> DEFINE o == rs[1][1].of
  <2>2. o \in O
    BY <2>1, <1>4
  <2>3. f[rs] = <<o>> \o f[Tail(rs)] \/ f[rs] = f[Tail(rs)]
    BY <1>2, <1>3, <2>1 DEF BatchesOf
  <2> HIDE DEF o
  <2>4. \A x \in W : <<o>> \o x \in W
    BY <2>2
  <2> HIDE DEF W, E
  <2> QED
    BY <2>1, <2>3, <2>4
<1>6. \A rs \in E : rs \in stop => f[rs] \in W
  <2>1. <<>> \in W
    OBVIOUS
  <2> HIDE DEF W, E
  <2>2. \A rs \in E : rs = <<>> => f[rs] = <<>>
    BY <1>2, <1>3 DEF BatchesOf
  <2> QED
    BY <2>1, <2>2
<1>7. m \in [E -> Nat]
  OBVIOUS
<1> HIDE DEF E, W
<1>8. \A rs \in E : rs \notin stop => next[rs] \in E /\ m[next[rs]] < m[rs] /\ (f[next[rs]] \in W => f[rs] \in W)
  BY <1>5
<1> HIDE DEF m, next, stop
<1>9. Keeps(E, W, m, stop, next, f)
  BY <1>6, <1>7, <1>8 DEF Keeps
<1>10. \A rs \in E : f[rs] \in W
  BY <1>9, RecursionStays
<1> QED
  BY <1>1, <1>2, <1>10 DEF W

\* The records that the reader returns of a log are all in it.
LEMMA LogRecordsAll ==
    ASSUME NEW n, Written(logs[n].bytes, LogParts), NEW r \in Readable(logs[n].bytes)
    PROVE  \E i \in 1 .. Len(LogRecords(n)) : LogRecords(n)[i] = r
<1> DEFINE U == { t \in AnyParts : Complete(t, DataSize(t[1].of.ws)) }
           E == Seq(U)
           rr == ReadRecords(logs[n].bytes)
           stop == {<<>>}
           m == [rs \in E |-> Len(rs)]
           next == [rs \in E |-> Tail(rs)]
<1>1. rr \in Seq(AnyParts) /\ \A i \in 1 .. Len(rr) : WholeRecord(rr[i], Size)
  BY ReturnedParts, ReadRecordsWhole DEF LogParts, AnyParts
<1> HIDE DEF rr
<1>2. \A t \in AnyParts : t[1].of \in Records
  <2> SUFFICES ASSUME NEW t \in AnyParts PROVE t[1].of \in Records
    OBVIOUS
  <2>1. t \in Seq(PhysicalsOf(Records)) /\ t # <<>>
    BY DEF AnyParts
  <2>2. t[1] \in PhysicalsOf(Records)
    BY <2>1
  <2> QED
    BY <2>2 DEF PhysicalsOf
<1>3. rr \in E
  <2>1. \A i \in 1 .. Len(rr) : rr[i] \in AnyParts
    BY <1>1
  <2>2. \A i \in 1 .. Len(rr) : rr[i] \in U
    BY <2>1, <1>1, <1>2, SizeIs DEF WholeRecord
  <2>3. Len(rr) \in Nat /\ rr = [i \in 1 .. Len(rr) |-> rr[i]]
    BY <1>1
  <2> HIDE DEF U
  <2> QED
    BY <2>2, <2>3
<1>4. PICK f : /\ \A rs \in Seq(AnyParts) : f[rs] = BatchesOf(f, rs)
               /\ \A k : LogRecords(k) = f[ReadRecords(logs[k].bytes)]
  BY BatchesAre
<1>5. E \subseteq Seq(AnyParts)
  <2>1. U \subseteq AnyParts
    OBVIOUS
  <2> HIDE DEF U
  <2> QED
    BY <2>1
<1> DEFINE All(rs) == /\ f[rs] \in Seq(Records) /\ Len(f[rs]) = Len(rs)
                      /\ \A i \in 1 .. Len(rs) : f[rs][i] = rs[i][1].of
           g == [rs \in E |-> All(rs)]
           W == {TRUE}
<1>6. ASSUME NEW rs \in E, rs \in stop
      PROVE  All(rs)
  <2>1. rs = <<>> /\ f[rs] = <<>>
    BY <1>4, <1>5, <1>6 DEF BatchesOf
  <2> HIDE DEF E
  <2> QED
    BY <2>1
<1>7. ASSUME NEW rs \in E, rs \notin stop
      PROVE  Tail(rs) \in E /\ Len(Tail(rs)) < Len(rs) /\ (All(Tail(rs)) => All(rs))
  <2>1. /\ rs # <<>> /\ rs[1] \in U /\ Tail(rs) \in E /\ Len(Tail(rs)) < Len(rs)
        /\ Len(Tail(rs)) = Len(rs) - 1 /\ Len(rs) \in Nat \ {0}
        /\ \A i \in 1 .. Len(rs) - 1 : Tail(rs)[i] = rs[i + 1]
    <3> HIDE DEF U
    <3> QED
      BY <1>7
  <2> DEFINE o == rs[1][1].of
             x == f[Tail(rs)]
  <2>2. o \in Records
    BY <2>1, <1>2
  <2>3. f[rs] = <<o>> \o x
    BY <1>4, <1>5, <2>1 DEF BatchesOf
  <2>4. ASSUME All(Tail(rs))
        PROVE  All(rs)
    <3>1. x \in Seq(Records) /\ Len(x) = Len(rs) - 1 /\ \A i \in 1 .. Len(rs) - 1 : x[i] = rs[i + 1][1].of
      BY <2>1, <2>4
    <3> HIDE DEF x, o, E
    <3>2. /\ <<o>> \o x \in Seq(Records) /\ Len(<<o>> \o x) = Len(rs) /\ (<<o>> \o x)[1] = o
          /\ \A i \in 2 .. Len(rs) : (<<o>> \o x)[i] = x[i - 1]
      <4> DEFINE one == <<o>>
      <4>1. one \in Seq(Records) /\ Len(one) = 1 /\ one[1] = o
        BY <2>2
      <4>2. x \in Seq(Records) /\ Len(x) = Len(rs) - 1 /\ Len(rs) \in Nat \ {0}
        BY <2>1, <3>1
      <4> HIDE DEF one
      <4>3. /\ one \o x \in Seq(Records) /\ Len(one \o x) = Len(one) + Len(x)
            /\ \A i \in 1 .. Len(one) + Len(x) : (one \o x)[i] = IF i <= Len(one) THEN one[i] ELSE x[i - Len(one)]
        BY ONLY <4>1, <4>2, ConcatProperties
      <4> QED
        BY ONLY <4>1, <4>2, <4>3 DEF one
    <3>3. \A i \in 2 .. Len(rs) : (<<o>> \o x)[i] = rs[i][1].of
      <4> SUFFICES ASSUME NEW i \in 2 .. Len(rs) PROVE (<<o>> \o x)[i] = rs[i][1].of
        OBVIOUS
      <4>1. i - 1 \in 1 .. Len(rs) - 1 /\ (i - 1) + 1 = i
        BY <2>1
      <4> QED
        BY <3>1, <3>2, <4>1
    <3>4. \A i \in 1 .. Len(rs) : (<<o>> \o x)[i] = rs[i][1].of
      <4> SUFFICES ASSUME NEW i \in 1 .. Len(rs) PROVE (<<o>> \o x)[i] = rs[i][1].of
        OBVIOUS
      <4>1. i = 1 \/ i \in 2 .. Len(rs)
        BY <2>1
      <4> QED
        BY <3>2, <3>3, <4>1 DEF o
    <3> QED
      BY <2>3, <3>2, <3>4
  <2> QED
    BY <2>1, <2>4
<1>8. m \in [E -> Nat]
  OBVIOUS
<1> HIDE DEF E, All
<1>9. \A rs \in E : rs \in stop => g[rs] \in W
  BY <1>6
<1>10. \A rs \in E : rs \notin stop => next[rs] \in E /\ m[next[rs]] < m[rs] /\ (g[next[rs]] \in W => g[rs] \in W)
  BY <1>7
<1> HIDE DEF m, next, stop
<1>11. Keeps(E, W, m, stop, next, g)
  BY <1>8, <1>9, <1>10 DEF Keeps
<1>12. \A rs \in E : g[rs] \in W
  BY <1>11, RecursionStays
<1>13. All(rr)
  BY <1>3, <1>12
<1>14. PICK i \in 1 .. Len(rr) : rr[i][1].of = r
  BY DEF Readable, rr
<1> QED
  BY <1>4, <1>13, <1>14 DEF All, rr

\* One record more is put into the last memtable, or into a new one.
InsertRecord(ms, r) ==
  IF ms = <<>> \/ Usage(Last(ms)) > WriteBufferSize THEN Append(ms, {r}) ELSE [ms EXCEPT ![Len(ms)] = @ \cup {r}]

\* After it, the memtables hold what they held, and it.
LEMMA InsertRecordIs ==
    ASSUME NEW O, NEW ms \in Seq(SUBSET O), NEW r \in O
    PROVE  LET after == InsertRecord(ms, r)
           IN  /\ after \in Seq(SUBSET O)
               /\ Len(ms) <= Len(after) /\ \A i \in 1 .. Len(ms) : ms[i] \subseteq after[i]
               /\ \E i \in 1 .. Len(after) : r \in after[i]
<1>1. CASE ms = <<>> \/ Usage(Last(ms)) > WriteBufferSize
  <2> DEFINE after == Append(ms, {r})
  <2>1. {r} \in SUBSET O /\ Len(ms) \in Nat
    OBVIOUS
  <2>2. after \in Seq(SUBSET O) /\ Len(after) = Len(ms) + 1 /\ after[Len(ms) + 1] = {r}
        /\ \A i \in 1 .. Len(ms) : after[i] = ms[i]
    BY <2>1
  <2>3. InsertRecord(ms, r) = after
    BY <1>1 DEF InsertRecord
  <2> HIDE DEF after
  <2> QED
    BY <2>1, <2>2, <2>3
<1>2. CASE ~(ms = <<>> \/ Usage(Last(ms)) > WriteBufferSize)
  <2> DEFINE n == Len(ms)
             after == [ms EXCEPT ![n] = @ \cup {r}]
  <2>1. n \in 1 .. n /\ n \in Nat /\ ms \in [1 .. n -> SUBSET O]
    BY <1>2
  <2>2. InsertRecord(ms, r) = after
    BY <1>2 DEF InsertRecord
  <2> HIDE DEF n
  <2>3. after \in [1 .. n -> SUBSET O] /\ after[n] = ms[n] \cup {r}
        /\ \A i \in 1 .. n : i # n => after[i] = ms[i]
    BY <2>1
  <2>4. after \in Seq(SUBSET O) /\ Len(after) = n
    <3> HIDE DEF after
    <3> QED
      BY <2>1, <2>3
  <2> HIDE DEF after
  <2>5. \A i \in 1 .. n : ms[i] \subseteq after[i]
    BY <2>3
  <2>6. r \in after[n]
    BY <2>3
  <2> QED
    BY <2>1, <2>2, <2>4, <2>5, <2>6 DEF n
<1> QED
  BY <1>1, <1>2

\* The memtables a log is replayed into: they hold all records of it.
LEMMA MemTablesSeq ==
    ASSUME NEW O, NEW recs \in Seq(O)
    PROVE  /\ MemTables(recs) \in Seq(SUBSET O)
           /\ \A j \in 1 .. Len(recs) : \E i \in 1 .. Len(MemTables(recs)) : recs[j] \in MemTables(recs)[i]
<1> DEFINE n == Len(recs)
           V == Seq(SUBSET O)
           Body(f, k) == IF k = 0 THEN <<>> ELSE InsertRecord(f[k - 1], recs[k])
           F == [k \in 1 .. n |-> [x \in V |-> InsertRecord(x, recs[k])]]
<1>1. n \in Nat /\ <<>> \in V /\ \A k \in 1 .. n : recs[k] \in O
  OBVIOUS
<1>2. ASSUME NEW ms \in V, NEW r \in O
      PROVE  InsertRecord(ms, r) \in V
  BY InsertRecordIs
<1> HIDE DEF V
<1>3. LoopOn(V, <<>>, n, F)
  BY <1>1, <1>2 DEF LoopOn
<1>4. PICK f : Loops(f, V, <<>>, n, F)
  BY <1>3, LoopExists
<1>5. ASSUME NEW k \in 0 .. n
      PROVE  f[k] = Body(f, k)
  <2>1. k # 0 => k \in 1 .. n /\ k - 1 \in 0 .. n
    BY <1>1
  <2> QED
    BY <2>1, <1>4 DEF Loops
<1> DEFINE made == CHOOSE g : g = [k \in 0 .. n |-> Body(g, k)]
<1>6. MemTables(recs) = made[n]
  BY DEF MemTables, InsertRecord
<1> HIDE DEF Body
<1>7. f = [k \in 0 .. n |-> Body(f, k)]
  BY <1>4, <1>5 DEF Loops
<1>8. made = [k \in 0 .. n |-> Body(made, k)]
  BY <1>7
<1> HIDE DEF made
<1>9. made[0] = <<>> /\ \A k \in 1 .. n : made[k] = InsertRecord(made[k - 1], recs[k])
  <2>1. made[0] = Body(made, 0) /\ \A k \in 1 .. n : made[k] = Body(made, k)
    BY <1>1, <1>8
  <2> QED
    BY <2>1, <1>1 DEF Body
<1> DEFINE Holds(k) == /\ made[k] \in V
                       /\ \A j \in 1 .. n : j <= k => \E i \in 1 .. Len(made[k]) : recs[j] \in made[k][i]
           G == { k \in 0 .. n : Holds(k) }
           id == [k \in 0 .. n |-> k]
<1>10. Holds(0)
  BY <1>1, <1>9
<1>11. ASSUME NEW k \in 1 .. n, Holds(k - 1)
       PROVE  Holds(k)
  <2> DEFINE ms == made[k - 1]
             after == made[k]
  <2>1. ms \in Seq(SUBSET O) /\ recs[k] \in O /\ after = InsertRecord(ms, recs[k]) /\ k \in Nat
    BY <1>1, <1>9, <1>11 DEF V
  <2>2. /\ after \in Seq(SUBSET O)
        /\ Len(ms) <= Len(after) /\ \A i \in 1 .. Len(ms) : ms[i] \subseteq after[i]
        /\ \E i \in 1 .. Len(after) : recs[k] \in after[i]
    <3> HIDE DEF ms, after
    <3> QED
      BY <2>1, InsertRecordIs
  <2>3. \A j \in 1 .. n : j <= k - 1 => \E i \in 1 .. Len(ms) : recs[j] \in ms[i]
    BY <1>11
  <2> HIDE DEF ms, after
  <2>4. ASSUME NEW j \in 1 .. n, j <= k
        PROVE  \E i \in 1 .. Len(after) : recs[j] \in after[i]
    <3>1. CASE j = k
      BY <2>2, <3>1
    <3>2. CASE j # k
      <4>1. j <= k - 1
        BY <2>1, <2>4, <3>2, <1>1
      <4>2. PICK i \in 1 .. Len(ms) : recs[j] \in ms[i]
        BY <2>3, <4>1
      <4>3. i \in 1 .. Len(after)
        BY <2>1, <2>2
      <4> QED
        BY <2>2, <4>2, <4>3
    <3> QED
      BY <3>1, <3>2
  <2> QED
    BY <2>2, <2>4 DEF V, after
<1> HIDE DEF Holds
<1>12. id[0] \in G
  BY <1>1, <1>10
<1>13. ASSUME NEW k \in 1 .. n, id[k - 1] \in G PROVE id[k] \in G
  <2>1. k - 1 \in 0 .. n /\ k \in 0 .. n
    BY <1>1
  <2> QED
    BY <2>1, <1>11, <1>13
<1> HIDE DEF G
<1>14. \A k \in 0 .. n : id[k] \in G
  BY <1>1, <1>12, <1>13, LoopStays
<1>15. Holds(n)
  <2>1. n \in 0 .. n
    BY <1>1
  <2> QED
    BY <2>1, <1>14 DEF G
<1>16. \A j \in 1 .. n : j <= n
  BY <1>1
<1> QED
  BY <1>6, <1>15, <1>16 DEF Holds, V

\* The newest sequence number of the records of a log.
LEMMA MaxSequenceNat ==
    ASSUME NEW recs \in Seq(Records)
    PROVE  /\ MaxSequence(recs) \in Nat
           /\ \A i \in 1 .. Len(recs) : recs[i].seq + Len(recs[i].ws) - 1 <= MaxSequence(recs)
<1> DEFINE n == Len(recs)
           End(r) == r.seq + Len(r.ws) - 1
           E == { End(r) : r \in Range(recs) }
           f == [i \in 1 .. n |-> End(recs[i])]
<1>1. n \in Nat /\ DOMAIN recs = 1 .. n /\ \A i \in 1 .. n : recs[i] \in Records
  OBVIOUS
<1>2. \A r \in Records : End(r) \in Int
  BY DEF Records
<1>3. E = { End(recs[i]) : i \in 1 .. n }
  BY <1>1 DEF Range
<1> HIDE DEF End
<1>4. f \in Surjection(1 .. n, E)
  BY <1>3 DEF Surjection
<1>5. IsFiniteSet(E) /\ E \subseteq Int
  <2>1. IsFiniteSet(1 .. n)
    BY <1>1, FS_Interval
  <2> HIDE DEF f, E
  <2>2. IsFiniteSet(E)
    BY <2>1, <1>4, FS_Surjection
  <2> QED
    BY <2>2, <1>1, <1>2, <1>3
<1> DEFINE S == {0} \cup E
<1>6. IsFiniteSet(S) /\ S \in SUBSET Int /\ S # {}
  <2> HIDE DEF E
  <2>1. IsFiniteSet({0})
    BY FS_Singleton
  <2>2. IsFiniteSet(S)
    BY <2>1, <1>5, FS_Union
  <2> QED
    BY <2>2, <1>5
<1>7. MaxSequence(recs) = Max(S)
  BY DEF MaxSequence, End
<1> HIDE DEF S
<1>8. Max(S) \in S /\ \A y \in S : y <= Max(S)
  BY <1>6, MaxIs
<1>9. Max(S) \in Nat
  <2>1. 0 \in S
    BY DEF S
  <2> DEFINE x == Max(S)
  <2>2. x \in Int /\ 0 <= x
    BY <2>1, <1>6, <1>8
  <2> HIDE DEF x
  <2>3. x \in Nat
    BY <2>2
  <2> QED
    BY <2>3 DEF x
<1>10. \A i \in 1 .. n : End(recs[i]) \in S
  BY <1>3 DEF S
<1> QED
  BY <1>7, <1>8, <1>9, <1>10 DEF End

-----------------------------------------------------------------------------
(* Recovery *)

\* The log files: what Written says of each.
LogFiles == [bytes : Seq(BytesOf(LogParts)), synced : Nat]

LogsInv ==
  /\ DOMAIN logs \in SUBSET Nat /\ 0 \notin DOMAIN logs /\ IsFiniteSet(DOMAIN logs)
  /\ logs \in [DOMAIN logs -> LogFiles]
  /\ \A n \in DOMAIN logs : Written(logs[n].bytes, LogParts) /\ logs[n].synced <= Len(logs[n].bytes)

\* The tables recovery makes, and what its loop has come to.
MadeTables == UNION { [S -> [recs : SUBSET Records, synced : {TRUE}]] : S \in SUBSET Nat }

Recovered(low) ==
  { r \in [next : Nat, made : MadeTables, last : Nat] : low < r.next /\ \A t \in DOMAIN r.made : t < r.next }

\* Tables that recovery makes are synced and hold records.
LEMMA MadeIs ==
    ASSUME NEW f \in MadeTables
    PROVE  DOMAIN f \in SUBSET Nat /\ \A t \in DOMAIN f : f[t] \in [recs : SUBSET Records, synced : {TRUE}]
  BY DEF MadeTables

\* Tables made by one log, over those of the logs before it.
LEMMA OverMade ==
    ASSUME NEW f \in MadeTables, NEW g \in MadeTables
    PROVE  Over(f, g) \in MadeTables
<1> DEFINE X == [recs : SUBSET Records, synced : {TRUE}]
           D == DOMAIN f \cup DOMAIN g
           h == Over(f, g)
<1>1. D \in SUBSET Nat /\ \A n \in D : h[n] \in X
  <2>1. D \in SUBSET Nat
    BY MadeIs
  <2>2. ASSUME NEW n \in D
        PROVE  h[n] \in X
    <3>1. CASE n \in DOMAIN f
      <4>1. h[n] = f[n]
        BY <3>1 DEF Over
      <4>2. f[n] \in X
        BY <3>1, MadeIs
      <4> QED
        BY <4>1, <4>2
    <3>2. CASE n \notin DOMAIN f
      <4>0. n \in DOMAIN g \ DOMAIN f
        BY <3>2
      <4>1. h[n] = g[n]
        BY <4>0 DEF Over
      <4>2. g[n] \in X
        BY <4>0, MadeIs
      <4> QED
        BY <4>1, <4>2
    <3> QED
      BY <3>1, <3>2
  <2> QED
    BY <2>1, <2>2
<1>2. h = [n \in D |-> h[n]]
  BY DEF Over
<1> HIDE DEF h, X, D
<1>3. h \in [D -> X]
  BY <1>1, <1>2
<1> QED
  BY <1>1, <1>3 DEF MadeTables, h, X

\* One log.
LEMMA RecoverLogIs ==
    ASSUME NEW low \in Nat, NEW r \in Recovered(low), NEW n \in Nat, Written(logs[n].bytes, LogParts)
    PROVE  RecoverLog(r, n) \in Recovered(low)
<1> DEFINE recs == LogRecords(n)
           ms == MemTables(recs)
           after == r.next + Len(ms)
           made == [t \in r.next .. after - 1 |-> [recs |-> ms[t - r.next + 1], synced |-> TRUE]]
           next == IF after <= n THEN n + 1 ELSE after
           X == [recs : SUBSET Records, synced : {TRUE}]
<1>1. recs \in Seq(Records)
  BY LogRecordsSeq DEF LogParts
<1> HIDE DEF recs
<1>2. ms \in Seq(SUBSET Records) /\ MaxSequence(recs) \in Nat
  BY <1>1, MemTablesSeq, MaxSequenceNat
<1>3. r.next \in Nat /\ r.made \in MadeTables /\ r.last \in Nat /\ low < r.next /\ \A t \in DOMAIN r.made : t < r.next
  BY DEF Recovered
<1> HIDE DEF ms
<1>4. Len(ms) \in Nat /\ \A k \in 1 .. Len(ms) : ms[k] \in SUBSET Records
  BY <1>2
<1>5. after \in Nat /\ r.next <= after /\ next \in Nat /\ after <= next
  BY <1>3, <1>4
<1>6. made \in MadeTables /\ DOMAIN made = r.next .. after - 1
  <2>1. \A t \in r.next .. after - 1 : t \in Nat /\ t - r.next + 1 \in 1 .. Len(ms)
    BY <1>3, <1>4
  <2>2. \A t \in r.next .. after - 1 : [recs |-> ms[t - r.next + 1], synced |-> TRUE] \in X
    BY <2>1, <1>4
  <2>3. r.next .. after - 1 \in SUBSET Nat
    BY <2>1
  <2> HIDE DEF after, X
  <2>4. made \in [r.next .. after - 1 -> X]
    BY <2>2
  <2> QED
    BY <2>3, <2>4 DEF MadeTables, X
<1> HIDE DEF made, next, after
<1>7. Over(r.made, made) \in MadeTables
  BY <1>3, <1>6, OverMade
<1>8. \A t \in DOMAIN Over(r.made, made) : t < next
  <2> SUFFICES ASSUME NEW t \in DOMAIN Over(r.made, made) PROVE t < next
    OBVIOUS
  <2>1. t \in DOMAIN r.made \/ t \in r.next .. after - 1
    BY <1>6 DEF Over
  <2>2. t \in Nat
    BY <1>7, MadeIs
  <2> QED
    BY <2>1, <2>2, <1>3, <1>5
<1>9. Max({r.last, MaxSequence(recs)}) \in Nat
  BY <1>2, <1>3, MaxOfTwo
<1>10. RecoverLog(r, n) = [next |-> next, made |-> Over(r.made, made), last |-> Max({r.last, MaxSequence(recs)})]
  BY DEF RecoverLog, next, made, after, ms, recs
<1>11. low < next
  BY <1>3, <1>5
<1> QED
  BY <1>5, <1>7, <1>8, <1>9, <1>10, <1>11 DEF Recovered

\* What the loop has come to after each log.
RecoveryOf(v, r, newest) ==
  /\ newest \in Nat /\ \A n \in DOMAIN logs : n <= newest
  /\ r[0] = [next |-> v.next + 1, made |-> [t \in {} |-> Nothing], last |-> v.last]
  /\ \A k \in 0 .. newest : r[k] \in Recovered(v.next)
  /\ \A k \in 1 .. newest :
       r[k] = IF k \in DOMAIN logs /\ k >= v.log THEN RecoverLog(r[k - 1], k) ELSE r[k - 1]
  /\ RecoverLogs(v) = r[newest]

\* RecoverLogs goes through the logs one by one.
LEMMA RecoverLogsLoop ==
    ASSUME LogsInv, NEW v \in Versions
    PROVE  \E r, newest : RecoveryOf(v, r, newest)
<1> DEFINE newest == Max({0} \cup DOMAIN logs)
           r0 == [next |-> v.next + 1, made |-> [t \in {} |-> Nothing], last |-> v.last]
           V == Recovered(v.next)
           Step(x, k) == IF k \in DOMAIN logs /\ k >= v.log THEN RecoverLog(x, k) ELSE x
           Body(f, k) == IF k = 0 THEN r0 ELSE Step(f[k - 1], k)
           F == [k \in 1 .. newest |-> [x \in V |-> Step(x, k)]]
<1>1. newest \in Nat /\ \A n \in DOMAIN logs : n <= newest
  <2> DEFINE S == {0} \cup DOMAIN logs
  <2>1. IsFiniteSet({0}) /\ IsFiniteSet(DOMAIN logs) /\ DOMAIN logs \subseteq Nat
    BY FS_Singleton DEF LogsInv
  <2>2. IsFiniteSet(S)
    BY <2>1, FS_Union
  <2>3. S \subseteq Nat /\ S # {}
    BY <2>1
  <2> HIDE DEF S
  <2>4. Max(S) \in S /\ \A y \in S : y <= Max(S)
    BY <2>2, <2>3, MaxIs
  <2> QED
    BY <2>3, <2>4 DEF S
<1>2. r0 \in V
  <2>1. v.next \in Nat /\ v.last \in Nat
    BY DEF Versions
  <2>2. [t \in {} |-> Nothing] \in MadeTables /\ DOMAIN [t \in {} |-> Nothing] = {}
    <3>1. [t \in {} |-> Nothing] \in [{} -> [recs : SUBSET Records, synced : {TRUE}]] /\ {} \in SUBSET Nat
      OBVIOUS
    <3> QED
      BY <3>1 DEF MadeTables
  <2> HIDE DEF newest
  <2>3. v.next + 1 \in Nat /\ v.next < v.next + 1
    BY <2>1
  <2> QED
    BY <2>1, <2>2, <2>3 DEF Recovered
<1> HIDE DEF newest, r0
<1>3. ASSUME NEW x \in V, NEW k \in 1 .. newest
      PROVE  Step(x, k) \in V
  <2>1. CASE k \in DOMAIN logs /\ k >= v.log
    <3>1. Written(logs[k].bytes, LogParts) /\ k \in Nat /\ v.next \in Nat
      BY <2>1 DEF LogsInv, Versions
    <3> QED
      BY <2>1, <3>1, RecoverLogIs
  <2> QED
    BY <2>1
<1> HIDE DEF V, Step
<1>4. LoopOn(V, r0, newest, F)
  BY <1>1, <1>2, <1>3 DEF LoopOn
<1>5. PICK f : Loops(f, V, r0, newest, F)
  BY <1>4, LoopExists
<1>6. ASSUME NEW k \in 0 .. newest
      PROVE  f[k] = Body(f, k)
  <2>1. k # 0 => k \in 1 .. newest /\ k - 1 \in 0 .. newest
    BY <1>1
  <2> QED
    BY <2>1, <1>5 DEF Loops
<1> DEFINE r == CHOOSE g : g = [k \in 0 .. newest |-> Body(g, k)]
<1>7. RecoverLogs(v) = r[newest]
  BY DEF RecoverLogs, newest, r0, Step
<1> HIDE DEF Body
<1>8. f = [k \in 0 .. newest |-> Body(f, k)]
  BY <1>5, <1>6 DEF Loops
<1>9. r = [k \in 0 .. newest |-> Body(r, k)]
  BY <1>8
<1> HIDE DEF r
<1>10. r[0] = Body(r, 0) /\ \A k \in 1 .. newest : r[k] = Body(r, k)
  BY <1>1, <1>9
<1>11. r[0] = r0 /\ \A k \in 1 .. newest : r[k] = Step(r[k - 1], k)
  BY <1>1, <1>10 DEF Body
<1>12. \A k \in 1 .. newest : r[k - 1] \in V => r[k] \in V
  BY <1>3, <1>11
<1>13. \A k \in 0 .. newest : r[k] \in V
  BY <1>1, <1>2, <1>11, <1>12, LoopStays
<1>14. \A k \in 1 .. newest : r[k] = IF k \in DOMAIN logs /\ k >= v.log THEN RecoverLog(r[k - 1], k) ELSE r[k - 1]
  BY <1>11 DEF Step
<1>15. \A k \in 0 .. newest : r[k] \in Recovered(v.next)
  BY <1>13 DEF V
<1>16. r[0] = [next |-> v.next + 1, made |-> [t \in {} |-> Nothing], last |-> v.last]
  BY <1>11 DEF r0
<1>17. RecoveryOf(v, r, newest)
  BY <1>1, <1>7, <1>14, <1>15, <1>16 DEF RecoveryOf
<1> QED
  BY <1>17

\* All logs.
LEMMA RecoverLogsIs ==
    ASSUME LogsInv, NEW v \in Versions
    PROVE  RecoverLogs(v) \in Recovered(v.next)
<1>1. PICK r, newest : RecoveryOf(v, r, newest)
  BY RecoverLogsLoop
<1> QED
  BY <1>1 DEF RecoveryOf

-----------------------------------------------------------------------------
(* What the variables of the store hold *)

\* What the variables of the store hold.
NumbersInv ==
  /\ last_sequence \in Nat /\ next_file \in Nat \ {0} /\ logfile \in Nat /\ log_number \in Nat
  /\ manifest_file \in Nat /\ block_offset \in 0 .. BlockSize
  /\ version \in SUBSET Files /\ reader \in SUBSET Files

\* The manifests: CURRENT names one that is there.
Manifests == { m \in [edits : Seq(EditRecords), synced : Nat] : m.synced <= Len(m.edits) }

ManifestsInv ==
  /\ manifests \in [DOMAIN manifests -> Manifests]
  /\ current \in DOMAIN manifests
  /\ phase \in {"opening", "installed", "up"} => manifest_file \in DOMAIN manifests
  /\ phase \in {"installed", "up"} => current = manifest_file

RecordInv == job.stage # "none" => job.rec \in Records

BgInv ==
  /\ bg \in [stage : {"idle", "table", "manifest", "sync", "merge"}, kind : {"none", "imm", "move", "merge"},
             table : Nat, edit : EditRecords, in : SUBSET Files, out : Nat]
  /\ bg.stage \in {"manifest", "sync"} => bg.edit \in Edits

StoreInv == NumbersInv /\ LogsInv /\ ManifestsInv /\ RecordInv /\ BgInv

-----------------------------------------------------------------------------
(* Parts that a step leaves alone. *)

\* The parts of StoreInv that a step leaves alone: the numbers and the offset in the log,
LEMMA NumbersStay ==
    ASSUME NumbersInv,
           UNCHANGED <<last_sequence, next_file, logfile, log_number, manifest_file, block_offset, version, reader>>
    PROVE  NumbersInv'
  BY DEF NumbersInv

\* the logs,
LEMMA LogsStay == ASSUME LogsInv, UNCHANGED logs PROVE LogsInv'
  BY DEF LogsInv

\* the manifests,
LEMMA ManifestsStay ==
    ASSUME ManifestsInv, UNCHANGED <<phase, manifests, current, manifest_file>> PROVE ManifestsInv'
  BY DEF ManifestsInv

\* the record that is being written,
LEMMA RecordStays == ASSUME RecordInv, job' = job \/ job'.stage = "none" PROVE RecordInv'
  BY DEF RecordInv

\* and the background call.
LEMMA BgStays == ASSUME BgInv, UNCHANGED bg PROVE BgInv'
  BY DEF BgInv

-----------------------------------------------------------------------------
(* Appends and cuts of a log. *)

\* The data of a physical record of a log has a length.
LEMMA LogPartsLen == \A p \in LogParts : p.len \in Nat
  BY PartsLen DEF LogParts

\* An append to the log, whole or torn.
LEMMA AppendLogs ==
    ASSUME LogsInv, job.rec \in Records, block_offset \in 0 .. BlockSize,
           NEW added,
           added = AddRecord(job.rec, DataSize(job.rec.ws), block_offset)
             \/ added \in FailedAdds(job.rec, DataSize(job.rec.ws), block_offset),
           logs' = [logs EXCEPT ![logfile].bytes = @ \o added.bytes]
    PROVE  LogsInv' /\ added.offset \in 0 .. BlockSize
<1>1. DataSize(job.rec.ws) = Size[job.rec] /\ Size \in [Records -> Nat]
  BY SizeIs
<1>2. Written(<<>>, LogParts)
  BY DEF Written
<1>3. ASSUME NEW file, Written(file, LogParts)
      PROVE  /\ Written(file \o added.bytes, LogParts) /\ added.bytes \in Seq(BytesOf(LogParts))
             /\ added.offset \in 0 .. BlockSize
  BY <1>1, <1>3, AddRecordWritten DEF LogParts
<1>4. added.bytes \in Seq(BytesOf(LogParts)) /\ added.offset \in 0 .. BlockSize
  BY <1>2, <1>3
<1>5. CASE logfile \notin DOMAIN logs
  <2>1. logs' = logs
    BY <1>5 DEF LogsInv
  <2> QED
    BY <2>1, <1>4, LogsStay
<1>6. CASE logfile \in DOMAIN logs
  <2> DEFINE old == logs[logfile]
             new == [old EXCEPT !.bytes = @ \o added.bytes]
             B == Seq(BytesOf(LogParts))
  <2>1. old \in LogFiles /\ Written(old.bytes, LogParts) /\ old.synced <= Len(old.bytes)
    BY <1>6 DEF LogsInv
  <2>2. logs' = [logs EXCEPT ![logfile] = new]
    OBVIOUS
  <2> HIDE DEF old
  <2>3. old.bytes \in B /\ old.synced \in Nat /\ new = [bytes |-> old.bytes \o added.bytes, synced |-> old.synced]
    <3> DEFINE more == old.bytes \o added.bytes
    <3>1. new = [old EXCEPT !.bytes = more]
      OBVIOUS
    <3> HIDE DEF more, new
    <3>2. old = [bytes |-> old.bytes, synced |-> old.synced]
      BY <2>1 DEF LogFiles
    <3>3. new = [bytes |-> more, synced |-> old.synced]
      BY <3>1, <3>2
    <3>4. old.bytes \in B /\ old.synced \in Nat
      BY <2>1 DEF LogFiles
    <3> QED
      BY <3>3, <3>4 DEF more
  <2>4. Written(old.bytes \o added.bytes, LogParts)
    BY <2>1, <1>3
  <2>5. old.bytes \o added.bytes \in B /\ Len(old.bytes \o added.bytes) = Len(old.bytes) + Len(added.bytes)
        /\ Len(old.bytes) \in Nat /\ Len(added.bytes) \in Nat
    BY <2>3, <1>4, ConcatProperties
  <2>6. new \in LogFiles /\ Written(new.bytes, LogParts) /\ new.synced <= Len(new.bytes)
    <3> HIDE DEF B
    <3>1. new.bytes = old.bytes \o added.bytes /\ new.synced = old.synced
      BY <2>3
    <3>2. new.synced <= Len(new.bytes)
      <4> DEFINE a == Len(old.bytes)
                 c == Len(added.bytes)
      <4>1. old.synced <= a /\ old.synced \in Nat /\ a \in Nat /\ c \in Nat
        BY <2>1, <2>3, <2>5
      <4>2. Len(new.bytes) = a + c
        BY <3>1, <2>5
      <4> HIDE DEF a, c, new
      <4> QED
        BY <3>1, <4>1, <4>2
    <3> HIDE DEF new
    <3> QED
      BY <3>1, <3>2, <2>3, <2>4, <2>5 DEF LogFiles, B
  <2> HIDE DEF new
  <2>7. DOMAIN logs' = DOMAIN logs /\ \A n \in DOMAIN logs : logs'[n] = IF n = logfile THEN new ELSE logs[n]
    BY <2>2
  <2>8. \A n \in DOMAIN logs' : /\ logs'[n] \in LogFiles /\ Written(logs'[n].bytes, LogParts)
                                /\ logs'[n].synced <= Len(logs'[n].bytes)
    BY <2>6, <2>7 DEF LogsInv
  <2>9. logs' = [n \in DOMAIN logs' |-> logs'[n]]
    BY <2>2 DEF LogsInv
  <2> QED
    BY <2>7, <2>8, <2>9, <1>4 DEF LogsInv
<1> QED
  BY <1>5, <1>6

\* A file more, with nothing in it.
LEMMA CreateLogs ==
    ASSUME LogsInv, NEW n \in Nat \ {0}, logs' = Created(n, [bytes |-> <<>>, synced |-> 0], logs)
    PROVE  LogsInv'
<1> DEFINE new == [bytes |-> <<>>, synced |-> 0]
           D == {n} \cup DOMAIN logs
<1>1. new \in LogFiles /\ Written(new.bytes, LogParts) /\ new.synced <= Len(new.bytes)
  BY DEF LogFiles, Written
<1>2. DOMAIN logs' = D /\ logs' = [k \in D |-> IF k = n THEN new ELSE logs[k]]
  BY DEF Created, Over
<1>3. D \in SUBSET Nat /\ IsFiniteSet(D)
  BY FS_Singleton, FS_Union DEF LogsInv
<1> HIDE DEF new, D
<1>4. \A k \in D : /\ logs'[k] \in LogFiles /\ Written(logs'[k].bytes, LogParts)
                   /\ logs'[k].synced <= Len(logs'[k].bytes)
  BY <1>1, <1>2 DEF LogsInv, D
<1> QED
  BY <1>2, <1>3, <1>4 DEF LogsInv

\* Files are deleted.
LEMMA RestrictLogs ==
    ASSUME LogsInv, NEW S \in SUBSET DOMAIN logs, logs' = Restrict(logs, S)
    PROVE  LogsInv'
<1>1. DOMAIN logs' = S /\ \A n \in S : logs'[n] = logs[n]
  BY DEF Restrict
<1>2. S \in SUBSET Nat /\ IsFiniteSet(S)
  BY FS_Subset DEF LogsInv
<1>3. logs' \in [S -> LogFiles]
  BY DEF LogsInv, Restrict
<1> QED
  BY <1>1, <1>2, <1>3 DEF LogsInv

\* What is left of the logs when the machine stops.
LEMMA CutLogs ==
    ASSUME LogsInv, NEW cut, \A n \in DOMAIN logs : cut[n] \in logs[n].synced .. Len(logs[n].bytes),
           logs' = [n \in DOMAIN logs |-> [bytes |-> SubSeq(logs[n].bytes, 1, cut[n]), synced |-> cut[n]]]
    PROVE  LogsInv'
<1> DEFINE New(n) == [bytes |-> SubSeq(logs[n].bytes, 1, cut[n]), synced |-> cut[n]]
<1>1. ASSUME NEW n \in DOMAIN logs
      PROVE  New(n) \in LogFiles /\ Written(New(n).bytes, LogParts) /\ New(n).synced <= Len(New(n).bytes)
  <2> DEFINE b == logs[n].bytes
             c == cut[n]
  <2>1. b \in Seq(BytesOf(LogParts)) /\ logs[n].synced \in Nat /\ Written(b, LogParts)
    BY DEF LogsInv, LogFiles
  <2>2. c \in 0 .. Len(b) /\ Len(b) \in Nat
    BY <2>1
  <2> HIDE DEF b, c
  <2>3. Written(SubSeq(b, 1, c), LogParts)
    BY <2>1, <2>2, LogPartsLen, WrittenPrefix
  <2>4. SubSeq(b, 1, c) \in Seq(BytesOf(LogParts)) /\ Len(SubSeq(b, 1, c)) = c /\ c \in Nat
    BY <2>1, <2>2
  <2> QED
    BY <2>3, <2>4 DEF b, c, LogFiles
<1>2. DOMAIN logs' = DOMAIN logs /\ logs' = [n \in DOMAIN logs |-> New(n)]
  OBVIOUS
<1> HIDE DEF New
<1> QED
  BY <1>1, <1>2 DEF LogsInv

\* One record more in the MANIFEST, or the same with all of it synced.
LEMMA ChangedManifest ==
    ASSUME ManifestsInv, NEW n \in DOMAIN manifests, NEW m \in Manifests, NEW ms,
           ms = [manifests EXCEPT ![n] = m]
    PROVE  ms \in [DOMAIN ms -> Manifests] /\ DOMAIN ms = DOMAIN manifests
           /\ ms[n] = m /\ \A k \in DOMAIN manifests : k # n => ms[k] = manifests[k]
<1>1. manifests \in [DOMAIN manifests -> Manifests]
  BY DEF ManifestsInv
<1> QED
  BY <1>1

\* An edit appended to a manifest: LogAndApply.
LEMMA AppendedManifest ==
    ASSUME ManifestsInv, NEW n \in DOMAIN manifests, NEW e \in EditRecords
    PROVE  LET m == [edits |-> Append(manifests[n].edits, e), synced |-> manifests[n].synced]
           IN  /\ m \in Manifests
               /\ [manifests EXCEPT ![n].edits = Append(@, e)] = [manifests EXCEPT ![n] = m]
<1> DEFINE old == manifests[n]
           s == old.edits
           more == Append(s, e)
<1>1. old \in Manifests
  BY DEF ManifestsInv
<1>2. old = [edits |-> s, synced |-> old.synced] /\ s \in Seq(EditRecords) /\ old.synced \in Nat
      /\ old.synced <= Len(s)
  BY <1>1 DEF Manifests
<1>3. [manifests EXCEPT ![n].edits = Append(@, e)] = [manifests EXCEPT ![n] = [old EXCEPT !.edits = more]]
  OBVIOUS
<1> HIDE DEF old
<1> HIDE DEF s
<1>4. more \in Seq(EditRecords) /\ Len(more) = Len(s) + 1 /\ Len(s) \in Nat
  BY <1>2
<1> HIDE DEF more
<1>5. [old EXCEPT !.edits = more] = [edits |-> more, synced |-> old.synced]
  BY <1>2
<1>6. [edits |-> more, synced |-> old.synced] \in Manifests
  BY <1>2, <1>4 DEF Manifests
<1> QED
  BY <1>3, <1>5, <1>6 DEF more, s, old

\* A manifest synced: the edits in it are on the disk.
LEMMA SyncedManifest ==
    ASSUME ManifestsInv, NEW n \in DOMAIN manifests
    PROVE  LET m == [edits |-> manifests[n].edits, synced |-> Len(manifests[n].edits)]
           IN  /\ m \in Manifests
               /\ [manifests EXCEPT ![n].synced = Len(manifests[n].edits)] = [manifests EXCEPT ![n] = m]
<1> DEFINE old == manifests[n]
           s == old.edits
           k == Len(s)
<1>1. old \in Manifests
  BY DEF ManifestsInv
<1>2. old = [edits |-> s, synced |-> old.synced] /\ s \in Seq(EditRecords) /\ k \in Nat /\ k <= Len(s)
  BY <1>1 DEF Manifests
<1>3. [manifests EXCEPT ![n].synced = k] = [manifests EXCEPT ![n] = [old EXCEPT !.synced = k]]
  OBVIOUS
<1>6. [edits |-> s, synced |-> k] \in Manifests
  BY <1>2 DEF Manifests
<1> HIDE DEF old, s, k
<1>5. [old EXCEPT !.synced = k] = [edits |-> s, synced |-> k]
  BY <1>2
<1> QED
  BY <1>3, <1>5, <1>6 DEF s, old, k

\* Files are deleted, but never the MANIFEST in use.
LEMMA DeleteStore ==
    ASSUME LogsInv, manifest_file \in Nat, NEW ms, ms \in [DOMAIN ms -> Manifests], manifest_file \in DOMAIN ms,
           NEW files, NEW held, NEW log, NEW pending, NEW err,
           DeleteObsoleteFiles(ms, files, held, log, pending, err)
    PROVE  /\ LogsInv'
           /\ manifests' \in [DOMAIN manifests' -> Manifests]
           /\ manifest_file \in DOMAIN manifests' /\ manifests'[manifest_file] = ms[manifest_file]
<1>1. CASE err
  BY <1>1, LogsStay DEF DeleteObsoleteFiles
<1>2. CASE ~err
  <2> DEFINE S == { n \in DOMAIN logs : n >= log }
             T == { n \in DOMAIN ms : n >= manifest_file }
  <2>1. logs' = Restrict(logs, S) /\ manifests' = Restrict(ms, T)
    BY <1>2 DEF DeleteObsoleteFiles
  <2>2. S \in SUBSET DOMAIN logs
    OBVIOUS
  <2>3. manifest_file \in T /\ \A n \in T : n \in DOMAIN ms
    OBVIOUS
  <2> HIDE DEF S, T
  <2>4. LogsInv'
    BY <2>1, <2>2, RestrictLogs
  <2>5. DOMAIN manifests' = T /\ manifests' = [n \in T |-> ms[n]]
    BY <2>1 DEF Restrict
  <2> QED
    BY <2>3, <2>4, <2>5
<1> QED
  BY <1>1, <1>2

\* A group that starts makes a record.
LEMMA StartGroupStore ==
    ASSUME QueueInv, StoreInv, NEW w \in Writes, Leads(w), StartGroup(w)
    PROVE  RecordInv'
<1>1. writers \in Seq(Writes) /\ writers # <<>>
  BY DEF QueueInv, TypeOK, Leads
<1>2. PICK n \in 1 .. Len(writers) : BatchGroup = SubSeq(writers, 1, n)
  BY <1>1, GroupIsPrefix DEF QueueInv
<1>3. BatchGroup \in Seq(Writes)
  BY <1>1, <1>2, Prefix
<1>4. WithData(BatchGroup) \in Seq(Writes)
  BY <1>3, WithDataSeq
<1>5. job'.rec = [seq |-> last_sequence + 1, ws |-> WithData(BatchGroup)]
  BY DEF StartGroup
<1>6. last_sequence + 1 \in Nat
  BY DEF StoreInv, NumbersInv
<1> QED
  BY <1>4, <1>5, <1>6 DEF RecordInv, Records

\* A write that ends lets go of its record.
LEMMA FinishStore == ASSUME NEW ws, NEW answer, Finish(ws, answer) PROVE job'.stage = "none"
  BY DEF Finish, IdleJob

\* The calls.
LEMMA CallsStore ==
    ASSUME QueueInv, StoreInv, NEW w \in Writes, Write(w) \/ LeadWrite(w)
    PROVE  StoreInv'
<1> USE DEF StoreInv
<1>1. CASE Write(w) \/ RefuseWrite(w) \/ WaitForRoom(w) \/ NoNewLog(w)
  <2>1. /\ UNCHANGED <<memVars, versionVars, reader, bgVars, diskVars, phase>>
        /\ job' = job \/ job'.stage = "none"
    BY <1>1, FinishStore DEF Write, RefuseWrite, WaitForRoom, NoNewLog
  <2>2. UNCHANGED <<last_sequence, next_file, logfile, log_number, manifest_file, block_offset, version, reader,
                    logs, phase, manifests, current, bg>>
    BY <2>1 DEF memVars, versionVars, bgVars, diskVars
  <2> QED
    BY <2>1, <2>2, NumbersStay, LogsStay, ManifestsStay, RecordStays, BgStays
<1>2. CASE WriteToMem(w)
  <2>1. UNCHANGED <<last_sequence, next_file, logfile, log_number, manifest_file, block_offset, version, reader,
                    logs, phase, manifests, current, bg>>
    BY <1>2 DEF WriteToMem, memVars, versionVars, bgVars, diskVars
  <2>2. RecordInv'
    BY <1>2, StartGroupStore DEF WriteToMem
  <2> QED
    BY <2>1, <2>2, NumbersStay, LogsStay, ManifestsStay, BgStays
<1>3. CASE SwitchMem(w)
  <2>1. /\ logs' = Created(next_file, [bytes |-> <<>>, synced |-> 0], logs)
        /\ logfile' = next_file /\ next_file' = next_file + 1 /\ block_offset' = 0
        /\ UNCHANGED <<phase, version, log_number, manifest_file, last_sequence, reader, bg, manifests, current>>
    BY <1>3 DEF SwitchMem
  <2>2. NumbersInv'
    BY <2>1, LogFormatAssumption DEF NumbersInv
  <2>3. LogsInv'
    BY <2>1, CreateLogs DEF NumbersInv
  <2>4. RecordInv'
    <3>1. CASE Finish(<<w>>, "ok")
      BY <3>1, FinishStore, RecordStays
    <3>2. CASE StartGroup(w)
      BY <1>3, <3>2, StartGroupStore DEF SwitchMem
    <3> QED
      BY <1>3, <3>1, <3>2 DEF SwitchMem
  <2> QED
    BY <2>1, <2>2, <2>3, <2>4, ManifestsStay, BgStays
<1> QED
  BY <1>1, <1>2, <1>3 DEF LeadWrite

\* What the first writer does.
LEMMA JobStore ==
    ASSUME QueueInv, StoreInv, GoOnWriting
    PROVE  StoreInv'
<1> USE DEF StoreInv
<1>1. ASSUME NEW s, job' = [job EXCEPT !.stage = s]
      PROVE  job'.rec = job.rec
  BY <1>1 DEF QueueInv, JobInv
<1>2. CASE AppendRecord \/ AppendFails
  <2>1. /\ UNCHANGED <<last_sequence, next_file, logfile, log_number, manifest_file, version, reader,
                       phase, manifests, current, bg>>
        /\ job.stage = "append" /\ job'.rec = job.rec
    BY <1>1, <1>2 DEF AppendRecord, AppendFails, versionVars, bgVars
  <2>2. job.rec \in Records /\ block_offset \in 0 .. BlockSize
    BY <2>1 DEF RecordInv, NumbersInv
  <2>3. PICK added : /\ added = AddRecord(job.rec, DataSize(job.rec.ws), block_offset)
                          \/ added \in FailedAdds(job.rec, DataSize(job.rec.ws), block_offset)
                     /\ logs' = [logs EXCEPT ![logfile].bytes = @ \o added.bytes]
                     /\ block_offset' = added.offset
    BY <1>2 DEF AppendRecord, AppendFails
  <2>4. LogsInv' /\ block_offset' \in 0 .. BlockSize
    BY <2>2, <2>3, AppendLogs
  <2>5. NumbersInv'
    BY <2>1, <2>4 DEF NumbersInv
  <2>6. RecordInv'
    BY <2>1, <2>2 DEF RecordInv
  <2> QED
    BY <2>1, <2>4, <2>5, <2>6, ManifestsStay, BgStays
<1>3. CASE SyncLog
  <2>1. /\ UNCHANGED <<last_sequence, next_file, logfile, log_number, manifest_file, version, reader, block_offset,
                       phase, manifests, current, bg>>
        /\ job.stage = "sync" /\ job'.rec = job.rec
        /\ logs' = [logs EXCEPT ![logfile].synced = Len(logs[logfile].bytes)]
    BY <1>1, <1>3 DEF SyncLog, memVars, versionVars, bgVars
  <2>2. LogsInv'
    <3> DEFINE New(n) == IF n = logfile
                         THEN [logs[n] EXCEPT !.synced = Len(logs[n].bytes)]
                         ELSE logs[n]
    <3>1. ASSUME NEW n \in DOMAIN logs
          PROVE  New(n) \in LogFiles /\ Written(New(n).bytes, LogParts) /\ New(n).synced <= Len(New(n).bytes)
      <4> DEFINE old == logs[n]
                 k == Len(old.bytes)
                 new == [old EXCEPT !.synced = k]
      <4>1. old \in LogFiles /\ Written(old.bytes, LogParts) /\ old.synced <= k
        BY DEF LogsInv
      <4>2. k \in Nat /\ New(n) = IF n = logfile THEN new ELSE old
        BY <4>1 DEF LogFiles
      <4>3. k <= Len(old.bytes)
        BY <4>2
      <4> HIDE DEF k, old
      <4>4. new = [bytes |-> old.bytes, synced |-> k]
        BY <4>1 DEF LogFiles
      <4>5. new \in LogFiles /\ new.bytes = old.bytes /\ new.synced = k
        BY <4>1, <4>2, <4>4 DEF LogFiles
      <4> HIDE DEF new, New
      <4> QED
        BY <4>1, <4>2, <4>3, <4>5 DEF k
    <3>2. logs' = [n \in DOMAIN logs |-> New(n)]
      BY <2>1 DEF LogsInv
    <3> HIDE DEF New
    <3>3. DOMAIN logs' = DOMAIN logs /\ \A n \in DOMAIN logs : logs'[n] = New(n)
      BY <3>2
    <3> QED
      BY <3>1, <3>2, <3>3 DEF LogsInv
  <2>3. RecordInv'
    BY <2>1 DEF RecordInv
  <2> QED
    BY <2>1, <2>2, <2>3, NumbersStay, ManifestsStay, BgStays
<1>4. CASE SyncFails
  <2>1. /\ UNCHANGED <<last_sequence, next_file, logfile, log_number, manifest_file, version, reader, block_offset,
                       phase, manifests, current, bg, logs>>
        /\ job.stage = "sync" /\ job'.rec = job.rec
    BY <1>1, <1>4 DEF SyncFails, memVars, versionVars, bgVars, diskVars
  <2>2. RecordInv'
    BY <2>1 DEF RecordInv
  <2> QED
    BY <2>1, <2>2, NumbersStay, LogsStay, ManifestsStay, BgStays
<1>5. CASE EndWrite
  <2>1. /\ UNCHANGED <<next_file, logfile, log_number, manifest_file, version, reader, block_offset,
                       phase, manifests, current, bg, logs>>
        /\ job.stage # "none" /\ last_sequence' = last_sequence + Len(job.rec.ws)
    BY <1>5 DEF EndWrite, diskVars
  <2>2. Len(job.rec.ws) \in Nat
    BY <2>1 DEF RecordInv, Records
  <2>3. NumbersInv'
    BY <2>1, <2>2 DEF NumbersInv
  <2>4. job'.stage = "none"
    BY <1>5, FinishStore DEF EndWrite
  <2> QED
    BY <2>1, <2>3, <2>4, LogsStay, ManifestsStay, BgStays, RecordStays
<1> QED
  BY <1>2, <1>3, <1>4, <1>5 DEF GoOnWriting

\* No background call.
LEMMA IdleBgInv == IdleBg \in [stage : {"idle", "table", "manifest", "sync", "merge"},
                               kind : {"none", "imm", "move", "merge"},
                               table : Nat, edit : EditRecords, in : SUBSET Files, out : Nat]
  BY DEF IdleBg, EditRecords

\* The background call ends, or goes on with its compaction.
LEMMA EndBackgroundStore ==
    ASSUME BgInv, NEW files, NEW old, NEW err, EndBackground(files, old, err) \/ EndImm(old, err)
    PROVE  BgInv'
<1>1. CASE EndBackground(files, old, err) \/ bg.out = 0
  <2>1. bg' = IdleBg
    BY <1>1 DEF EndBackground, EndImm
  <2>2. IdleBg.stage = "idle"
    BY DEF IdleBg
  <2> QED
    BY <2>1, <2>2, IdleBgInv DEF BgInv
<1>2. CASE ~EndBackground(files, old, err) /\ bg.out # 0
  <2>1. bg' = [bg EXCEPT !.stage = "merge", !.kind = "merge", !.table = 0, !.edit = Nothing]
    BY <1>2 DEF EndImm
  <2> QED
    BY <2>1 DEF BgInv, EditRecords
<1> QED
  BY <1>1, <1>2

\* The edit of a step of the background, for the files it adds and deletes.
LEMMA EditIs ==
    ASSUME StoreInv, NEW add \in SUBSET Files, NEW del \in SUBSET Files, NEW log \in Nat
    PROVE  EditOf(add, del, log) \in Edits
  BY DEF EditOf, Edits, StoreInv, NumbersInv

\* The steps of the background that write no file of the version.
LEMMA WorkStore ==
    ASSUME QueueInv, StoreInv,
           NothingToDo \/ StartTable \/ FinishTable \/ TableFails \/ StartMove \/ StartMerge \/ FinishMerge \/ MergeFails
    PROVE  StoreInv'
<1> USE DEF StoreInv
<1>1. /\ UNCHANGED <<last_sequence, logfile, log_number, manifest_file, block_offset, version, reader,
                     phase, current, job>>
      /\ next_file' \in {next_file, next_file + 1}
      /\ UNCHANGED <<logs, manifests>>
  <2>1. CASE NothingToDo
    BY <2>1 DEF NothingToDo, memVars, versionVars, diskVars
  <2>2. CASE StartTable
    BY <2>2 DEF StartTable, memVars, callVars
  <2>3. CASE FinishTable
    BY <2>3 DEF FinishTable, memVars, callVars, versionVars
  <2>4. CASE TableFails
    BY <2>4 DEF TableFails, memVars, versionVars
  <2>5. CASE StartMove
    BY <2>5 DEF StartMove, memVars, callVars, versionVars, diskVars
  <2>6. CASE StartMerge
    BY <2>6 DEF StartMerge, memVars, callVars
  <2>7. CASE FinishMerge
    BY <2>7 DEF FinishMerge, memVars, callVars, versionVars
  <2>8. CASE MergeFails
    BY <2>8 DEF MergeFails, memVars, versionVars, DeleteObsoleteFiles
  <2> QED
    BY <2>1, <2>2, <2>3, <2>4, <2>5, <2>6, <2>7, <2>8
<1>2. NumbersInv'
  <2>1. next_file' \in Nat \ {0}
    BY <1>1 DEF NumbersInv
  <2> QED
    BY <1>1, <2>1 DEF NumbersInv
<1>3. /\ version \in SUBSET Files /\ next_file \in Nat /\ logfile \in Nat /\ log_number \in Nat
  BY DEF NumbersInv
<1>4. BgInv'
  <2>1. CASE NothingToDo
    BY <2>1, EndBackgroundStore DEF NothingToDo
  <2>2. CASE StartTable
    <3>1. bg' = [bg EXCEPT !.stage = "table", !.kind = "imm", !.table = next_file]
      BY <2>2 DEF StartTable
    <3> QED
      BY <3>1, <1>3 DEF BgInv
  <2>3. CASE FinishTable
    <3>1. PICK add \in SUBSET Files : bg' = [bg EXCEPT !.stage = "manifest", !.edit = EditOf(add, {}, logfile)]
      <4> DEFINE level == IF version = {} THEN 1 ELSE 0
                 add == IF imm = {} THEN {} ELSE {[level |-> level, number |-> bg.table]}
      <4>1. bg' = [bg EXCEPT !.stage = "manifest", !.edit = EditOf(add, {}, logfile)]
        BY <2>3 DEF FinishTable
      <4>2. add \in SUBSET Files
        BY DEF BgInv, Files
      <4> QED
        BY <4>1, <4>2
    <3>2. EditOf(add, {}, logfile) \in Edits
      BY <1>3, EditIs
    <3> QED
      BY <3>1, <3>2 DEF BgInv, EditRecords
  <2>4. CASE TableFails
    BY <2>4, EndBackgroundStore DEF TableFails
  <2>5. CASE StartMove
    <3> DEFINE add == { [f EXCEPT !.level = 1] : f \in version }
    <3>1. bg' = [bg EXCEPT !.stage = "manifest", !.kind = "move", !.edit = EditOf(add, version, log_number)]
      BY <2>5 DEF StartMove
    <3>2. add \in SUBSET Files
      BY <1>3 DEF Files
    <3> HIDE DEF add
    <3>3. EditOf(add, version, log_number) \in Edits
      BY <1>3, <3>2, EditIs
    <3> QED
      BY <3>1, <3>3 DEF BgInv, EditRecords
  <2>6. CASE StartMerge
    <3>1. bg' = [bg EXCEPT !.stage = "merge", !.kind = "merge", !.in = version, !.out = next_file]
      BY <2>6 DEF StartMerge
    <3> QED
      BY <3>1, <1>3 DEF BgInv
  <2>7. CASE FinishMerge
    <3> DEFINE add == {[level |-> 1, number |-> bg.out]}
    <3>1. bg' = [bg EXCEPT !.stage = "manifest", !.edit = EditOf(add, bg.in, log_number)]
      BY <2>7 DEF FinishMerge
    <3>2. add \in SUBSET Files /\ bg.in \in SUBSET Files
      BY DEF BgInv, Files
    <3> HIDE DEF add
    <3>3. EditOf(add, bg.in, log_number) \in Edits
      BY <1>3, <3>2, EditIs
    <3> QED
      BY <3>1, <3>3 DEF BgInv, EditRecords
  <2>8. CASE MergeFails
    BY <2>8, EndBackgroundStore DEF MergeFails, AbandonMerge
  <2> QED
    BY <2>1, <2>2, <2>3, <2>4, <2>5, <2>6, <2>7, <2>8
<1> QED
  BY <1>1, <1>2, <1>4, LogsStay, ManifestsStay, RecordStays

\* The steps of the background on the MANIFEST.
LEMMA ManifestStore ==
    ASSUME QueueInv, StoreInv, WriteManifest \/ ManifestFails \/ InstallVersion
    PROVE  StoreInv'
<1> USE DEF StoreInv
<1>1. phase = "up" /\ manifest_file \in DOMAIN manifests /\ current = manifest_file /\ manifest_file \in Nat
      /\ manifests \in [DOMAIN manifests -> Manifests]
  BY DEF WriteManifest, ManifestFails, InstallVersion, ManifestsInv, NumbersInv
<1>2. /\ UNCHANGED <<phase, job, current, manifest_file>>
      /\ UNCHANGED <<last_sequence, next_file, logfile, block_offset, reader>>
  <2>1. CASE WriteManifest
    BY <2>1 DEF WriteManifest, memVars, callVars, versionVars
  <2>2. CASE ManifestFails
    BY <2>2 DEF ManifestFails, memVars, versionVars
  <2>3. CASE InstallVersion
    <3> USE <2>3
    <3>1. UNCHANGED <<phase, writers, asleep, job, mem, logfile, block_offset, next_file, manifest_file,
                     last_sequence, reader, bg_error, current, history, errors, crashes>>
      BY DEF InstallVersion
    <3> QED
      BY ONLY <3>1
  <2> QED
    BY <2>1, <2>2, <2>3
<1>3. ASSUME NEW ms, ms \in [DOMAIN ms -> Manifests], manifest_file \in DOMAIN ms, manifests' = ms
      PROVE  ManifestsInv'
  BY <1>1, <1>2, <1>3 DEF ManifestsInv
<1>4. ASSUME NEW e \in EditRecords, NEW ms, ms = [manifests EXCEPT ![manifest_file].edits = Append(@, e)]
      PROVE  ms \in [DOMAIN ms -> Manifests] /\ manifest_file \in DOMAIN ms
  <2> DEFINE m == [edits |-> Append(manifests[manifest_file].edits, e), synced |-> manifests[manifest_file].synced]
  <2>1. m \in Manifests /\ ms = [manifests EXCEPT ![manifest_file] = m]
    BY <1>1, <1>4, AppendedManifest
  <2> HIDE DEF m
  <2> QED
    BY <1>1, <2>1, ChangedManifest
<1>5. CASE WriteManifest
  <2>1. /\ bg.stage = "manifest" /\ bg' = [bg EXCEPT !.stage = "sync"]
        /\ manifests' = [manifests EXCEPT ![manifest_file].edits = Append(@, bg.edit)]
        /\ UNCHANGED <<version, log_number, logs>>
    BY <1>5 DEF WriteManifest, versionVars
  <2>2. bg.edit \in Edits
    BY <2>1 DEF BgInv
  <2>3. BgInv'
    BY <2>1, <2>2 DEF BgInv
  <2>4. ManifestsInv'
    <3>1. bg.edit \in EditRecords
      BY <2>2 DEF EditRecords
    <3>2. manifests' \in [DOMAIN manifests' -> Manifests] /\ manifest_file \in DOMAIN manifests'
      BY <3>1, <2>1, <1>4
    <3> QED
      BY <3>2, <1>3
  <2> QED
    BY <1>2, <2>1, <2>3, <2>4, NumbersStay, LogsStay, RecordStays
<1>6. CASE ManifestFails
  <2>1. bg.edit \in Edits /\ UNCHANGED <<version, log_number>>
    BY <1>6 DEF ManifestFails, BgInv, versionVars
  <2>2. BgInv'
    BY <1>6, EndBackgroundStore DEF ManifestFails, AbandonMerge
  <2>3. logs' = logs
    BY <1>6 DEF ManifestFails, DeleteObsoleteFiles
  <2>4. ManifestsInv'
    <3>1. CASE manifests' = manifests
      BY <3>1, <1>1, <1>3
    <3>2. CASE manifests' # manifests
      <4>1. PICK e \in {Nothing, bg.edit} : manifests' = [manifests EXCEPT ![manifest_file].edits = Append(@, e)]
        BY <1>6, <3>2 DEF ManifestFails
      <4>2. e \in EditRecords
        BY <2>1 DEF EditRecords
      <4>3. manifests' \in [DOMAIN manifests' -> Manifests] /\ manifest_file \in DOMAIN manifests'
        BY <4>1, <4>2, <1>4
      <4> QED
        BY <4>3, <1>3
    <3> QED
      BY <3>1, <3>2
  <2> QED
    BY <1>2, <2>1, <2>2, <2>3, <2>4, NumbersStay, LogsStay, RecordStays
<1>7. CASE InstallVersion
  <2> DEFINE ms == [manifests EXCEPT ![manifest_file].synced = Len(manifests[manifest_file].edits)]
  <2>1. ms \in [DOMAIN ms -> Manifests] /\ manifest_file \in DOMAIN ms
    <3> DEFINE m == [edits |-> manifests[manifest_file].edits, synced |-> Len(manifests[manifest_file].edits)]
    <3>1. m \in Manifests /\ ms = [manifests EXCEPT ![manifest_file] = m]
      BY <1>1, SyncedManifest
    <3> HIDE DEF m, ms
    <3> QED
      BY <1>1, <3>1, ChangedManifest
  <2>2. bg.edit \in Edits
    BY <1>7 DEF InstallVersion, BgInv
  <2>3. /\ version' = (version \ bg.edit.del) \cup bg.edit.add /\ log_number' = bg.edit.log
    BY <1>7 DEF InstallVersion
  <2>4. NumbersInv'
    <3>1. version' \in SUBSET Files /\ log_number' \in Nat
      BY <2>2, <2>3 DEF Edits, NumbersInv
    <3> QED
      BY <3>1, <1>2 DEF NumbersInv
  <2>5. BgInv'
    BY <1>7, EndBackgroundStore DEF InstallVersion
  <2>6. \/ manifests' = ms /\ logs' = logs
        \/ \E files, held, log, pending, err : DeleteObsoleteFiles(ms, files, held, log, pending, err)
    <3> HIDE DEF ms
    <3>1. \/ bg.kind = "imm" /\ DeleteObsoleteFiles(ms, version', reader \cup bg.in, log_number', pending_outputs, bg_error)
          \/ manifests' = ms /\ logs' = logs
          \/ bg.kind = "merge" /\ DeleteObsoleteFiles(ms, version', reader, log_number', pending_outputs', bg_error)
      BY <1>7 DEF InstallVersion, ms
    <3> QED
      BY <3>1
  <2> HIDE DEF ms
  <2>7. LogsInv' /\ manifests' \in [DOMAIN manifests' -> Manifests] /\ manifest_file \in DOMAIN manifests'
    <3>1. CASE manifests' = ms /\ logs' = logs
      BY <3>1, <2>1, LogsStay
    <3>2. ASSUME NEW files, NEW held, NEW log, NEW pending, NEW err,
                 DeleteObsoleteFiles(ms, files, held, log, pending, err)
          PROVE  LogsInv' /\ manifests' \in [DOMAIN manifests' -> Manifests] /\ manifest_file \in DOMAIN manifests'
      BY <3>2, <2>1, <1>1, DeleteStore
    <3> QED
      BY <2>6, <3>1, <3>2
  <2>8. ManifestsInv'
    BY <2>7, <1>3
  <2> QED
    BY <1>2, <2>4, <2>5, <2>7, <2>8, RecordStays
<1> QED
  BY <1>5, <1>6, <1>7

\* The process or the machine dies.
LEMMA CrashStore ==
    ASSUME QueueInv, StoreInv, ProcessCrash \/ MachineCrash
    PROVE  StoreInv'
<1> USE DEF StoreInv
<1>1. /\ phase' = "down" /\ job' = IdleJob /\ bg' = IdleBg /\ current' = current
      /\ logfile' = 0 /\ block_offset' = 0 /\ version' = {} /\ next_file' = 2 /\ log_number' = 0
      /\ manifest_file' = 0 /\ last_sequence' = 0 /\ reader' = {}
  BY DEF ProcessCrash, MachineCrash, LoseMemory
<1>2. NumbersInv'
  BY <1>1, LogFormatAssumption DEF NumbersInv
<1>3. RecordInv' /\ BgInv'
  <2>1. job'.stage = "none" /\ bg'.stage = "idle"
    BY <1>1 DEF IdleJob, IdleBg
  <2>2. BgInv'
    BY <1>1, <2>1, IdleBgInv DEF BgInv
  <2> QED
    BY <2>1, <2>2, RecordStays
<1>4. CASE ProcessCrash
  <2>1. ManifestsInv'
    BY <1>1, <1>4 DEF ProcessCrash, ManifestsInv
  <2>2. LogsInv'
    <3>1. CASE logs' = logs
      BY <3>1, LogsStay
    <3>2. CASE logs' # logs
      <4>1. job.stage = "append"
        BY <1>4, <3>2 DEF ProcessCrash
      <4>2. PICK added \in FailedAdds(job.rec, DataSize(job.rec.ws), block_offset) :
              logs' = [logs EXCEPT ![logfile].bytes = @ \o added.bytes]
        BY <1>4, <3>2 DEF ProcessCrash
      <4>3. job.rec \in Records /\ block_offset \in 0 .. BlockSize
        BY <4>1 DEF RecordInv, NumbersInv
      <4> QED
        BY <4>2, <4>3, AppendLogs
    <3> QED
      BY <3>1, <3>2
  <2> QED
    BY <1>2, <1>3, <2>1, <2>2
<1>5. CASE MachineCrash
  <2>1. LogsInv'
    <3>1. PICK cut : /\ \A n \in DOMAIN logs : cut[n] \in logs[n].synced .. Len(logs[n].bytes)
                     /\ logs' = [n \in DOMAIN logs |-> [bytes |-> SubSeq(logs[n].bytes, 1, cut[n]), synced |-> cut[n]]]
      BY <1>5 DEF MachineCrash
    <3> QED
      BY <3>1, CutLogs
  <2>2. ManifestsInv'
    <3>1. PICK cut : /\ \A n \in DOMAIN manifests : cut[n] \in manifests[n].synced .. Len(manifests[n].edits)
                     /\ manifests' = [n \in DOMAIN manifests |-> [edits |-> SubSeq(manifests[n].edits, 1, cut[n]),
                                                                  synced |-> cut[n]]]
      BY <1>5 DEF MachineCrash
    <3>2. ASSUME NEW n \in DOMAIN manifests
          PROVE  [edits |-> SubSeq(manifests[n].edits, 1, cut[n]), synced |-> cut[n]] \in Manifests
      <4> DEFINE s == manifests[n].edits
                 c == cut[n]
      <4>1. s \in Seq(EditRecords) /\ manifests[n].synced \in Nat
        BY DEF ManifestsInv, Manifests
      <4>2. c \in 0 .. Len(s) /\ Len(s) \in Nat
        BY <3>1, <4>1
      <4> HIDE DEF s, c
      <4>3. SubSeq(s, 1, c) \in Seq(EditRecords) /\ Len(SubSeq(s, 1, c)) = c /\ c \in Nat
        BY <4>1, <4>2
      <4> QED
        BY <4>3 DEF s, c, Manifests
    <3>3. manifests' \in [DOMAIN manifests -> Manifests]
      BY <3>1, <3>2
    <3> QED
      BY <1>1, <3>3 DEF ManifestsInv
  <2> QED
    BY <1>2, <1>3, <2>1, <2>2
<1> QED
  BY <1>4, <1>5

\* A MANIFEST of one record, synced.
LEMMA SingleManifest ==
    ASSUME NEW e \in EditRecords
    PROVE  [edits |-> <<e>>, synced |-> 1] \in Manifests
<1> DEFINE s == <<e>>
<1>1. s \in Seq(EditRecords) /\ Len(s) = 1
  OBVIOUS
<1> HIDE DEF s
<1>2. 1 <= Len(s)
  BY <1>1
<1>3. [edits |-> s, synced |-> 1] \in Manifests
  BY <1>1, <1>2 DEF Manifests
<1> QED
  BY <1>3 DEF s

\* The iterators, and opening the store.
LEMMA OpenStore ==
    ASSUME QueueInv, StoreInv, OpenIterator \/ CloseIterator \/ Open
    PROVE  StoreInv'
<1> USE DEF StoreInv
<1>1. CASE OpenIterator \/ CloseIterator
  <2>1. /\ UNCHANGED <<last_sequence, next_file, logfile, log_number, manifest_file, version, block_offset,
                       phase, manifests, current, bg, logs, job>>
        /\ reader' \in {version, {}}
    BY <1>1 DEF OpenIterator, CloseIterator, callVars, memVars, versionVars, bgVars, diskVars
  <2>2. NumbersInv'
    BY <2>1 DEF NumbersInv
  <2> QED
    BY <2>1, <2>2, LogsStay, ManifestsStay, RecordStays, BgStays
<1>2. CASE OpenFails \/ OpenInstall
  <2>1. /\ UNCHANGED <<last_sequence, next_file, logfile, log_number, manifest_file, version, block_offset, reader,
                       manifests, bg, logs, job>>
        /\ \/ phase' = "failed" /\ current' = current
           \/ phase = "opening" /\ phase' = "installed" /\ current' = manifest_file
    BY <1>2 DEF OpenFails, OpenInstall, callVars, memVars, versionVars, bgVars, diskVars
  <2>2. ManifestsInv'
    BY <2>1 DEF ManifestsInv
  <2> QED
    BY <2>1, <2>2, NumbersStay, LogsStay, RecordStays, BgStays
<1>3. CASE OpenEnds
  <2>1. /\ UNCHANGED <<last_sequence, next_file, logfile, log_number, manifest_file, version, block_offset, reader,
                       current, bg, job>>
        /\ phase = "installed" /\ phase' = "up"
        /\ DeleteObsoleteFiles(manifests, version, {}, log_number, {}, FALSE)
    BY <1>3 DEF OpenEnds, callVars, memVars, versionVars
  <2>2. manifest_file \in DOMAIN manifests /\ manifests \in [DOMAIN manifests -> Manifests] /\ current = manifest_file
        /\ manifest_file \in Nat
    BY <2>1 DEF ManifestsInv, NumbersInv
  <2>3. LogsInv' /\ manifests' \in [DOMAIN manifests' -> Manifests] /\ manifest_file \in DOMAIN manifests'
    BY <2>1, <2>2, DeleteStore
  <2>4. ManifestsInv'
    BY <2>1, <2>2, <2>3 DEF ManifestsInv
  <2> QED
    BY <2>1, <2>3, <2>4, NumbersStay, RecordStays, BgStays
<1>4. CASE OpenRecover
  <2> DEFINE v == Replayed(manifests[current].edits)
             r == RecoverLogs(v)
             files == v.files \cup { [level |-> 0, number |-> t] : t \in DOMAIN r.made }
             e == [add |-> files, del |-> {}, log |-> r.next, next |-> r.next + 1, last |-> r.last]
             m == [edits |-> <<e>>, synced |-> 1]
  <2>1. v \in Versions
    <3>1. manifests[current] \in Manifests
      BY DEF ManifestsInv
    <3>2. manifests[current].edits \in Seq(EditRecords) /\ Nothing \in EditRecords
      BY <3>1 DEF Manifests, EditRecords
    <3> QED
      BY <3>2, ReplayedAppend
  <2>2. r \in Recovered(v.next)
    BY <2>1, RecoverLogsIs
  <2>3. /\ logs' = Created(r.next, [bytes |-> <<>>, synced |-> 0], logs)
        /\ manifests' = Created(v.next, m, manifests)
        /\ version' = files /\ logfile' = r.next /\ next_file' = r.next + 1
        /\ log_number' = r.next /\ manifest_file' = v.next /\ last_sequence' = r.last
        /\ phase' = "opening"
        /\ UNCHANGED <<block_offset, reader, current, bg, job>>
    BY <1>4 DEF OpenRecover, callVars, bgVars
  <2> HIDE DEF v, r
  <2>4. /\ r.next \in Nat \ {0} /\ r.last \in Nat /\ v.next \in Nat /\ v.files \in SUBSET Files
        /\ DOMAIN r.made \in SUBSET Nat
    <3>1. r.made \in MadeTables
      BY <2>2 DEF Recovered
    <3>2. r.next \in Nat /\ v.next \in Nat /\ v.next < r.next
      BY <2>1, <2>2 DEF Recovered, Versions
    <3>3. r.next # 0
      BY <3>2
    <3> QED
      BY <3>1, <3>3, <2>1, <2>2, MadeIs DEF Recovered, Versions
  <2>5. files \in SUBSET Files
    BY <2>4 DEF Files
  <2> HIDE DEF files
  <2>6. NumbersInv'
    BY <2>3, <2>4, <2>5 DEF NumbersInv
  <2>7. LogsInv'
    BY <2>3, <2>4, CreateLogs
  <2>8. m \in Manifests
    <3>1. e \in EditRecords
      BY <2>4, <2>5 DEF Edits, EditRecords
    <3> HIDE DEF e
    <3> QED
      BY <3>1, SingleManifest
  <2> HIDE DEF m
  <2>9. ManifestsInv'
    <3> DEFINE D == {v.next} \cup DOMAIN manifests
    <3>1. manifests' = [k \in D |-> IF k = v.next THEN m ELSE manifests[k]]
      BY <2>3 DEF Created, Over
    <3>2. \A k \in DOMAIN manifests : manifests[k] \in Manifests
      BY DEF ManifestsInv
    <3>3. manifests' \in [D -> Manifests] /\ DOMAIN manifests' = D
      BY <3>1, <3>2, <2>8
    <3>4. current \in DOMAIN manifests
      BY DEF ManifestsInv
    <3> QED
      BY <3>3, <3>4, <2>3 DEF ManifestsInv
  <2> QED
    BY <2>3, <2>6, <2>7, <2>9, RecordStays, BgStays
<1> QED
  BY <1>1, <1>2, <1>3, <1>4 DEF Open

\* The numbers of finitely many files.
LEMMA NumbersFinite ==
    ASSUME NEW files \in SUBSET Files, IsFiniteSet(files)
    PROVE  IsFiniteSet(Numbers(files)) /\ Numbers(files) \in SUBSET Nat
<1> DEFINE f == [x \in files |-> x.number]
           N == Numbers(files)
<1>1. f \in Surjection(files, N)
  BY DEF Surjection, Numbers
<1>2. N \in SUBSET Nat
  BY DEF Numbers, Files
<1> HIDE DEF f, N
<1>3. IsFiniteSet(N)
  BY <1>1, FS_Surjection
<1> QED
  BY <1>2, <1>3 DEF N

\* What a start leaves.
LEMMA StartIs ==
    ASSUME NEW start \in Starts
    PROVE  LET next == Max({1} \cup Numbers(start.files)) + 1
           IN  /\ next \in Nat /\ start.files \in SUBSET Files
               /\ \A n \in Numbers(start.files) : n < next
<1> DEFINE S == {1} \cup Numbers(start.files)
<1>1. start.files \in SUBSET Files /\ IsFiniteSet(start.files)
  BY LevelStoreAssumption
<1>2. IsFiniteSet(Numbers(start.files)) /\ Numbers(start.files) \in SUBSET Nat
  BY <1>1, NumbersFinite
<1>3. IsFiniteSet(S) /\ S \in SUBSET Int /\ S # {} /\ S \subseteq Nat
  <2>1. IsFiniteSet({1})
    BY FS_Singleton
  <2>2. IsFiniteSet(S)
    BY <2>1, <1>2, FS_Union
  <2> QED
    BY <2>2, <1>2
<1>4. \A n \in Numbers(start.files) : n \in S
  OBVIOUS
<1> HIDE DEF S
<1>5. Max(S) \in S /\ \A y \in S : y <= Max(S)
  BY <1>3, MaxIs
<1>6. Max(S) + 1 \in Nat /\ \A y \in S : y < Max(S) + 1
  <2> DEFINE x == Max(S)
  <2>1. x \in Nat /\ \A y \in S : y \in Nat /\ y <= x
    BY <1>3, <1>5
  <2> HIDE DEF x
  <2>2. x + 1 \in Nat /\ \A y \in S : y < x + 1
    BY <2>1
  <2> QED
    BY <2>2 DEF x
<1> QED
  BY <1>1, <1>4, <1>6 DEF S

\* An empty directory is in order.
LEMMA InitStore == Init => StoreInv
<1> SUFFICES ASSUME Init PROVE StoreInv
  OBVIOUS
<1>1. NumbersInv
  BY LogFormatAssumption DEF Init, NumbersInv
<1>2. LogsInv
  <2>1. logs = <<>> /\ DOMAIN logs = {}
    BY DEF Init
  <2>2. logs = [n \in {} |-> logs[n]]
    BY <2>1
  <2> QED
    BY <2>1, <2>2, FS_EmptySet DEF LogsInv
<1>3. ManifestsInv
  <2>1. PICK start \in Starts :
          manifests = [n \in {1} |-> [edits  |-> <<[add |-> start.files, del |-> {}, log |-> 0,
                                                    next |-> Max({1} \cup Numbers(start.files)) + 1, last |-> 0]>>,
                                      synced |-> 1]]
    BY DEF Init
  <2> DEFINE e == [add |-> start.files, del |-> {}, log |-> 0,
                   next |-> Max({1} \cup Numbers(start.files)) + 1, last |-> 0]
  <2>2. e \in EditRecords
    <3> DEFINE next == Max({1} \cup Numbers(start.files)) + 1
    <3>1. next \in Nat /\ start.files \in SUBSET Files
      BY StartIs
    <3> HIDE DEF next
    <3>2. [add |-> start.files, del |-> {}, log |-> 0, next |-> next, last |-> 0] \in Edits
      BY <3>1 DEF Edits
    <3> QED
      BY <3>2 DEF next, EditRecords
  <2>3. manifests = [n \in {1} |-> [edits |-> <<e>>, synced |-> 1]]
    BY <2>1
  <2> HIDE DEF e
  <2>4. [edits |-> <<e>>, synced |-> 1] \in Manifests
    BY <2>2, SingleManifest
  <2>5. phase = "down" /\ current = 1
    BY DEF Init
  <2> QED
    BY <2>3, <2>4, <2>5 DEF ManifestsInv
<1>4. RecordInv
  BY DEF Init, RecordInv, IdleJob
<1>5. BgInv
  <2>1. bg = IdleBg /\ IdleBg.stage = "idle"
    BY DEF Init, IdleBg
  <2> QED
    BY <2>1, IdleBgInv DEF BgInv
<1> QED
  BY <1>1, <1>2, <1>3, <1>4, <1>5 DEF StoreInv

\* Every step keeps the files and the state of the open store in order.
LEMMA NextStore == QueueInv /\ StoreInv /\ [Next]_vars => StoreInv'
<1> SUFFICES ASSUME QueueInv, StoreInv, [Next]_vars PROVE StoreInv'
  OBVIOUS
<1>1. ASSUME NEW w \in Writes, Write(w) \/ LeadWrite(w) PROVE StoreInv'
  BY <1>1, CallsStore
<1>2. CASE GoOnWriting
  BY <1>2, JobStore
<1>3. CASE Background
  BY <1>3, WorkStore, ManifestStore DEF Background
<1>4. CASE OpenIterator \/ CloseIterator \/ Open
  BY <1>4, OpenStore
<1>5. CASE ProcessCrash \/ MachineCrash
  BY <1>5, CrashStore
<1>6. CASE UNCHANGED vars
  <2>1. UNCHANGED <<last_sequence, next_file, logfile, log_number, manifest_file, block_offset, version, reader,
                    logs, phase, manifests, current, job, bg>>
    BY <1>6 DEF vars, callVars, memVars, versionVars, bgVars, diskVars
  <2> QED
    BY <2>1, NumbersStay, LogsStay, ManifestsStay, RecordStays, BgStays DEF StoreInv
<1> QED
  BY <1>1, <1>2, <1>3, <1>4, <1>5, <1>6 DEF Next

\* QueueInv and StoreInv hold of every state the store reaches.
LEMMA StoreAlways == Spec => [](QueueInv /\ StoreInv)
<1>1. Init => QueueInv /\ StoreInv
  BY InitQueue, InitStore
<1>2. (QueueInv /\ StoreInv) /\ [Next]_vars => (QueueInv /\ StoreInv)'
  BY NextQueue, NextStore
<1> QED
  BY <1>1, <1>2, PTL DEF Spec

\* Whatever was torn by errors and crashes, of blocks, headers and batches of any
\* size, no log ever gives back a batch that was not written whole.
THEOREM RecordsCorrect == Spec => []RecordsWhole
<1>1. StoreInv => RecordsWhole
  <2> SUFFICES ASSUME StoreInv, NEW n \in DOMAIN logs, NEW ps \in Range(ReadRecords(logs[n].bytes))
               PROVE  Complete(ps, DataSize(ps[1].of.ws))
    BY DEF RecordsWhole
  <2> DEFINE rr == ReadRecords(logs[n].bytes)
  <2>1. Written(logs[n].bytes, LogParts)
    BY DEF StoreInv, LogsInv
  <2>2. rr \in Seq(Seq(LogParts)) /\ \A i \in 1 .. Len(rr) : WholeRecord(rr[i], Size)
    BY <2>1, ReadRecordsWhole DEF LogParts
  <2> HIDE DEF rr
  <2>3. PICK i \in 1 .. Len(rr) : ps = rr[i]
    BY <2>2 DEF Range, rr
  <2>4. Len(ps) > 0 /\ Complete(ps, Size[ps[1].of]) /\ ps \in Seq(LogParts)
    BY <2>2, <2>3 DEF WholeRecord
  <2>5. ps[1] \in LogParts
    BY <2>4
  <2>6. ps[1].of \in Records
    BY <2>5 DEF LogParts, Parts, PhysicalsOf
  <2> QED
    BY <2>4, <2>6, SizeIs
<1> QED
  BY <1>1, StoreAlways, PTL

-----------------------------------------------------------------------------
(* The tables that a version needs. *)

\* Whether all tables of a version are there and synced.
Held(ts, files) == \A n \in Numbers(files) : n \in DOMAIN ts /\ ts[n].synced

\* Whether recovery finds the tables wherever a MANIFEST is cut, and numbers of
\* files that are not in use.
Recoverable(ts, m) ==
  \A k \in m.synced .. Len(m.edits) :
    LET v == Replayed(SubSeq(m.edits, 1, k))
    IN  Held(ts, v.files) /\ \A n \in Numbers(v.files) : n < v.next

DiskInv ==
  /\ Recoverable(tables, manifests[current])
  /\ phase \in {"opening", "installed", "up"} => Recoverable(tables, manifests[manifest_file])

\* While the store is opened, its MANIFEST holds the version and nothing else.
OpeningInv ==
  phase \in {"opening", "installed"} =>
    /\ Held(tables, version) /\ \A n \in Numbers(version) : n < next_file
    /\ LET m == manifests[manifest_file]
       IN  Len(m.edits) = 1 /\ m.synced = 1 /\ Replayed(m.edits).files = version

QuietInv == phase # "up" => bg = IdleBg /\ reader = {} /\ pending_outputs = {} /\ bg_error = FALSE

\* The tables of an open store have their numbers from it.
TablesInv ==
  phase = "up" => /\ Held(tables, version) /\ Held(tables, reader)
                  /\ \A n \in DOMAIN tables : n \in Nat /\ n < next_file

\* The edit that is to be written, or was but not synced yet.
EditInv ==
  bg.stage \in {"manifest", "sync"} =>
    /\ Held(tables, bg.edit.add)
    /\ \A n \in DOMAIN tables : n < bg.edit.next

\* While nothing has failed, the MANIFEST holds the version, and then, before it
\* is synced, the edit.
InStepInv ==
  phase = "up" /\ ~bg_error =>
    LET m == manifests[manifest_file]
    IN  /\ bg.stage # "sync" => Len(m.edits) = m.synced /\ Replayed(m.edits).files = version
        /\ bg.stage = "sync" => /\ Len(m.edits) = m.synced + 1 /\ m.edits[Len(m.edits)] = bg.edit
                                /\ Replayed(SubSeq(m.edits, 1, m.synced)).files = version

\* The table of a memtable that is being written, and that of a compaction.
TableInv ==
  bg.stage = "table" =>
    /\ imm # Nothing
    /\ imm # {} => bg.table \in DOMAIN tables
    /\ bg.table \in DOMAIN tables => ~tables[bg.table].synced
    /\ bg.table # bg.out

OutInv ==
  /\ bg.out # 0 => bg.out \in DOMAIN tables /\ bg.out \in pending_outputs
  /\ bg.stage = "merge" => bg.out # 0

FilesInv ==
  DiskInv /\ OpeningInv /\ QuietInv /\ TablesInv /\ EditInv /\ InStepInv /\ TableInv /\ OutInv

-----------------------------------------------------------------------------
(* Tables that come and go. *)

\* us has all tables that ts has synced.
SyncedKept(ts, us) == \A n \in DOMAIN ts : ts[n].synced => n \in DOMAIN us /\ us[n].synced

\* A version whose tables are on the disk keeps them, when no synced table goes away,
LEMMA HeldKept ==
    ASSUME NEW ts, NEW us, SyncedKept(ts, us), NEW files, Held(ts, files)
    PROVE  Held(us, files)
  BY DEF SyncedKept, Held

\* and so does a manifest from which the store can be opened.
LEMMA RecoverableKept ==
    ASSUME NEW ts, NEW us, SyncedKept(ts, us), NEW m, Recoverable(ts, m)
    PROVE  Recoverable(us, m)
  BY HeldKept DEF Recoverable

\* A new table, with a number of its own.
LEMMA NewTableIs ==
    ASSUME NEW n, n \notin DOMAIN tables, NEW us, us = NewTable(n)
    PROVE  /\ DOMAIN us = {n} \cup DOMAIN tables /\ ~us[n].synced
           /\ SyncedKept(tables, us)
<1>1. us = [k \in {n} \cup DOMAIN tables |-> IF k = n THEN [recs |-> {}, synced |-> FALSE] ELSE tables[k]]
  BY DEF NewTable, Created, Over
<1> QED
  BY <1>1 DEF SyncedKept

\* A table is written.
LEMMA WrittenTable ==
    ASSUME NEW n \in DOMAIN tables, NEW recs, NEW us, us = [tables EXCEPT ![n] = [recs |-> recs, synced |-> TRUE]]
    PROVE  /\ DOMAIN us = DOMAIN tables /\ us[n].synced
           /\ SyncedKept(tables, us)
<1> DEFINE t == [recs |-> recs, synced |-> TRUE]
<1>1. t.synced /\ us = [tables EXCEPT ![n] = t]
  OBVIOUS
<1> HIDE DEF t
<1>2. DOMAIN us = DOMAIN tables /\ us[n] = t /\ \A k \in DOMAIN tables : k # n => us[k] = tables[k]
  BY <1>1
<1> QED
  BY <1>1, <1>2 DEF SyncedKept

\* Some are deleted.
LEMMA RestrictTables ==
    ASSUME NEW S, S \subseteq DOMAIN tables, NEW us, us = Restrict(tables, S)
    PROVE  DOMAIN us = S /\ \A n \in S : us[n] = tables[n]
  BY DEF Restrict

\* Deleting the files a version does not name leaves it its tables.
LEMMA RestrictHeld ==
    ASSUME NEW S, S \subseteq DOMAIN tables, NEW us, us = Restrict(tables, S),
           NEW files, Held(tables, files), Numbers(files) \subseteq S
    PROVE  Held(us, files)
  BY RestrictTables DEF Held

\* Tables that recovery makes.
LEMMA OverTables ==
    ASSUME NEW made \in MadeTables, NEW us, us = Over(made, tables)
    PROVE  SyncedKept(tables, us) /\ \A n \in DOMAIN made : n \in DOMAIN us /\ us[n].synced
<1>1. \A n \in DOMAIN made : made[n].synced
  <2> SUFFICES ASSUME NEW n \in DOMAIN made PROVE made[n].synced
    OBVIOUS
  <2>1. made[n] \in [recs : SUBSET Records, synced : {TRUE}]
    BY MadeIs
  <2> QED
    BY <2>1
<1>2. DOMAIN us = DOMAIN made \cup DOMAIN tables
      /\ \A n \in DOMAIN us : us[n] = IF n \in DOMAIN made THEN made[n] ELSE tables[n]
  BY DEF Over
<1> QED
  BY <1>1, <1>2 DEF SyncedKept

-----------------------------------------------------------------------------
(* Manifests. *)

\* A MANIFEST of one record that adds files.
LEMMA SingleIs ==
    ASSUME NEW e \in Edits
    PROVE  /\ Replayed(<<e>>).files = e.add /\ Replayed(<<e>>).log = e.log
           /\ Replayed(<<e>>).next = e.next /\ Replayed(<<e>>).last = e.last
           /\ SubSeq(<<e>>, 1, 1) = <<e>>
<1>1. e \in EditRecords /\ e # Nothing /\ <<>> \in Seq(EditRecords) /\ <<e>> = Append(<<>>, e)
  BY LevelStoreAssumption DEF EditRecords
<1>2. Replayed(<<>>) = NoVersion /\ Replayed(Append(<<>>, e)) = ApplyEdit(Replayed(<<>>), e)
  BY <1>1, ReplayedAppend
<1>3. Replayed(<<e>>) = ApplyEdit(NoVersion, e)
  BY <1>1, <1>2
<1>4. SubSeq(<<e>>, 1, 1) = <<e>>
  <2> DEFINE s == <<e>>
  <2>1. s \in Seq(EditRecords) /\ Len(s) = 1
    BY <1>1
  <2> HIDE DEF s
  <2>2. SubSeq(s, 1, Len(s)) = s
    BY <2>1, WholeSeq
  <2> QED
    BY <2>1, <2>2 DEF s
<1> QED
  BY <1>1, <1>3, <1>4 DEF ApplyEdit, NoVersion

\* A manifest of one synced edit, the snapshot that Open writes, is one the store can be opened from.
LEMMA SingleRecoverable ==
    ASSUME NEW e \in Edits, NEW ts, Held(ts, e.add), \A n \in Numbers(e.add) : n < e.next
    PROVE  Recoverable(ts, [edits |-> <<e>>, synced |-> 1])
<1>1. Len(<<e>>) = 1
  OBVIOUS
<1> DEFINE s == <<e>>
<1>2. Len(s) = 1 /\ Replayed(SubSeq(s, 1, 1)).files = e.add /\ Replayed(SubSeq(s, 1, 1)).next = e.next
  BY SingleIs
<1> HIDE DEF s
<1>3. \A k \in 1 .. Len(s) : k = 1
  BY <1>2
<1>4. Recoverable(ts, [edits |-> s, synced |-> 1])
  BY <1>2, <1>3 DEF Recoverable
<1> QED
  BY <1>4 DEF s

\* A record more: of an edit whose tables are there, or torn.
LEMMA AppendRecoverable ==
    ASSUME NEW m \in Manifests, NEW ts, Recoverable(ts, m), NEW e \in EditRecords,
           e # Nothing => Held(ts, e.add) /\ \A n \in DOMAIN ts : n < e.next
    PROVE  Recoverable(ts, [edits |-> Append(m.edits, e), synced |-> m.synced])
<1> DEFINE s == m.edits
           more == Append(s, e)
<1>1. s \in Seq(EditRecords) /\ Len(s) \in Nat /\ m.synced \in Nat /\ m.synced <= Len(s)
  BY DEF Manifests
<1>2. more \in Seq(EditRecords) /\ Len(more) = Len(s) + 1
  BY <1>1
<1> DEFINE v == Replayed(s)
<1>3. Replayed(more) = ApplyEdit(v, e)
  BY <1>1, ReplayedAppend
<1>4. Held(ts, v.files) /\ \A n \in Numbers(v.files) : n < v.next
  <2>1. Len(s) \in m.synced .. Len(s) /\ SubSeq(s, 1, Len(s)) = s
    BY <1>1, WholeSeq
  <2> QED
    BY <2>1 DEF Recoverable
<1>5. Held(ts, Replayed(more).files) /\ \A n \in Numbers(Replayed(more).files) : n < Replayed(more).next
  <2>1. CASE e = Nothing
    BY <2>1, <1>3, <1>4 DEF ApplyEdit
  <2>2. CASE e # Nothing
    <3> DEFINE files == (v.files \ e.del) \cup e.add
    <3>1. Replayed(more).files = files /\ Replayed(more).next = e.next
      BY <2>2, <1>3 DEF ApplyEdit
    <3>2. Numbers(files) \subseteq Numbers(v.files) \cup Numbers(e.add)
      BY DEF Numbers
    <3>3. Held(ts, files)
      BY <2>2, <3>2, <1>4 DEF Held
    <3>4. \A n \in Numbers(files) : n \in DOMAIN ts
      BY <3>3 DEF Held
    <3> HIDE DEF files
    <3> QED
      BY <2>2, <3>1, <3>3, <3>4
  <2> QED
    BY <2>1, <2>2
<1> HIDE DEF more, v, s
<1>6. ASSUME NEW k \in m.synced .. Len(more)
      PROVE  LET w == Replayed(SubSeq(more, 1, k))
             IN  Held(ts, w.files) /\ \A n \in Numbers(w.files) : n < w.next
  <2>1. CASE k = Len(more)
    <3>1. SubSeq(more, 1, Len(more)) = more
      BY <1>2, WholeSeq
    <3> QED
      BY <2>1, <3>1, <1>5
  <2>2. CASE k # Len(more)
    <3>1. k \in m.synced .. Len(s) /\ k \in 0 .. Len(s)
      BY <2>2, <1>1, <1>2
    <3>2. SubSeq(more, 1, k) = SubSeq(s, 1, k)
      BY <3>1, <1>1, PrefixOfAppend DEF more
    <3>3. LET w == Replayed(SubSeq(s, 1, k))
          IN  Held(ts, w.files) /\ \A n \in Numbers(w.files) : n < w.next
      BY <3>1 DEF Recoverable, s
    <3> QED
      BY <3>2, <3>3
  <2> QED
    BY <2>1, <2>2
<1>7. Recoverable(ts, [edits |-> more, synced |-> m.synced])
  BY <1>6 DEF Recoverable
<1> QED
  BY <1>7 DEF more, s

\* Synced, or cut: one version is left.
LEMMA CutRecoverable ==
    ASSUME NEW m \in Manifests, NEW ts, Recoverable(ts, m), NEW c \in m.synced .. Len(m.edits)
    PROVE  Recoverable(ts, [edits |-> SubSeq(m.edits, 1, c), synced |-> c])
<1> DEFINE s == m.edits
           t == SubSeq(s, 1, c)
<1>1. s \in Seq(EditRecords) /\ c \in 0 .. Len(s)
  BY DEF Manifests
<1>2. Len(t) = c /\ SubSeq(t, 1, c) = SubSeq(s, 1, c)
  <2>1. c \in 0 .. c /\ Len(t) = c
    BY <1>1
  <2> HIDE DEF s
  <2> QED
    BY <1>1, <2>1, PrefixTwice
<1>3. LET w == Replayed(SubSeq(s, 1, c))
      IN  Held(ts, w.files) /\ \A n \in Numbers(w.files) : n < w.next
  BY DEF Recoverable
<1> HIDE DEF s, t
<1>4. \A k \in c .. Len(t) : k = c
  BY <1>1, <1>2
<1>5. Recoverable(ts, [edits |-> t, synced |-> c])
  BY <1>2, <1>3, <1>4 DEF Recoverable
<1> QED
  BY <1>5 DEF t, s

\* A MANIFEST that is all synced, and the tables of its version.
LEMMA LastRecoverable ==
    ASSUME NEW m \in Manifests, NEW ts, NEW us, Recoverable(ts, m), Len(m.edits) = m.synced,
           Held(us, Replayed(m.edits).files)
    PROVE  Recoverable(us, m)
<1> DEFINE s == m.edits
<1>1. s \in Seq(EditRecords) /\ Len(s) \in Nat
  BY DEF Manifests
<1>2. SubSeq(s, 1, Len(s)) = s
  BY <1>1, WholeSeq
<1>3. \A k \in m.synced .. Len(s) : k = Len(s)
  BY <1>1
<1>4. \A n \in Numbers(Replayed(s).files) : n < Replayed(s).next
  <2>1. Len(s) \in m.synced .. Len(s)
    BY <1>1
  <2> HIDE DEF s
  <2> QED
    BY <2>1, <1>2 DEF Recoverable, s
<1> QED
  BY <1>2, <1>3, <1>4 DEF Recoverable

\* The version that a MANIFEST ends with.
LEMMA RecoverableLast ==
    ASSUME NEW m \in Manifests, NEW ts, Recoverable(ts, m)
    PROVE  LET v == Replayed(m.edits)
           IN  Held(ts, v.files) /\ \A n \in Numbers(v.files) : n < v.next
<1> DEFINE s == m.edits
<1>1. s \in Seq(EditRecords) /\ Len(s) \in Nat /\ m.synced \in Nat /\ m.synced <= Len(s)
  BY DEF Manifests
<1>2. SubSeq(s, 1, Len(s)) = s
  BY <1>1, WholeSeq
<1>3. Len(s) \in m.synced .. Len(s)
  BY <1>1
<1> QED
  BY <1>2, <1>3 DEF Recoverable

-----------------------------------------------------------------------------
(* The steps of a store that is open. *)

\* What a step of an open store has to keep.
LEMMA UpStep ==
    ASSUME phase = "up", UNCHANGED <<phase, current, manifest_file>>, current = manifest_file,
           Recoverable(tables', manifests'[manifest_file]),
           Held(tables', version'), Held(tables', reader'),
           \A n \in DOMAIN tables' : n \in Nat /\ n < next_file',
           EditInv', InStepInv', TableInv', OutInv'
    PROVE  FilesInv'
<1>1. DiskInv'
  BY DEF DiskInv
<1>2. OpeningInv' /\ QuietInv'
  BY DEF OpeningInv, QuietInv
<1>3. TablesInv'
  BY DEF TablesInv
<1> QED
  BY <1>1, <1>2, <1>3 DEF FilesInv

\* What FilesInv says of an open store.
LEMMA UpIs ==
    ASSUME StoreInv, FilesInv, phase = "up"
    PROVE  /\ current = manifest_file /\ manifest_file \in DOMAIN manifests
           /\ manifests[manifest_file] \in Manifests
           /\ Recoverable(tables, manifests[manifest_file])
           /\ Held(tables, version) /\ Held(tables, reader)
           /\ \A n \in DOMAIN tables : n \in Nat /\ n < next_file
           /\ next_file \in Nat /\ next_file # 0 /\ next_file \notin DOMAIN tables
<1>1. \A n \in DOMAIN tables : n \in Nat /\ n < next_file
  BY DEF FilesInv, TablesInv
<1>2. next_file \in Nat /\ next_file # 0
  BY DEF StoreInv, NumbersInv
<1>3. next_file \notin DOMAIN tables
  BY <1>1, <1>2
<1> QED
  BY <1>1, <1>2, <1>3 DEF StoreInv, ManifestsInv, FilesInv, DiskInv, TablesInv

\* A step that changes no file, and at most finds an error.
LEMMA FilesStay ==
    ASSUME FilesInv,
           UNCHANGED <<phase, tables, manifests, current, manifest_file, version, next_file, reader, bg,
                       pending_outputs, imm>>,
           bg_error' = bg_error \/ (phase = "up" /\ bg_error' = TRUE)
    PROVE  FilesInv'
<1>1. DiskInv' /\ OpeningInv' /\ TablesInv'
  BY DEF FilesInv, DiskInv, OpeningInv, TablesInv
<1>2. QuietInv'
  BY DEF FilesInv, QuietInv
<1>3. EditInv' /\ TableInv' /\ OutInv'
  BY DEF FilesInv, EditInv, TableInv, OutInv
<1>4. InStepInv'
  BY DEF FilesInv, InStepInv
<1> QED
  BY <1>1, <1>2, <1>3, <1>4 DEF FilesInv

\* The calls.
LEMMA CallsFiles ==
    ASSUME QueueInv, StoreInv, FilesInv, NEW w \in Writes, Write(w) \/ LeadWrite(w)
    PROVE  FilesInv'
<1>1. CASE SwitchMem(w)
  <2>1. /\ phase = "up" /\ imm = Nothing
        /\ next_file' = next_file + 1
        /\ UNCHANGED <<phase, tables, manifests, current, manifest_file, version, reader, bg, bg_error,
                       pending_outputs>>
    BY <1>1 DEF SwitchMem, Leads, CanSwitch
  <2>2. bg.stage # "table"
    BY <2>1 DEF FilesInv, TableInv
  <2>3. EditInv' /\ TableInv' /\ OutInv'
    BY <2>1, <2>2 DEF FilesInv, EditInv, TableInv, OutInv
  <2>4. InStepInv'
    BY <2>1 DEF FilesInv, InStepInv
  <2>5. \A n \in DOMAIN tables' : n \in Nat /\ n < next_file'
    BY <2>1, UpIs
  <2> QED
    BY <2>1, <2>3, <2>4, <2>5, UpIs, UpStep
<1>2. CASE Write(w) \/ RefuseWrite(w) \/ WaitForRoom(w) \/ WriteToMem(w) \/ NoNewLog(w)
  <2> DEFINE Stay == UNCHANGED <<phase, tables, manifests, current, manifest_file, version, next_file, reader, bg,
                                 pending_outputs, imm, bg_error>>
  <2> SUFFICES Stay
    BY FilesStay
  <2>1. CASE Write(w)
    BY <2>1 DEF Write, memVars, versionVars, bgVars, diskVars
  <2>2. CASE RefuseWrite(w)
    BY <2>2 DEF RefuseWrite, memVars, versionVars, bgVars, diskVars
  <2>3. CASE WaitForRoom(w)
    BY <2>3 DEF WaitForRoom, memVars, versionVars, bgVars, diskVars
  <2>4. CASE WriteToMem(w)
    BY <2>4 DEF WriteToMem, memVars, versionVars, bgVars, diskVars
  <2>5. CASE NoNewLog(w)
    BY <2>5 DEF NoNewLog, memVars, versionVars, bgVars, diskVars
  <2> QED
    BY <1>2, <2>1, <2>2, <2>3, <2>4, <2>5
<1> QED
  BY <1>1, <1>2 DEF LeadWrite

\* What the first writer does.
LEMMA JobFiles ==
    ASSUME QueueInv, StoreInv, FilesInv, GoOnWriting
    PROVE  FilesInv'
<1>1. CASE AppendRecord \/ AppendFails \/ SyncLog \/ SyncFails
  <2> DEFINE Stay == UNCHANGED <<phase, tables, manifests, current, manifest_file, version, next_file, reader, bg,
                                 pending_outputs, imm, bg_error>>
  <2> SUFFICES Stay
    BY FilesStay
  <2>1. CASE AppendRecord
    BY <2>1 DEF AppendRecord, versionVars, bgVars
  <2>2. CASE AppendFails
    BY <2>2 DEF AppendFails, versionVars, bgVars
  <2>3. CASE SyncLog
    BY <2>3 DEF SyncLog, memVars, versionVars, bgVars
  <2>4. CASE SyncFails
    BY <2>4 DEF SyncFails, memVars, versionVars, bgVars, diskVars
  <2> QED
    BY <1>1, <2>1, <2>2, <2>3, <2>4
<1>2. CASE EndWrite
  <2>1. /\ phase = "up" /\ bg_error' = (bg_error \/ job.stage = "sync_error")
        /\ UNCHANGED <<phase, tables, manifests, current, manifest_file, version, next_file, reader, bg,
                       pending_outputs, imm>>
    BY <1>2 DEF EndWrite, diskVars
  <2>2. bg_error \in BOOLEAN
    BY DEF QueueInv, TypeOK
  <2>3. bg_error' = bg_error \/ bg_error' = TRUE
    <3>1. CASE job.stage = "sync_error"
      BY <2>1, <3>1
    <3>2. CASE job.stage # "sync_error"
      <4>1. bg_error' = (bg_error \/ FALSE)
        BY <2>1, <3>2
      <4> QED
        BY ONLY <4>1, <2>2, Zenon
    <3> QED
      BY <3>1, <3>2
  <2> QED
    BY <2>1, <2>3, FilesStay
<1> QED
  BY <1>1, <1>2 DEF GoOnWriting

\* A background call that ended leaves nothing to be written.
LEMMA EndedBg ==
    ASSUME bg'.stage \in {"idle", "merge"}
    PROVE  EditInv' /\ TableInv'
  BY DEF EditInv, TableInv

\* While neither the MANIFEST nor the version changes, the two stay in step.
LEMMA InStepStays ==
    ASSUME InStepInv, UNCHANGED <<phase, manifests, manifest_file, version, bg_error>>,
           bg.stage # "sync", bg'.stage # "sync"
    PROVE  InStepInv'
  BY DEF InStepInv

\* A step in which an error is found.
LEMMA InStepFailed ==
    ASSUME bg_error' = TRUE
    PROVE  InStepInv'
  BY DEF InStepInv

\* Nothing to do, and the tables that are written.
LEMMA TableFiles ==
    ASSUME QueueInv, StoreInv, FilesInv, NothingToDo \/ StartTable \/ FinishTable \/ TableFails
    PROVE  FilesInv'
<1> USE DEF StoreInv, FilesInv
<1> DEFINE m == manifests[manifest_file]
<1>1. CASE NothingToDo
  <2>1. /\ phase = "up" /\ bg.stage = "idle" /\ bg' = IdleBg
        /\ UNCHANGED <<phase, tables, manifests, current, manifest_file, version, next_file, reader,
                       pending_outputs, imm, bg_error>>
    BY <1>1 DEF NothingToDo, EndBackground, memVars, versionVars, diskVars
  <2>2. bg'.stage = "idle" /\ bg'.out = 0
    BY <2>1 DEF IdleBg
  <2>3. EditInv' /\ TableInv' /\ OutInv'
    BY <2>2 DEF EditInv, TableInv, OutInv
  <2>4. InStepInv'
    BY <2>1, <2>2, InStepStays
  <2> QED
    BY <2>1, <2>3, <2>4, UpIs, UpStep
<1>2. CASE StartTable
  <2>1. /\ phase = "up" /\ imm # Nothing /\ bg.stage \in {"idle", "merge"}
        /\ next_file' = next_file + 1
        /\ pending_outputs' = pending_outputs \cup {next_file}
        /\ tables' = IF imm = {} THEN tables ELSE NewTable(next_file)
        /\ bg' = [bg EXCEPT !.stage = "table", !.kind = "imm", !.table = next_file]
        /\ UNCHANGED <<phase, manifests, current, manifest_file, version, reader, imm, bg_error>>
    BY <1>2 DEF StartTable, memVars
  <2>2. bg'.stage = "table" /\ bg'.table = next_file /\ bg'.out = bg.out
    BY <2>1 DEF BgInv
  <2>3. /\ SyncedKept(tables, tables') /\ DOMAIN tables \subseteq DOMAIN tables'
        /\ DOMAIN tables' \subseteq {next_file} \cup DOMAIN tables
        /\ imm # {} => next_file \in DOMAIN tables' /\ ~tables'[next_file].synced
        /\ imm = {} => next_file \notin DOMAIN tables'
    <3>1. CASE imm = {}
      BY <2>1, <3>1, UpIs DEF SyncedKept
    <3>2. CASE imm # {}
      <4>1. tables' = NewTable(next_file) /\ next_file \notin DOMAIN tables
        BY <2>1, <3>2, UpIs
      <4>2. DOMAIN tables' = {next_file} \cup DOMAIN tables /\ ~tables'[next_file].synced
            /\ SyncedKept(tables, tables')
        BY <4>1, NewTableIs
      <4> QED
        BY <3>2, <4>2
    <3> QED
      BY <3>1, <3>2
  <2>4. \A n \in DOMAIN tables' : n \in Nat /\ n < next_file'
    BY <2>1, <2>3, UpIs
  <2>5. Recoverable(tables', m) /\ Held(tables', version) /\ Held(tables', reader)
    BY <2>1, <2>3, UpIs, RecoverableKept, HeldKept
  <2>6. EditInv'
    BY <2>2 DEF EditInv
  <2>7. bg.out # next_file
    BY <2>1, UpIs DEF OutInv
  <2>8. TableInv'
    BY <2>1, <2>2, <2>3, <2>7 DEF TableInv
  <2>9. OutInv'
    BY <2>1, <2>2, <2>3 DEF OutInv
  <2>10. InStepInv'
    BY <2>1, <2>2, InStepStays
  <2> QED
    BY <2>1, <2>4, <2>5, <2>6, <2>8, <2>9, <2>10, UpIs, UpStep
<1>3. CASE FinishTable
  <2> DEFINE level == IF version = {} THEN 1 ELSE 0
             add == IF imm = {} THEN {} ELSE {[level |-> level, number |-> bg.table]}
             edit == EditOf(add, {}, logfile)
  <2>1. /\ phase = "up" /\ bg.stage = "table"
        /\ tables' = IF bg.table \in DOMAIN tables
                     THEN [tables EXCEPT ![bg.table] = [recs |-> imm, synced |-> TRUE]]
                     ELSE tables
        /\ pending_outputs' = pending_outputs \ {bg.table}
        /\ bg' = [bg EXCEPT !.stage = "manifest", !.edit = edit]
        /\ UNCHANGED <<phase, manifests, current, manifest_file, version, reader, next_file, imm, bg_error>>
    BY <1>3 DEF FinishTable, memVars, versionVars
  <2>2. Numbers(add) \subseteq {bg.table} /\ (imm = {} => Numbers(add) = {})
    BY DEF Numbers
  <2>3. edit.add = add /\ edit.next = next_file
    BY DEF EditOf
  <2> HIDE DEF add, edit
  <2>4. bg'.stage = "manifest" /\ bg'.edit = edit /\ bg'.out = bg.out
    BY <2>1 DEF BgInv
  <2>5. SyncedKept(tables, tables') /\ DOMAIN tables' = DOMAIN tables
        /\ (bg.table \in DOMAIN tables => tables'[bg.table].synced)
    <3>1. CASE bg.table \in DOMAIN tables
      BY <2>1, <3>1, WrittenTable
    <3>2. CASE bg.table \notin DOMAIN tables
      BY <2>1, <3>2 DEF SyncedKept
    <3> QED
      BY <3>1, <3>2
  <2>6. Recoverable(tables', m) /\ Held(tables', version) /\ Held(tables', reader)
    BY <2>1, <2>5, UpIs, RecoverableKept, HeldKept
  <2>7. Held(tables', add)
    BY <2>1, <2>2, <2>5 DEF Held, TableInv
  <2>8. EditInv'
    BY <2>1, <2>3, <2>4, <2>5, <2>7, UpIs DEF EditInv
  <2>9. TableInv' /\ OutInv'
    BY <2>1, <2>4, <2>5 DEF TableInv, OutInv
  <2>10. InStepInv'
    BY <2>1, <2>4, InStepStays
  <2> QED
    BY <2>1, <2>5, <2>6, <2>8, <2>9, <2>10, UpIs, UpStep
<1>4. CASE TableFails
  <2> DEFINE S == DOMAIN tables \ {bg.table}
  <2>1. /\ phase = "up" /\ bg.stage = "table" /\ bg_error' = TRUE
        /\ tables' = Restrict(tables, S)
        /\ pending_outputs' = pending_outputs \ {bg.table}
        /\ EndImm(imm, TRUE)
        /\ UNCHANGED <<phase, manifests, current, manifest_file, version, reader, next_file>>
    BY <1>4 DEF TableFails, versionVars
  <2>2. DOMAIN tables' = S /\ \A n \in S : tables'[n] = tables[n]
    BY <2>1, RestrictTables
  <2>3. SyncedKept(tables, tables')
    BY <2>1, <2>2 DEF SyncedKept, TableInv
  <2>4. bg.table # bg.out
    BY <2>1 DEF TableInv
  <2>5. bg'.stage \in {"idle", "merge"} /\ OutInv'
    <3>1. CASE bg.out = 0
      <4>1. bg' = IdleBg
        BY <2>1, <3>1 DEF EndImm, EndBackground
      <4> QED
        BY <4>1 DEF IdleBg, OutInv
    <3>2. CASE bg.out # 0
      <4>1. bg' = [bg EXCEPT !.stage = "merge", !.kind = "merge", !.table = 0, !.edit = Nothing]
        BY <2>1, <3>2 DEF EndImm
      <4>2. bg'.stage = "merge" /\ bg'.out = bg.out
        BY <4>1 DEF BgInv
      <4> QED
        BY <4>2, <3>2, <2>1, <2>2, <2>4 DEF OutInv
    <3> QED
      BY <3>1, <3>2
  <2>6. Recoverable(tables', m) /\ Held(tables', version) /\ Held(tables', reader)
    BY <2>1, <2>3, UpIs, RecoverableKept, HeldKept
  <2>7. \A n \in DOMAIN tables' : n \in Nat /\ n < next_file'
    BY <2>1, <2>2, UpIs
  <2> QED
    BY <2>1, <2>5, <2>6, <2>7, UpIs, UpStep, EndedBg, InStepFailed
<1> QED
  BY <1>1, <1>2, <1>3, <1>4

\* The compaction of level 0.
LEMMA MergeFiles ==
    ASSUME QueueInv, StoreInv, FilesInv, StartMove \/ StartMerge \/ FinishMerge \/ MergeFails
    PROVE  FilesInv'
<1> USE DEF StoreInv, FilesInv
<1> DEFINE m == manifests[manifest_file]
<1>1. CASE StartMove
  <2> DEFINE add == { [f EXCEPT !.level = 1] : f \in version }
             edit == EditOf(add, version, log_number)
  <2>1. /\ phase = "up" /\ bg.stage = "idle"
        /\ bg' = [bg EXCEPT !.stage = "manifest", !.kind = "move", !.edit = edit]
        /\ UNCHANGED <<phase, tables, manifests, current, manifest_file, version, next_file, reader,
                       pending_outputs, imm, bg_error>>
    BY <1>1 DEF StartMove, MayCompact, memVars, versionVars, diskVars
  <2>2. Numbers(add) \subseteq Numbers(version)
    <3>1. \A f \in version : [f EXCEPT !.level = 1].number = f.number
      BY DEF NumbersInv, Files
    <3> QED
      BY <3>1 DEF Numbers
  <2>3. edit.add = add /\ edit.next = next_file
    BY DEF EditOf
  <2> HIDE DEF add, edit
  <2>4. bg'.stage = "manifest" /\ bg'.edit = edit /\ bg'.out = bg.out
    BY <2>1 DEF BgInv
  <2>5. Held(tables', add)
    BY <2>1, <2>2, UpIs DEF Held
  <2>6. EditInv'
    BY <2>1, <2>3, <2>4, <2>5, UpIs DEF EditInv
  <2>7. TableInv' /\ OutInv'
    BY <2>1, <2>4 DEF TableInv, OutInv
  <2>8. InStepInv'
    BY <2>1, <2>4, InStepStays
  <2> QED
    BY <2>1, <2>6, <2>7, <2>8, UpIs, UpStep
<1>2. CASE StartMerge
  <2>1. /\ phase = "up" /\ bg.stage = "idle"
        /\ next_file' = next_file + 1
        /\ pending_outputs' = pending_outputs \cup {next_file}
        /\ tables' = NewTable(next_file)
        /\ bg' = [bg EXCEPT !.stage = "merge", !.kind = "merge", !.in = version, !.out = next_file]
        /\ UNCHANGED <<phase, manifests, current, manifest_file, version, reader, imm, bg_error>>
    BY <1>2 DEF StartMerge, MayCompact, memVars
  <2>2. bg'.stage = "merge" /\ bg'.out = next_file
    BY <2>1 DEF BgInv
  <2>3. DOMAIN tables' = {next_file} \cup DOMAIN tables /\ SyncedKept(tables, tables')
    BY <2>1, UpIs, NewTableIs
  <2>4. \A n \in DOMAIN tables' : n \in Nat /\ n < next_file'
    BY <2>1, <2>3, UpIs
  <2>5. Recoverable(tables', m) /\ Held(tables', version) /\ Held(tables', reader)
    BY <2>1, <2>3, UpIs, RecoverableKept, HeldKept
  <2>6. OutInv'
    BY <2>1, <2>2, <2>3, UpIs DEF OutInv
  <2>7. EditInv' /\ TableInv'
    BY <2>2, EndedBg
  <2>8. InStepInv'
    BY <2>1, <2>2, InStepStays
  <2> QED
    BY <2>1, <2>4, <2>5, <2>6, <2>7, <2>8, UpIs, UpStep
<1>3. CASE FinishMerge
  <2> DEFINE add == {[level |-> 1, number |-> bg.out]}
             edit == EditOf(add, bg.in, log_number)
  <2>1. /\ phase = "up" /\ bg.stage = "merge"
        /\ tables' = IF bg.out \in DOMAIN tables
                     THEN [tables EXCEPT ![bg.out] = [recs |-> RecordsIn(bg.in), synced |-> TRUE]]
                     ELSE tables
        /\ bg' = [bg EXCEPT !.stage = "manifest", !.edit = edit]
        /\ UNCHANGED <<phase, manifests, current, manifest_file, version, reader, next_file, imm, bg_error,
                       pending_outputs>>
    BY <1>3 DEF FinishMerge, memVars, versionVars
  <2>2. Numbers(add) = {bg.out}
    BY DEF Numbers
  <2>3. edit.add = add /\ edit.next = next_file
    BY DEF EditOf
  <2> HIDE DEF add, edit
  <2>4. bg'.stage = "manifest" /\ bg'.edit = edit /\ bg'.out = bg.out
    BY <2>1 DEF BgInv
  <2>5. bg.out \in DOMAIN tables
    BY <2>1 DEF OutInv
  <2>6. SyncedKept(tables, tables') /\ DOMAIN tables' = DOMAIN tables /\ tables'[bg.out].synced
    BY <2>1, <2>5, WrittenTable
  <2>7. Recoverable(tables', m) /\ Held(tables', version) /\ Held(tables', reader)
    BY <2>1, <2>6, UpIs, RecoverableKept, HeldKept
  <2>8. EditInv'
    BY <2>1, <2>2, <2>3, <2>4, <2>5, <2>6, UpIs DEF EditInv, Held
  <2>9. TableInv' /\ OutInv'
    BY <2>1, <2>4, <2>6 DEF TableInv, OutInv
  <2>10. InStepInv'
    BY <2>1, <2>4, InStepStays
  <2> QED
    BY <2>1, <2>6, <2>7, <2>8, <2>9, <2>10, UpIs, UpStep
<1>4. CASE MergeFails
  <2>1. /\ phase = "up" /\ bg_error' = TRUE /\ bg' = IdleBg
        /\ UNCHANGED <<phase, tables, manifests, current, manifest_file, version, reader, next_file>>
    BY <1>4 DEF MergeFails, AbandonMerge, EndBackground, DeleteObsoleteFiles, versionVars
  <2>2. bg'.stage = "idle" /\ OutInv'
    BY <2>1 DEF IdleBg, OutInv
  <2> QED
    BY <2>1, <2>2, UpIs, UpStep, EndedBg, InStepFailed
<1> QED
  BY <1>1, <1>2, <1>3, <1>4

\* A record is written to the MANIFEST, or that fails.
LEMMA ManifestFiles ==
    ASSUME QueueInv, StoreInv, FilesInv, WriteManifest \/ ManifestFails
    PROVE  FilesInv'
<1> USE DEF StoreInv, FilesInv
<1> DEFINE m == manifests[manifest_file]
<1>1. /\ phase = "up" /\ bg.stage \in {"manifest", "sync"} /\ bg.edit \in Edits
      /\ Held(tables, bg.edit.add) /\ \A n \in DOMAIN tables : n < bg.edit.next
  BY DEF WriteManifest, ManifestFails, BgInv, EditInv
<1>2. /\ current = manifest_file /\ manifest_file \in DOMAIN manifests /\ m \in Manifests
      /\ Recoverable(tables, m)
  BY <1>1, UpIs
<1>3. ASSUME NEW e \in {Nothing, bg.edit},
             manifests' = [manifests EXCEPT ![manifest_file].edits = Append(@, e)]
      PROVE  /\ manifests'[manifest_file] = [edits |-> Append(m.edits, e), synced |-> m.synced]
             /\ Recoverable(tables, manifests'[manifest_file])
  <2> DEFINE more == [edits |-> Append(m.edits, e), synced |-> m.synced]
  <2>1. e \in EditRecords
    BY <1>1 DEF EditRecords
  <2>2. more \in Manifests /\ manifests' = [manifests EXCEPT ![manifest_file] = more]
    BY <1>2, <1>3, <2>1, AppendedManifest
  <2>3. Recoverable(tables, more)
    BY <1>1, <1>2, <2>1, AppendRecoverable
  <2> HIDE DEF more
  <2>4. manifests'[manifest_file] = more
    BY <1>2, <2>2
  <2> QED
    BY <2>3, <2>4 DEF more
<1>4. CASE WriteManifest
  <2>1. /\ bg.stage = "manifest"
        /\ manifests' = [manifests EXCEPT ![manifest_file].edits = Append(@, bg.edit)]
        /\ bg' = [bg EXCEPT !.stage = "sync"]
        /\ UNCHANGED <<phase, tables, current, manifest_file, version, reader, next_file, imm, bg_error,
                       pending_outputs>>
    BY <1>4 DEF WriteManifest, memVars, versionVars
  <2>2. bg'.stage = "sync" /\ bg'.edit = bg.edit /\ bg'.out = bg.out
    BY <2>1 DEF BgInv
  <2> DEFINE m2 == manifests'[manifest_file]
  <2>3. m2 = [edits |-> Append(m.edits, bg.edit), synced |-> m.synced] /\ Recoverable(tables, m2)
    BY <2>1, <1>3
  <2>4. EditInv' /\ TableInv' /\ OutInv'
    BY <2>1, <2>2 DEF EditInv, TableInv, OutInv
  <2>5. InStepInv'
    <3> SUFFICES ASSUME ~bg_error
                 PROVE  /\ Len(m2.edits) = m2.synced + 1 /\ m2.edits[Len(m2.edits)] = bg.edit
                        /\ Replayed(SubSeq(m2.edits, 1, m2.synced)).files = version
      BY <2>1, <2>2 DEF InStepInv
    <3> DEFINE s == m.edits
    <3>1. Len(s) = m.synced /\ Replayed(s).files = version
      BY <1>1, <2>1 DEF InStepInv
    <3>2. s \in Seq(EditRecords) /\ bg.edit \in EditRecords /\ Len(s) \in Nat
      BY <1>1, <1>2 DEF Manifests, EditRecords
    <3>3. m2.edits = Append(s, bg.edit) /\ m2.synced = Len(s)
      BY <2>3, <3>1
    <3> HIDE DEF s, m2, m
    <3>4. Len(Append(s, bg.edit)) = Len(s) + 1 /\ Append(s, bg.edit)[Len(s) + 1] = bg.edit
      BY <3>2
    <3>5. SubSeq(Append(s, bg.edit), 1, Len(s)) = s
      <4>1. Len(s) \in 0 .. Len(s)
        BY <3>2
      <4>2. SubSeq(Append(s, bg.edit), 1, Len(s)) = SubSeq(s, 1, Len(s))
        BY <4>1, <3>2, PrefixOfAppend
      <4>3. SubSeq(s, 1, Len(s)) = s
        BY <3>2, WholeSeq
      <4> QED
        BY <4>2, <4>3
    <3> QED
      BY <3>1, <3>3, <3>4, <3>5
  <2> QED
    BY <1>1, <2>1, <2>3, <2>4, <2>5, UpIs, UpStep
<1>5. CASE ManifestFails
  <2>1. /\ bg_error' = TRUE
        /\ UNCHANGED <<phase, tables, current, manifest_file, version, reader, next_file>>
    BY <1>5 DEF ManifestFails, AbandonMerge, DeleteObsoleteFiles, versionVars
  <2>2. Recoverable(tables, manifests'[manifest_file])
    <3>1. CASE manifests' = manifests
      BY <3>1, <1>2
    <3>2. CASE manifests' # manifests
      <4>1. PICK e \in {Nothing, bg.edit} : manifests' = [manifests EXCEPT ![manifest_file].edits = Append(@, e)]
        BY <1>5, <3>2 DEF ManifestFails
      <4> QED
        BY <4>1, <1>3
    <3> QED
      BY <3>1, <3>2
  <2>3. bg'.stage \in {"idle", "merge"} /\ OutInv'
    <3>1. CASE bg' = IdleBg
      BY <3>1 DEF IdleBg, OutInv
    <3>2. CASE bg' # IdleBg
      <4>1. EndImm(imm, TRUE) /\ pending_outputs' = pending_outputs /\ bg.out # 0
        BY <1>5, <3>2 DEF ManifestFails, AbandonMerge, EndBackground, EndImm
      <4>2. bg' = [bg EXCEPT !.stage = "merge", !.kind = "merge", !.table = 0, !.edit = Nothing]
        BY <4>1 DEF EndImm
      <4>3. bg'.stage = "merge" /\ bg'.out = bg.out
        BY <4>2 DEF BgInv
      <4> QED
        BY <2>1, <4>1, <4>3 DEF OutInv
    <3> QED
      BY <3>1, <3>2
  <2> QED
    BY <1>1, <2>1, <2>2, <2>3, UpIs, UpStep, EndedBg, InStepFailed
<1> QED
  BY <1>4, <1>5

\* The new version: what is deleted is in no version that is read.
LEMMA InstallFiles ==
    ASSUME QueueInv, StoreInv, FilesInv, InstallVersion
    PROVE  FilesInv'
<1> USE DEF StoreInv, FilesInv
<1> DEFINE m == manifests[manifest_file]
           n == Len(m.edits)
           synced == [edits |-> m.edits, synced |-> n]
           ms == [manifests EXCEPT ![manifest_file].synced = n]
<1>1. /\ phase = "up" /\ bg.stage = "sync"
      /\ version' = (version \ bg.edit.del) \cup bg.edit.add
  BY DEF InstallVersion
<1>2. UNCHANGED <<phase, current, manifest_file, reader, next_file, bg_error>>
  <2>1. UNCHANGED <<phase, writers, asleep, job, mem, logfile, block_offset, next_file, manifest_file,
                    last_sequence, reader, bg_error, current, history, errors, crashes>>
    BY DEF InstallVersion
  <2> QED
    BY ONLY <2>1
<1>3. /\ current = manifest_file /\ manifest_file \in DOMAIN manifests /\ m \in Manifests /\ manifest_file \in Nat
      /\ Recoverable(tables, m)
      /\ Held(tables, version) /\ Held(tables, reader) /\ Held(tables, bg.edit.add)
  BY <1>1, UpIs DEF EditInv, NumbersInv
<1>4. synced \in Manifests /\ ms = [manifests EXCEPT ![manifest_file] = synced]
  BY <1>3, SyncedManifest
<1>5. ms[manifest_file] = synced /\ ms \in [DOMAIN ms -> Manifests] /\ manifest_file \in DOMAIN ms
  <2> HIDE DEF ms, synced
  <2> QED
    BY <1>3, <1>4, ChangedManifest
<1>6. Recoverable(tables, synced)
  <2> DEFINE s == m.edits
  <2>1. s \in Seq(EditRecords) /\ n \in Nat /\ m.synced \in Nat /\ m.synced <= n
    BY <1>3 DEF Manifests
  <2>2. n \in m.synced .. n /\ SubSeq(s, 1, n) = s
    BY <2>1, WholeSeq
  <2>3. Recoverable(tables, [edits |-> SubSeq(s, 1, n), synced |-> n])
    BY <1>3, <2>2, CutRecoverable
  <2> QED
    BY <2>2, <2>3
<1>7. Held(tables, version')
  <2>1. Numbers(version') \subseteq Numbers(version) \cup Numbers(bg.edit.add)
    BY <1>1 DEF Numbers
  <2> QED
    BY <1>3, <2>1 DEF Held
<1>8. ~bg_error => Replayed(m.edits).files = version'
  <2> SUFFICES ASSUME ~bg_error PROVE Replayed(m.edits).files = version'
    OBVIOUS
  <2> DEFINE s == m.edits
             p == SubSeq(s, 1, m.synced)
  <2>1. n = m.synced + 1 /\ s[n] = bg.edit /\ Replayed(p).files = version
    BY <1>1 DEF InStepInv
  <2>2. s \in Seq(EditRecords) /\ Len(s) = n /\ n \in Nat /\ m.synced \in Nat
    BY <1>3 DEF Manifests
  <2>3. bg.edit \in Edits /\ bg.edit # Nothing
    BY <1>1, LevelStoreAssumption DEF BgInv
  <2>4. m.synced = n - 1 /\ n # 0
    BY <2>1, <2>2
  <2> HIDE DEF n
  <2>5. s = Append(p, bg.edit) /\ p \in Seq(EditRecords) /\ bg.edit \in EditRecords
    <3> HIDE DEF s
    <3>1. Len(s) # 0
      BY <2>2, <2>4
    <3> QED
      BY <2>1, <2>2, <2>4, <3>1, LastApart
  <2> HIDE DEF s, p
  <2>6. Replayed(s) = ApplyEdit(Replayed(p), bg.edit)
    BY <2>5, ReplayedAppend
  <2>7. Replayed(s).files = (version \ bg.edit.del) \cup bg.edit.add
    BY <2>1, <2>3, <2>6 DEF ApplyEdit
  <2> QED
    BY <1>1, <2>7 DEF s
<1> HIDE DEF ms
<1>9. \/ /\ tables' = tables /\ manifests' = ms
         /\ pending_outputs' = pending_outputs \/ bg' = IdleBg
      \/ \E held, log :
           /\ reader \subseteq held
           /\ DeleteObsoleteFiles(ms, version', held, log, pending_outputs', bg_error)
           /\ pending_outputs' = pending_outputs \/ bg' = IdleBg
  <2>1. CASE bg.kind = "imm"
    <3>1. /\ DeleteObsoleteFiles(ms, version', reader \cup bg.in, log_number', pending_outputs, bg_error)
          /\ pending_outputs' = pending_outputs
      BY <2>1 DEF InstallVersion, ms
    <3>2. reader \subseteq reader \cup bg.in
      OBVIOUS
    <3> QED
      BY <3>1, <3>2
  <2>2. CASE bg.kind = "move"
    <3>1. manifests' = ms /\ tables' = tables /\ pending_outputs' = pending_outputs
      BY <2>2 DEF InstallVersion, ms
    <3> QED
      BY <3>1
  <2>3. CASE bg.kind = "merge"
    <3>1. /\ DeleteObsoleteFiles(ms, version', reader, log_number', pending_outputs', bg_error)
          /\ bg' = IdleBg
      BY <2>3 DEF InstallVersion, ms, EndBackground
    <3> QED
      BY <3>1
  <2> QED
    BY <2>1, <2>2, <2>3 DEF InstallVersion
<1>10. bg'.stage \in {"idle", "merge"} /\ (bg'.out # 0 => bg' # IdleBg /\ bg'.out = bg.out)
       /\ (bg'.stage = "merge" => bg'.out # 0)
  <2>1. CASE bg' = IdleBg
    BY <2>1 DEF IdleBg
  <2>2. CASE bg' # IdleBg
    <3>1. bg.out # 0 /\ bg' = [bg EXCEPT !.stage = "merge", !.kind = "merge", !.table = 0, !.edit = Nothing]
      BY <2>2 DEF InstallVersion, EndImm, EndBackground
    <3> QED
      BY <2>2, <3>1 DEF BgInv
  <2> QED
    BY <2>1, <2>2
<1>11. CASE tables' = tables /\ manifests' = ms /\ (pending_outputs' = pending_outputs \/ bg' = IdleBg)
  <2>1. InStepInv'
    BY <1>2, <1>5, <1>8, <1>10, <1>11 DEF InStepInv
  <2>2. OutInv'
    BY <1>10, <1>11 DEF OutInv
  <2> HIDE DEF m, n, synced
  <2>3. Recoverable(tables', manifests'[manifest_file]) /\ Held(tables', version') /\ Held(tables', reader')
    BY <1>2, <1>3, <1>5, <1>6, <1>7, <1>11
  <2>4. \A k \in DOMAIN tables' : k \in Nat /\ k < next_file'
    BY <1>1, <1>2, <1>11, UpIs
  <2> QED
    BY <1>1, <1>2, <1>3, <1>10, <2>1, <2>2, <2>3, <2>4, UpStep, EndedBg
<1>12. ASSUME NEW held, NEW log, reader \subseteq held,
              DeleteObsoleteFiles(ms, version', held, log, pending_outputs', bg_error),
              pending_outputs' = pending_outputs \/ bg' = IdleBg
       PROVE  FilesInv'
  <2>1. CASE bg_error
    BY <1>11, <1>12, <2>1 DEF DeleteObsoleteFiles
  <2>2. CASE ~bg_error
    <3> DEFINE S == DOMAIN tables \cap (pending_outputs' \cup Numbers(version' \cup held))
    <3>1. tables' = Restrict(tables, S)
      BY <1>12, <2>2 DEF DeleteObsoleteFiles
    <3>2. manifests'[manifest_file] = synced
      BY <1>3, <1>5, <1>12, DeleteStore
    <3>3. Numbers(version') \subseteq S /\ Numbers(reader) \subseteq S
      BY <1>3, <1>7, <1>12 DEF Held, Numbers
    <3>4. DOMAIN tables' = S /\ S \subseteq DOMAIN tables
      BY <3>1, RestrictTables
    <3>5. \A k \in pending_outputs' : k \in DOMAIN tables => k \in S
      OBVIOUS
    <3> HIDE DEF S
    <3>6. Held(tables', version') /\ Held(tables', reader)
      BY <1>3, <1>7, <3>1, <3>3, <3>4, RestrictHeld
    <3>7. Recoverable(tables', synced)
      BY <1>4, <1>6, <1>8, <2>2, <3>6, LastRecoverable
    <3>8. InStepInv'
      BY <1>2, <1>8, <1>10, <3>2 DEF InStepInv
    <3>9. OutInv'
      BY <1>10, <1>12, <3>4, <3>5 DEF OutInv
    <3>10. \A k \in DOMAIN tables' : k \in Nat /\ k < next_file'
      BY <1>1, <1>2, <3>4, UpIs
    <3> HIDE DEF m, n, synced
    <3> QED
      BY <1>1, <1>2, <1>3, <1>10, <3>2, <3>6, <3>7, <3>8, <3>9, <3>10, UpStep, EndedBg
  <2> QED
    BY <2>1, <2>2
<1> QED
  BY <1>9, <1>11, <1>12

\* An iterator holds the version that is current.
LEMMA IteratorFiles ==
    ASSUME QueueInv, StoreInv, FilesInv, OpenIterator \/ CloseIterator
    PROVE  FilesInv'
<1> USE DEF StoreInv, FilesInv
<1>1. /\ phase = "up" /\ reader' \in {version, {}}
      /\ UNCHANGED <<phase, tables, manifests, current, manifest_file, version, next_file, bg,
                     pending_outputs, imm, bg_error>>
  <2>1. CASE OpenIterator
    BY <2>1 DEF OpenIterator, memVars, versionVars, bgVars, diskVars
  <2>2. CASE CloseIterator
    BY <2>2 DEF CloseIterator, memVars, versionVars, bgVars, diskVars
  <2> QED
    BY <2>1, <2>2
<1>2. Held(tables', reader')
  <2>1. Held(tables, {})
    BY DEF Held, Numbers
  <2> QED
    BY <1>1, <2>1, UpIs
<1>3. EditInv' /\ TableInv' /\ OutInv'
  BY <1>1 DEF EditInv, TableInv, OutInv
<1>4. InStepInv'
  BY <1>1 DEF InStepInv
<1> QED
  BY <1>1, <1>2, <1>3, <1>4, UpIs, UpStep

\* A store that is not open has nothing in memory.
LEMMA DownStep ==
    ASSUME phase' = "down", bg' = IdleBg, reader' = {}, pending_outputs' = {}, bg_error' = FALSE,
           Recoverable(tables', manifests'[current'])
    PROVE  FilesInv'
<1>1. bg'.stage = "idle" /\ bg'.out = 0
  BY DEF IdleBg
<1> QED
  BY <1>1 DEF FilesInv, DiskInv, OpeningInv, QuietInv, TablesInv, EditInv, InStepInv, TableInv, OutInv

\* A crash of the process, or of the machine.
LEMMA CrashFiles ==
    ASSUME QueueInv, StoreInv, FilesInv, ProcessCrash \/ MachineCrash
    PROVE  FilesInv'
<1> DEFINE m == manifests[current]
<1>1. /\ phase' = "down" /\ bg' = IdleBg /\ reader' = {} /\ pending_outputs' = {} /\ bg_error' = FALSE
      /\ current' = current
  BY DEF ProcessCrash, MachineCrash, LoseMemory
<1>2. current \in DOMAIN manifests /\ m \in Manifests /\ Recoverable(tables, m)
  BY DEF StoreInv, ManifestsInv, FilesInv, DiskInv
<1>3. CASE ProcessCrash
  <2>1. tables' = tables /\ manifests' = manifests
    BY <1>3 DEF ProcessCrash
  <2> QED
    BY <1>1, <1>2, <2>1, DownStep
<1>4. CASE MachineCrash
  <2>1. PICK cut : /\ \A n \in DOMAIN manifests : cut[n] \in manifests[n].synced .. Len(manifests[n].edits)
                   /\ manifests' = [n \in DOMAIN manifests |-> [edits |-> SubSeq(manifests[n].edits, 1, cut[n]),
                                                                synced |-> cut[n]]]
    BY <1>4 DEF MachineCrash
  <2> DEFINE S == { n \in DOMAIN tables : tables[n].synced }
             c == cut[current]
             left == [edits |-> SubSeq(m.edits, 1, c), synced |-> c]
  <2>2. tables' = Restrict(tables, S)
    BY <1>4 DEF MachineCrash
  <2>3. DOMAIN tables' = S /\ \A n \in S : tables'[n] = tables[n]
    BY <2>2, RestrictTables
  <2>4. SyncedKept(tables, tables')
    BY <2>3 DEF SyncedKept
  <2>5. manifests'[current] = left /\ c \in m.synced .. Len(m.edits)
    BY <2>1, <1>2
  <2> HIDE DEF c, m
  <2>6. Recoverable(tables, left)
    BY <1>2, <2>5, CutRecoverable
  <2> HIDE DEF left
  <2>7. Recoverable(tables', left)
    BY <2>4, <2>6, RecoverableKept
  <2> QED
    BY <1>1, <2>5, <2>7, DownStep
<1> QED
  BY <1>3, <1>4

\* A store that is being opened.
LEMMA OpeningStep ==
    ASSUME phase' \in {"opening", "installed"}, bg = IdleBg, reader = {}, pending_outputs = {}, bg_error = FALSE,
           UNCHANGED <<bg, reader, pending_outputs, bg_error>>,
           DiskInv', OpeningInv'
    PROVE  FilesInv'
<1>1. bg'.stage = "idle" /\ bg'.out = 0
  BY DEF IdleBg
<1> QED
  BY <1>1 DEF FilesInv, QuietInv, TablesInv, EditInv, InStepInv, TableInv, OutInv

\* Open reads the manifest and the logs, and makes tables of what the logs hold.
LEMMA RecoverFiles ==
    ASSUME QueueInv, StoreInv, FilesInv, OpenRecover
    PROVE  FilesInv'
<1> DEFINE old == manifests[current]
           v == Replayed(old.edits)
           r == RecoverLogs(v)
           files == v.files \cup { [level |-> 0, number |-> t] : t \in DOMAIN r.made }
           e == [add |-> files, del |-> {}, log |-> r.next, next |-> r.next + 1, last |-> r.last]
           m == [edits |-> <<e>>, synced |-> 1]
<1>1. old \in Manifests /\ current \in DOMAIN manifests /\ Recoverable(tables, old)
  BY DEF StoreInv, ManifestsInv, FilesInv, DiskInv
<1>2. v \in Versions
  <2>1. old.edits \in Seq(EditRecords) /\ Nothing \in EditRecords
    BY <1>1 DEF Manifests, EditRecords
  <2> QED
    BY <2>1, ReplayedAppend
<1>3. Held(tables, v.files) /\ \A n \in Numbers(v.files) : n < v.next
  <2> HIDE DEF old
  <2> QED
    BY <1>1, RecoverableLast
<1>4. r \in Recovered(v.next)
  BY <1>2, RecoverLogsIs DEF StoreInv
<1>5. /\ tables' = Over(r.made, tables)
      /\ manifests' = Created(v.next, m, manifests)
      /\ version' = files /\ next_file' = r.next + 1 /\ manifest_file' = v.next
      /\ phase = "down" /\ phase' = "opening"
      /\ UNCHANGED <<reader, current, bg, bg_error, pending_outputs>>
  BY DEF OpenRecover, bgVars
<1> HIDE DEF v, r
<1>6. /\ r.next \in Nat /\ r.last \in Nat /\ v.next \in Nat /\ v.next < r.next /\ v.files \in SUBSET Files
      /\ r.made \in MadeTables /\ DOMAIN r.made \in SUBSET Nat /\ \A t \in DOMAIN r.made : t < r.next
  <2>1. r.made \in MadeTables
    BY <1>4 DEF Recovered
  <2> QED
    BY <2>1, <1>2, <1>4, MadeIs DEF Recovered, Versions
<1>7. SyncedKept(tables, tables') /\ \A n \in DOMAIN r.made : n \in DOMAIN tables' /\ tables'[n].synced
  BY <1>5, <1>6, OverTables
<1>8. Numbers(files) \subseteq Numbers(v.files) \cup DOMAIN r.made
  BY DEF Numbers
<1>9. files \in SUBSET Files
  BY <1>6 DEF Files
<1> HIDE DEF files
<1>10. Held(tables', files)
  <2>1. Held(tables', v.files)
    BY <1>3, <1>7, HeldKept
  <2> QED
    BY <1>7, <1>8, <2>1 DEF Held
<1>11. \A n \in Numbers(files) : n < r.next + 1
  <2>1. \A n \in Numbers(files) : n \in Nat
    BY <1>9 DEF Numbers, Files
  <2>2. \A n \in Numbers(files) : n < v.next \/ n < r.next
    BY <1>3, <1>6, <1>8
  <2> QED
    BY <1>6, <2>1, <2>2
<1>12. e \in Edits /\ e.add = files /\ e.next = r.next + 1
  BY <1>6, <1>9 DEF Edits
<1> HIDE DEF e
<1>13. Recoverable(tables', m)
  <2>1. Held(tables', e.add) /\ \A n \in Numbers(e.add) : n < e.next
    BY <1>10, <1>11, <1>12
  <2> QED
    BY <1>12, <2>1, SingleRecoverable
<1>14. Replayed(m.edits).files = files /\ Len(m.edits) = 1 /\ m.synced = 1
  BY <1>12, SingleIs
<1>15. manifests'[v.next] = m /\ (current # v.next => manifests'[current] = old)
  <2> HIDE DEF m
  <2> QED
    BY <1>1, <1>5 DEF Created, Over
<1> HIDE DEF m, old
<1>16. DiskInv'
  <2>1. Recoverable(tables', manifests'[current])
    <3>1. CASE current = v.next
      BY <3>1, <1>13, <1>15
    <3>2. CASE current # v.next
      BY <3>2, <1>1, <1>7, <1>15, RecoverableKept
    <3> QED
      BY <3>1, <3>2
  <2> QED
    BY <2>1, <1>5, <1>13, <1>15 DEF DiskInv
<1>17. OpeningInv'
  BY <1>5, <1>10, <1>11, <1>14, <1>15 DEF OpeningInv
<1> QED
  BY <1>5, <1>16, <1>17, OpeningStep DEF FilesInv, QuietInv

\* The end of Open: it fails, installs its manifest, or has deleted the obsolete files.
LEMMA OpenFiles ==
    ASSUME QueueInv, StoreInv, FilesInv, OpenFails \/ OpenInstall \/ OpenEnds
    PROVE  FilesInv'
<1> USE DEF StoreInv, FilesInv
<1>1. CASE OpenFails
  <2>1. /\ phase = "down" /\ phase' = "failed"
        /\ UNCHANGED <<tables, manifests, current, reader, bg, bg_error, pending_outputs>>
    BY <1>1 DEF OpenFails, bgVars, diskVars
  <2>2. bg' = IdleBg /\ bg'.stage = "idle" /\ bg'.out = 0
    BY <2>1 DEF QuietInv, IdleBg
  <2> QED
    BY <2>1, <2>2 DEF DiskInv, OpeningInv, QuietInv, TablesInv, EditInv, InStepInv, TableInv, OutInv
<1>2. CASE OpenInstall
  <2>1. /\ phase = "opening" /\ phase' = "installed" /\ current' = manifest_file
        /\ UNCHANGED <<tables, manifests, manifest_file, version, next_file, reader, bg, bg_error, pending_outputs>>
    BY <1>2 DEF OpenInstall, versionVars, bgVars
  <2>2. DiskInv' /\ OpeningInv'
    BY <2>1 DEF DiskInv, OpeningInv
  <2> QED
    BY <2>1, <2>2, OpeningStep DEF QuietInv
<1>3. CASE OpenEnds
  <2> DEFINE m == manifests[manifest_file]
             S == DOMAIN tables \cap ({} \cup Numbers(version \cup {}))
  <2>1. /\ phase = "installed" /\ phase' = "up"
        /\ DeleteObsoleteFiles(manifests, version, {}, log_number, {}, FALSE)
        /\ UNCHANGED <<current, manifest_file, version, next_file, reader, bg, bg_error, pending_outputs>>
    BY <1>3 DEF OpenEnds, versionVars
  <2>2. tables' = Restrict(tables, S)
    BY <2>1 DEF DeleteObsoleteFiles
  <2>3. /\ current = manifest_file /\ manifest_file \in DOMAIN manifests /\ m \in Manifests
        /\ manifest_file \in Nat /\ manifests \in [DOMAIN manifests -> Manifests]
        /\ Recoverable(tables, m)
    BY <2>1 DEF ManifestsInv, NumbersInv, DiskInv
  <2>4. manifests'[manifest_file] = m
    BY <2>1, <2>3, DeleteStore
  <2>5. /\ Held(tables, version) /\ \A n \in Numbers(version) : n < next_file
        /\ Len(m.edits) = 1 /\ m.synced = 1 /\ Replayed(m.edits).files = version
    BY <2>1 DEF OpeningInv
  <2>6. Numbers(version) \subseteq S /\ S \subseteq Numbers(version)
    BY <2>5 DEF Held, Numbers
  <2>7. DOMAIN tables' = S /\ S \subseteq DOMAIN tables
    BY <2>2, RestrictTables
  <2> HIDE DEF S
  <2>8. Held(tables', version)
    BY <2>2, <2>5, <2>6, <2>7, RestrictHeld
  <2> HIDE DEF m
  <2>9. Recoverable(tables', m)
    BY <2>3, <2>5, <2>8, LastRecoverable
  <2>10. bg' = IdleBg /\ bg'.stage = "idle" /\ bg'.out = 0 /\ reader' = {}
    BY <2>1 DEF QuietInv, IdleBg
  <2>11. DiskInv'
    BY <2>1, <2>3, <2>4, <2>9 DEF DiskInv
  <2>12. TablesInv'
    <3>1. Held(tables', {})
      BY DEF Held, Numbers
    <3>2. \A n \in Numbers(version) : n \in Nat
      BY DEF NumbersInv, Numbers, Files
    <3> QED
      BY <2>1, <2>5, <2>6, <2>7, <2>8, <2>10, <3>1, <3>2 DEF TablesInv
  <2>13. InStepInv'
    BY <2>1, <2>4, <2>5, <2>10 DEF InStepInv
  <2>14. EditInv' /\ TableInv' /\ OutInv' /\ OpeningInv' /\ QuietInv'
    BY <2>1, <2>10 DEF EditInv, TableInv, OutInv, OpeningInv, QuietInv
  <2> QED
    BY <2>11, <2>12, <2>13, <2>14
<1> QED
  BY <1>1, <1>2, <1>3

\* An empty directory names no table that is not there.
LEMMA InitFiles == Init => FilesInv
<1> SUFFICES ASSUME Init PROVE FilesInv
  OBVIOUS
<1>1. /\ phase = "down" /\ bg = IdleBg /\ reader = {} /\ pending_outputs = {} /\ bg_error = FALSE /\ current = 1
  BY DEF Init
<1>2. PICK start \in Starts :
        /\ tables = [n \in Numbers(start.files) |-> [recs |-> {}, synced |-> TRUE]]
        /\ manifests = [n \in {1} |-> [edits  |-> <<[add |-> start.files, del |-> {}, log |-> 0,
                                                  next |-> Max({1} \cup Numbers(start.files)) + 1, last |-> 0]>>,
                                    synced |-> 1]]
  BY DEF Init
<1> DEFINE next == Max({1} \cup Numbers(start.files)) + 1
           e == [add |-> start.files, del |-> {}, log |-> 0, next |-> next, last |-> 0]
<1>3. next \in Nat /\ start.files \in SUBSET Files /\ \A n \in Numbers(start.files) : n < next
  BY StartIs
<1>4. manifests[current] = [edits |-> <<e>>, synced |-> 1]
  BY <1>1, <1>2
<1> HIDE DEF next
<1>5. e \in Edits /\ e.add = start.files /\ e.next = next
  BY <1>3 DEF Edits
<1>6. Held(tables, start.files)
  BY <1>2 DEF Held
<1> HIDE DEF e
<1>7. Recoverable(tables, manifests[current])
  BY <1>3, <1>4, <1>5, <1>6, SingleRecoverable
<1>8. bg.stage = "idle" /\ bg.out = 0
  BY <1>1 DEF IdleBg
<1> QED
  BY <1>1, <1>7, <1>8 DEF FilesInv, DiskInv, OpeningInv, QuietInv, TablesInv, EditInv, InStepInv, TableInv, OutInv

\* Every step keeps the files that are named.
LEMMA NextFiles == QueueInv /\ StoreInv /\ FilesInv /\ [Next]_vars => FilesInv'
<1> SUFFICES ASSUME QueueInv, StoreInv, FilesInv, [Next]_vars PROVE FilesInv'
  OBVIOUS
<1>1. ASSUME NEW w \in Writes, Write(w) \/ LeadWrite(w) PROVE FilesInv'
  BY <1>1, CallsFiles
<1>2. CASE GoOnWriting
  BY <1>2, JobFiles
<1>3. CASE Background
  BY <1>3, TableFiles, MergeFiles, ManifestFiles, InstallFiles DEF Background
<1>4. CASE OpenIterator \/ CloseIterator \/ Open
  BY <1>4, IteratorFiles, RecoverFiles, OpenFiles DEF Open
<1>5. CASE ProcessCrash \/ MachineCrash
  BY <1>5, CrashFiles
<1>6. CASE UNCHANGED vars
  <2>1. UNCHANGED <<phase, tables, manifests, current, manifest_file, version, next_file, reader, bg,
                    pending_outputs, imm, bg_error>>
    BY <1>6 DEF vars, callVars, memVars, versionVars, bgVars, diskVars
  <2> QED
    BY <2>1, FilesStay
<1> QED
  BY <1>1, <1>2, <1>3, <1>4, <1>5, <1>6 DEF Next

\* All three invariants hold of every state the store reaches.
LEMMA FilesAlways == Spec => [](QueueInv /\ StoreInv /\ FilesInv)
<1>1. Init => QueueInv /\ StoreInv /\ FilesInv
  BY InitQueue, InitStore, InitFiles
<1>2. (QueueInv /\ StoreInv /\ FilesInv) /\ [Next]_vars => (QueueInv /\ StoreInv /\ FilesInv)'
  BY NextQueue, NextStore, NextFiles
<1> QED
  BY <1>1, <1>2, PTL DEF Spec

\* Wherever the machine stops, in whatever order files are made, synced, named in
\* the MANIFEST and deleted and whatever fails, recovery finds every table that the
\* MANIFEST names, and an iterator every table of its version.
THEOREM FilesCorrect == Spec => []FilesPresent
<1>1. QueueInv /\ StoreInv /\ FilesInv => FilesPresent
  <2> SUFFICES ASSUME StoreInv, FilesInv PROVE FilesPresent
    OBVIOUS
  <2>1. Recoverable(tables, manifests[current])
    BY DEF FilesInv, DiskInv
  <2>2. Numbers(reader) \subseteq DOMAIN tables
    <3>1. CASE phase = "up"
      BY <3>1 DEF FilesInv, TablesInv, Held
    <3>2. CASE phase # "up"
      BY <3>2 DEF FilesInv, QuietInv, Numbers
    <3> QED
      BY <3>1, <3>2
  <2> QED
    BY <2>1, <2>2 DEF FilesPresent, Recoverable, Held
<1> QED
  BY <1>1, FilesAlways, PTL

-----------------------------------------------------------------------------
(* Sequence numbers: where the records of the store are. *)

\* A record has its sequence numbers, one for each write, before those of another.
Earlier(r, q) == r.seq + Len(r.ws) <= q.seq

\* No two records have a number in common.
Apart(S) == \A r, q \in S : r # q => Earlier(r, q) \/ Earlier(q, r)

\* None has a number above n.
Below(S, n) == \A r \in S : r.seq + Len(r.ws) - 1 <= n

\* The records of which a log has bytes, and those of the logs from a number on.
Appended(bytes) == { bytes[i][1].of : i \in { j \in 1 .. Len(bytes) : bytes[j] # ZeroByte } }

LogsFrom(ls, low) == UNION { Appended(ls[n].bytes) : n \in { m \in DOMAIN ls : m >= low } }

\* The records of all tables, and of those of a version.
TableRecs(ts) == UNION { ts[n].recs : n \in DOMAIN ts }

RecsOf(ts, files) == UNION { ts[n].recs : n \in Numbers(files) \cap DOMAIN ts }

VersionAt(m, k) == Replayed(SubSeq(m.edits, 1, k))

\* Wherever a MANIFEST is cut, no table of its version has a number above the
\* last it names, and neither its log nor a table of it can be taken for a file
\* that recovery creates after this cut or a later one.
SoundCuts(ts, m) ==
  \A k \in m.synced .. Len(m.edits) :
    /\ Below(RecsOf(ts, VersionAt(m, k).files), VersionAt(m, k).last)
    /\ VersionAt(m, k).log <= VersionAt(m, k).next
    /\ \A j \in k .. Len(m.edits) : \A n \in Numbers(VersionAt(m, k).files) : n < VersionAt(m, j).next

\* And what recovery finds, in tables and in logs, has no number in common.
ApartCuts(ts, ls, m) ==
  \A k \in m.synced .. Len(m.edits) :
    Apart(RecsOf(ts, VersionAt(m, k).files) \cup LogsFrom(ls, VersionAt(m, k).log))

\* The records in memory, the one that is being written, and all others.
InMemory == mem \cup IF imm = Nothing THEN {} ELSE imm

InFlight == IF job.stage = "none" THEN {} ELSE {job.rec}

Stored == InMemory \cup TableRecs(tables) \cup (LogsFrom(logs, 0) \ InFlight)

RecordsInv == InMemory \cup TableRecs(tables) \subseteq Records

CutsInv == SoundCuts(tables, manifests[current])

\* A store that is not open has all its records on disk.
DownInv ==
  phase # "up" =>
    /\ ApartCuts(tables, logs, manifests[current])
    /\ InMemory = {} /\ job.stage = "none"

\* While the store is opened, all its records are in the tables of its version.
BegunInv ==
  phase \in {"opening", "installed"} =>
    /\ manifests[manifest_file] =
         [edits |-> <<[add |-> version, del |-> {}, log |-> log_number, next |-> next_file, last |-> last_sequence]>>,
          synced |-> 1]
    /\ Below(RecsOf(tables, version), last_sequence) /\ Apart(RecsOf(tables, version))
    /\ LogsFrom(logs, log_number) = {}
    /\ logfile <= next_file /\ log_number <= next_file

\* An open store: the numbers that were given, the one that is being written with the next,
StoredInv ==
  phase = "up" =>
    /\ Below(Stored, last_sequence) /\ Apart(Stored)
    /\ job.stage # "none" => job.rec.seq = last_sequence + 1

\* the edit that is to be written, or was,
EditFresh ==
  phase = "up" =>
    /\ logfile <= next_file /\ log_number <= next_file
    /\ bg.stage \in {"manifest", "sync"} =>
         /\ Below(TableRecs(tables), bg.edit.last)
         /\ bg.edit.log <= bg.edit.next /\ bg.edit.next <= next_file

\* and the table of a compaction, which is synced only when it is complete.
OutFresh ==
  /\ bg.stage = "merge" => bg.kind = "merge"
  /\ phase = "up" /\ bg.out # 0 /\ ~(bg.kind = "merge" /\ bg.stage \in {"manifest", "sync"})
       => ~tables[bg.out].synced

FreshInv == RecordsInv /\ CutsInv /\ DownInv /\ BegunInv /\ StoredInv /\ EditFresh /\ OutFresh

-----------------------------------------------------------------------------
(* Sets of records. *)

\* Fewer records: those that were apart, and below, are,
LEMMA ApartLess == ASSUME NEW S, NEW T, T \subseteq S, Apart(S) PROVE Apart(T)
  BY DEF Apart

LEMMA BelowLess == ASSUME NEW S, NEW n, NEW T, T \subseteq S, Below(S, n) PROVE Below(T, n)
  BY DEF Below

\* also below a higher number.
LEMMA BelowMore ==
    ASSUME NEW S \in SUBSET Records, NEW n \in Nat, NEW m \in Nat, n <= m, Below(S, n)
    PROVE  Below(S, m)
<1> SUFFICES ASSUME NEW r \in S PROVE r.seq + Len(r.ws) - 1 <= m
  BY DEF Below
<1>1. r.seq \in Nat /\ Len(r.ws) \in Nat
  BY DEF Records
<1>2. r.seq + Len(r.ws) - 1 <= n
  BY DEF Below
<1> QED
  BY <1>1, <1>2

\* A record that begins after all others.
LEMMA ApartOneMore ==
    ASSUME NEW S \in SUBSET Records, NEW n \in Nat, Below(S, n), Apart(S),
           NEW r \in Records, r.seq = n + 1
    PROVE  Apart(S \cup {r}) /\ Below(S \cup {r}, n + Len(r.ws))
<1>1. \A q \in Records : q.seq \in Nat /\ Len(q.ws) \in Nat
  BY DEF Records
<1>2. ASSUME NEW q \in S
      PROVE  Earlier(q, r) /\ q.seq + Len(q.ws) - 1 <= n + Len(r.ws)
  <2>1. q.seq + Len(q.ws) - 1 <= n
    BY DEF Below
  <2>2. q \in Records
    OBVIOUS
  <2> QED
    BY <2>1, <2>2, <1>1 DEF Earlier
<1>3. r.seq + Len(r.ws) - 1 <= n + Len(r.ws)
  <2> DEFINE seq == r.seq
             len == Len(r.ws)
  <2>1. len \in Nat /\ seq \in Nat /\ seq = n + 1
    BY <1>1
  <2> HIDE DEF seq, len
  <2>2. seq + len - 1 <= n + len
    BY <2>1
  <2> QED
    BY <2>2 DEF seq, len
<1> QED
  BY <1>2, <1>3 DEF Apart, Below

-----------------------------------------------------------------------------
(* What a log has bytes of. *)

\* Bytes of parts of records are of these records.
LEMMA AppendedOf ==
    ASSUME NEW O, NEW size, NEW bytes \in Seq(BytesOf(Parts(O, size)))
    PROVE  Appended(bytes) \subseteq O
<1> SUFFICES ASSUME NEW i \in 1 .. Len(bytes), bytes[i] # ZeroByte
             PROVE  bytes[i][1].of \in O
  BY DEF Appended
<1>1. bytes[i] \in Parts(O, size) \X Nat
  BY DEF BytesOf
<1>2. bytes[i][1] \in PhysicalsOf(O)
  BY <1>1 DEF Parts
<1> QED
  BY <1>2 DEF PhysicalsOf

\* An append has the records of both,
LEMMA AppendedConcat ==
    ASSUME NEW S, NEW a \in Seq(S), NEW b \in Seq(S)
    PROVE  Appended(a \o b) \subseteq Appended(a) \cup Appended(b)
<1> DEFINE c == a \o b
<1>1. /\ Len(a) \in Nat /\ Len(b) \in Nat /\ Len(c) = Len(a) + Len(b)
      /\ \A i \in 1 .. Len(a) : c[i] = a[i]
      /\ \A i \in Len(a) + 1 .. Len(a) + Len(b) : c[i] = b[i - Len(a)]
  BY ConcatProperties
<1> HIDE DEF c
<1> SUFFICES ASSUME NEW i \in 1 .. Len(c), c[i] # ZeroByte
             PROVE  c[i][1].of \in Appended(a) \cup Appended(b)
  BY DEF Appended, c
<1>2. CASE i <= Len(a)
  BY <1>1, <1>2 DEF Appended
<1>3. CASE i > Len(a)
  <2>1. i \in Len(a) + 1 .. Len(a) + Len(b) /\ i - Len(a) \in 1 .. Len(b)
    BY <1>1, <1>3
  <2>2. c[i] = b[i - Len(a)]
    BY <1>1, <2>1
  <2> QED
    BY <2>1, <2>2 DEF Appended
<1> QED
  BY <1>1, <1>2, <1>3

\* and what is left of a log has some of its records.
LEMMA AppendedPrefix ==
    ASSUME NEW S, NEW a \in Seq(S), NEW c \in 0 .. Len(a)
    PROVE  Appended(SubSeq(a, 1, c)) \subseteq Appended(a)
<1>1. /\ Len(SubSeq(a, 1, c)) = c /\ c \in Nat /\ Len(a) \in Nat
      /\ \A i \in 1 .. c : SubSeq(a, 1, c)[i] = a[i]
  BY PrefixSeq
<1>2. \A i \in 1 .. c : i \in 1 .. Len(a)
  BY <1>1
<1> QED
  BY <1>1, <1>2 DEF Appended

\* What AddRecord appends, also when it fails, is of its record.
LEMMA AppendedAdd ==
    ASSUME NEW r \in Records, NEW offset \in 0 .. BlockSize, NEW added,
           added = AddRecord(r, DataSize(r.ws), offset) \/ added \in FailedAdds(r, DataSize(r.ws), offset)
    PROVE  Appended(added.bytes) \subseteq {r}
<1> DEFINE size == [q \in {r} |-> Size[r]]
<1>1. size \in [{r} -> Nat] /\ size[r] = DataSize(r.ws)
  BY SizeIs
<1> HIDE DEF size
<1>2. Written(<<>>, Parts({r}, size))
  BY DEF Written
<1>3. added.bytes \in Seq(BytesOf(Parts({r}, size)))
  BY <1>1, <1>2, AddRecordWritten
<1> QED
  BY <1>3, AppendedOf

\* A log is written with parts of the records it has bytes of, so that no other
\* is read from it.
LEMMA AppendedWritten ==
    ASSUME NEW bytes, Written(bytes, LogParts)
    PROVE  /\ Appended(bytes) \in SUBSET Records
           /\ Written(bytes, Parts(Appended(bytes), Size))
<1> DEFINE O == Appended(bytes)
           P == Parts(O, Size)
<1>1. bytes \in Seq(BytesOf(LogParts)) /\ Len(bytes) \in Nat
  BY DEF Written
<1>2. O \in SUBSET Records
  BY <1>1, AppendedOf DEF LogParts
<1>3. \A p \in LogParts : p.of \in O => p \in P
  BY DEF LogParts, Parts, PhysicalsOf
<1>4. ASSUME NEW i \in 1 .. Len(bytes)
      PROVE  bytes[i] \in BytesOf(P)
  <2>1. CASE bytes[i] = ZeroByte
    BY <2>1 DEF BytesOf
  <2>2. CASE bytes[i] # ZeroByte
    <3>1. bytes[i] \in LogParts \X Nat
      BY <1>1, <2>2 DEF BytesOf
    <3>2. bytes[i][1].of \in O
      BY <2>2 DEF Appended
    <3> HIDE DEF O, P
    <3>3. bytes[i][1] \in P
      BY <1>3, <3>1, <3>2
    <3> QED
      BY <3>1, <3>3 DEF BytesOf
  <2> QED
    BY <2>1, <2>2
<1>5. P \subseteq LogParts
  BY <1>2 DEF LogParts, Parts, PhysicalsOf
<1> HIDE DEF O, P
<1>6. bytes \in Seq(BytesOf(P))
  <2>1. bytes = [i \in 1 .. Len(bytes) |-> bytes[i]]
    BY <1>1
  <2> QED
    BY <1>1, <1>4, <2>1
<1>7. ASSUME NEW i \in 1 .. Len(bytes), NEW q \in P, bytes[i] = <<q, 1>>, q.type \in {"middle", "last"}
      PROVE  Preceded(bytes, i, q, P)
  <2>1. Preceded(bytes, i, q, LogParts)
    BY <1>5, <1>7 DEF Written
  <2>2. PICK p \in LogParts, z \in 0 .. HeaderSize - 1 :
          /\ Continues(p, q)
          /\ i - 1 - z \in Nat
          /\ EndsAt(bytes, p, i - 1 - z)
          /\ \A j \in 1 .. z : bytes[i - j] = ZeroByte
    BY <2>1 DEF Preceded
  <2>3. q.of \in O
    BY DEF P, Parts, PhysicalsOf
  <2>4. p \in P
    BY <1>3, <2>2, <2>3 DEF Continues
  <2> QED
    BY <2>2, <2>4 DEF Preceded
<1>8. Written(bytes, P)
  BY <1>6, <1>7 DEF Written
<1> QED
  BY <1>2, <1>8 DEF O, P

\* The records a log gives back are among those it has bytes of.
LEMMA LogRecordsAppended ==
    ASSUME NEW n, Written(logs[n].bytes, LogParts)
    PROVE  LogRecords(n) \in Seq(Appended(logs[n].bytes)) /\ Appended(logs[n].bytes) \in SUBSET Records
  BY AppendedWritten, LogRecordsSeq

\* The records of the logs are records.
LEMMA LogsFromRecords == ASSUME LogsInv, NEW low PROVE LogsFrom(logs, low) \in SUBSET Records
<1>1. \A n \in DOMAIN logs : Appended(logs[n].bytes) \in SUBSET Records
  BY AppendedWritten DEF LogsInv
<1> QED
  BY <1>1 DEF LogsFrom

-----------------------------------------------------------------------------
(* Logs that are written, cut and deleted. *)

\* Logs with the bytes of others, some of them, and of more records.
LogsLess(new, old, more) ==
  \A n \in DOMAIN new :
    Appended(new[n].bytes) \subseteq more \cup IF n \in DOMAIN old THEN Appended(old[n].bytes) ELSE {}

LEMMA LogsFromLess ==
    ASSUME NEW new, NEW old, NEW more, LogsLess(new, old, more), NEW low
    PROVE  LogsFrom(new, low) \subseteq more \cup LogsFrom(old, low)
<1> SUFFICES ASSUME NEW n \in DOMAIN new, n >= low, NEW r \in Appended(new[n].bytes)
             PROVE  r \in more \cup LogsFrom(old, low)
  BY DEF LogsFrom
<1>1. r \in more \cup IF n \in DOMAIN old THEN Appended(old[n].bytes) ELSE {}
  BY DEF LogsLess
<1>2. CASE n \in DOMAIN old
  <2>1. r \in more \cup Appended(old[n].bytes)
    BY <1>1, <1>2
  <2>2. Appended(old[n].bytes) \subseteq LogsFrom(old, low)
    BY <1>2 DEF LogsFrom
  <2> QED
    BY <2>1, <2>2
<1>3. CASE n \notin DOMAIN old
  BY <1>1, <1>3
<1> QED
  BY <1>2, <1>3

LEMMA LogsSame == ASSUME NEW ls PROVE LogsLess(ls, ls, {})
  BY DEF LogsLess

\* The steps that change the logs.
LEMMA AppendLess ==
    ASSUME LogsInv, job.rec \in Records, block_offset \in 0 .. BlockSize,
           NEW added,
           added = AddRecord(job.rec, DataSize(job.rec.ws), block_offset)
             \/ added \in FailedAdds(job.rec, DataSize(job.rec.ws), block_offset),
           logs' = [logs EXCEPT ![logfile].bytes = @ \o added.bytes]
    PROVE  LogsLess(logs', logs, {job.rec})
<1>1. DOMAIN logs' = DOMAIN logs
  OBVIOUS
<1> SUFFICES ASSUME NEW n \in DOMAIN logs
             PROVE  Appended(logs'[n].bytes) \subseteq {job.rec} \cup Appended(logs[n].bytes)
  BY <1>1 DEF LogsLess
<1> DEFINE a == logs[n].bytes
           b == added.bytes
<1>2. logs[n] \in LogFiles /\ a \in Seq(BytesOf(LogParts))
  BY DEF LogsInv, LogFiles
<1>3. logs'[n].bytes = IF n = logfile THEN a \o b ELSE a
  <2> DEFINE new == [logs[n] EXCEPT !.bytes = a \o b]
  <2>1. logs'[n] = IF n = logfile THEN new ELSE logs[n]
    OBVIOUS
  <2>2. new.bytes = a \o b
    BY <1>2 DEF LogFiles
  <2> HIDE DEF new
  <2> QED
    BY <2>1, <2>2
<1>4. Appended(b) \subseteq {job.rec}
  BY AppendedAdd
<1>5. b \in Seq(BytesOf(LogParts))
  <2>1. DataSize(job.rec.ws) = Size[job.rec] /\ Size \in [Records -> Nat]
    BY SizeIs
  <2>2. Written(<<>>, LogParts)
    BY DEF Written
  <2> QED
    BY <2>1, <2>2, AddRecordWritten DEF LogParts
<1> HIDE DEF a, b
<1>6. Appended(a \o b) \subseteq Appended(a) \cup Appended(b)
  BY <1>2, <1>5, AppendedConcat
<1> QED
  BY <1>3, <1>4, <1>6 DEF a

LEMMA SyncLess ==
    ASSUME LogsInv, logs' = [logs EXCEPT ![logfile].synced = Len(logs[logfile].bytes)]
    PROVE  LogsLess(logs', logs, {})
<1>1. DOMAIN logs' = DOMAIN logs
  OBVIOUS
<1>2. ASSUME NEW n \in DOMAIN logs
      PROVE  logs'[n].bytes = logs[n].bytes
  <2> DEFINE k == Len(logs[logfile].bytes)
             new == [logs[n] EXCEPT !.synced = k]
  <2>1. logs'[n] = IF n = logfile THEN new ELSE logs[n]
    OBVIOUS
  <2>2. logs[n] \in LogFiles
    BY DEF LogsInv
  <2> HIDE DEF k
  <2>3. new.bytes = logs[n].bytes
    BY <2>2 DEF LogFiles
  <2> HIDE DEF new
  <2> QED
    BY <2>1, <2>3
<1> QED
  BY <1>1, <1>2 DEF LogsLess

LEMMA CreateLess ==
    ASSUME NEW n, logs' = Created(n, [bytes |-> <<>>, synced |-> 0], logs)
    PROVE  LogsLess(logs', logs, {})
<1> DEFINE new == [bytes |-> <<>>, synced |-> 0]
<1>1. Appended(new.bytes) = {}
  <2>1. new.bytes = <<>> /\ Len(<<>>) = 0
    OBVIOUS
  <2> HIDE DEF new
  <2>2. 1 .. Len(new.bytes) = {}
    BY <2>1
  <2> QED
    BY <2>2 DEF Appended
<1>2. DOMAIN logs' = {n} \cup DOMAIN logs
      /\ \A k \in DOMAIN logs' : logs'[k] = IF k = n THEN new ELSE logs[k]
  BY DEF Created, Over
<1> HIDE DEF new
<1> QED
  BY <1>1, <1>2 DEF LogsLess

LEMMA RestrictLess ==
    ASSUME NEW S, S \subseteq DOMAIN logs, logs' = Restrict(logs, S)
    PROVE  LogsLess(logs', logs, {})
<1>1. DOMAIN logs' = S /\ \A n \in S : logs'[n] = logs[n]
  BY DEF Restrict
<1> QED
  BY <1>1 DEF LogsLess

LEMMA CutLess ==
    ASSUME LogsInv, NEW cut, \A n \in DOMAIN logs : cut[n] \in logs[n].synced .. Len(logs[n].bytes),
           logs' = [n \in DOMAIN logs |-> [bytes |-> SubSeq(logs[n].bytes, 1, cut[n]), synced |-> cut[n]]]
    PROVE  LogsLess(logs', logs, {})
<1>1. ASSUME NEW n \in DOMAIN logs
      PROVE  Appended(logs'[n].bytes) \subseteq Appended(logs[n].bytes)
  <2> DEFINE a == logs[n].bytes
             c == cut[n]
  <2>1. a \in Seq(BytesOf(LogParts)) /\ logs[n].synced \in Nat
    BY DEF LogsInv, LogFiles
  <2>2. c \in 0 .. Len(a) /\ logs'[n].bytes = SubSeq(a, 1, c)
    BY <2>1
  <2> HIDE DEF a, c
  <2>3. Appended(SubSeq(a, 1, c)) \subseteq Appended(a)
    BY <2>1, <2>2, AppendedPrefix
  <2> QED
    BY <2>2, <2>3 DEF a
<1>2. DOMAIN logs' = DOMAIN logs
  OBVIOUS
<1> QED
  BY <1>1, <1>2 DEF LogsLess

-----------------------------------------------------------------------------
(* Tables, and the cuts of a MANIFEST. *)

\* Tables with less in those that were synced.
TablesLess(us, ts) == \A n \in DOMAIN ts \cap DOMAIN us : ts[n].synced => us[n].recs \subseteq ts[n].recs

LEMMA RecsOfLess ==
    ASSUME NEW us, NEW ts, TablesLess(us, ts), NEW files, Held(ts, files)
    PROVE  RecsOf(us, files) \subseteq RecsOf(ts, files)
<1>1. \A n \in Numbers(files) \cap DOMAIN us : n \in DOMAIN ts /\ us[n].recs \subseteq ts[n].recs
  BY DEF Held, TablesLess
<1> QED
  BY <1>1 DEF RecsOf

\* The tables of the versions of a MANIFEST have less.
CutsLess(us, ts, m) ==
  \A k \in m.synced .. Len(m.edits) : RecsOf(us, VersionAt(m, k).files) \subseteq RecsOf(ts, VersionAt(m, k).files)

LEMMA TablesCutsLess ==
    ASSUME NEW us, NEW ts, TablesLess(us, ts), NEW m, Recoverable(ts, m)
    PROVE  CutsLess(us, ts, m)
<1>1. \A k \in m.synced .. Len(m.edits) : Held(ts, VersionAt(m, k).files)
  BY DEF Recoverable, VersionAt
<1> QED
  BY <1>1, RecsOfLess DEF CutsLess

LEMMA RecsOfTables == ASSUME NEW ts, NEW files PROVE RecsOf(ts, files) \subseteq TableRecs(ts)
  BY DEF RecsOf, TableRecs

\* A MANIFEST that was synced or cut.
LessCut(m2, m) ==
  \A k \in m2.synced .. Len(m2.edits) :
    k \in m.synced .. Len(m.edits) /\ SubSeq(m2.edits, 1, k) = SubSeq(m.edits, 1, k)

LEMMA SyncedCut ==
    ASSUME NEW m \in Manifests
    PROVE  LessCut([edits |-> m.edits, synced |-> Len(m.edits)], m)
<1> DEFINE s == m.edits
<1>1. Len(s) \in Nat /\ m.synced \in Nat /\ m.synced <= Len(s)
  BY DEF Manifests
<1> HIDE DEF s
<1>2. \A k \in Len(s) .. Len(s) : k \in m.synced .. Len(s)
  BY <1>1
<1>3. LessCut([edits |-> s, synced |-> Len(s)], m)
  BY <1>2 DEF LessCut, s
<1> QED
  BY <1>3 DEF s

LEMMA ShorterCut ==
    ASSUME NEW m \in Manifests, NEW c \in m.synced .. Len(m.edits)
    PROVE  LessCut([edits |-> SubSeq(m.edits, 1, c), synced |-> c], m)
<1> DEFINE s == m.edits
           t == SubSeq(s, 1, c)
<1>1. s \in Seq(EditRecords) /\ c \in 0 .. Len(s) /\ Len(s) \in Nat
  BY DEF Manifests
<1>2. Len(t) = c /\ SubSeq(t, 1, c) = SubSeq(s, 1, c)
  <2>1. c \in 0 .. c /\ Len(t) = c
    BY <1>1
  <2> HIDE DEF s
  <2> QED
    BY <1>1, <2>1, PrefixTwice
<1>3. c \in m.synced .. Len(s)
  OBVIOUS
<1> HIDE DEF s, t
<1>4. \A k \in c .. Len(t) : k = c
  BY <1>1, <1>2
<1>5. LessCut([edits |-> t, synced |-> c], m)
  BY <1>2, <1>3, <1>4 DEF LessCut, s
<1> QED
  BY <1>5 DEF t, s

LEMMA SameCut == ASSUME NEW m PROVE LessCut(m, m)
  BY DEF LessCut

\* What cuts say is kept with less in the tables, and of a MANIFEST that is synced or cut,
LEMMA CutsKept ==
    ASSUME NEW m \in Manifests, NEW m2 \in Manifests, NEW ts, NEW us,
           SoundCuts(ts, m), CutsLess(us, ts, m), LessCut(m2, m)
    PROVE  SoundCuts(us, m2)
<1>1. /\ m.synced \in Nat /\ m2.synced \in Nat /\ Len(m.edits) \in Nat /\ Len(m2.edits) \in Nat
  BY DEF Manifests
<1> SUFFICES ASSUME NEW k \in m2.synced .. Len(m2.edits)
             PROVE  /\ Below(RecsOf(us, VersionAt(m2, k).files), VersionAt(m2, k).last)
                    /\ VersionAt(m2, k).log <= VersionAt(m2, k).next
                    /\ \A j \in k .. Len(m2.edits) :
                         \A n \in Numbers(VersionAt(m2, k).files) : n < VersionAt(m2, j).next
  BY DEF SoundCuts
<1>2. \A j \in k .. Len(m2.edits) :
        j \in k .. Len(m.edits) /\ VersionAt(m2, j) = VersionAt(m, j)
  <2> SUFFICES ASSUME NEW j \in k .. Len(m2.edits)
               PROVE  j \in k .. Len(m.edits) /\ VersionAt(m2, j) = VersionAt(m, j)
    OBVIOUS
  <2>1. j \in m2.synced .. Len(m2.edits)
    BY <1>1
  <2>2. j \in m.synced .. Len(m.edits) /\ SubSeq(m2.edits, 1, j) = SubSeq(m.edits, 1, j)
    BY <2>1 DEF LessCut
  <2>3. j \in k .. Len(m.edits)
    BY <1>1, <2>1, <2>2
  <2> QED
    BY <2>2, <2>3 DEF VersionAt
<1>3. k \in m.synced .. Len(m.edits) /\ VersionAt(m2, k) = VersionAt(m, k)
  BY DEF LessCut, VersionAt
<1> DEFINE v == VersionAt(m, k)
<1>4. /\ Below(RecsOf(ts, v.files), v.last)
      /\ v.log <= v.next
      /\ \A j \in k .. Len(m.edits) : \A n \in Numbers(v.files) : n < VersionAt(m, j).next
  BY <1>3 DEF SoundCuts
<1>5. RecsOf(us, v.files) \subseteq RecsOf(ts, v.files)
  BY <1>3 DEF CutsLess
<1> HIDE DEF v
<1>6. Below(RecsOf(us, v.files), v.last)
  BY <1>4, <1>5, BelowLess
<1> QED
  BY <1>2, <1>3, <1>4, <1>6 DEF v

\* and with less in the logs.
LEMMA ApartKept ==
    ASSUME NEW m, NEW m2, NEW ts, NEW us, NEW ls, NEW ls2,
           ApartCuts(ts, ls, m), CutsLess(us, ts, m), LogsLess(ls2, ls, {}), LessCut(m2, m)
    PROVE  ApartCuts(us, ls2, m2)
<1> SUFFICES ASSUME NEW k \in m2.synced .. Len(m2.edits)
             PROVE  Apart(RecsOf(us, VersionAt(m2, k).files) \cup LogsFrom(ls2, VersionAt(m2, k).log))
  BY DEF ApartCuts
<1>1. k \in m.synced .. Len(m.edits) /\ VersionAt(m2, k) = VersionAt(m, k)
  BY DEF LessCut, VersionAt
<1> DEFINE v == VersionAt(m, k)
<1>2. Apart(RecsOf(ts, v.files) \cup LogsFrom(ls, v.log))
  BY <1>1 DEF ApartCuts
<1>3. RecsOf(us, v.files) \subseteq RecsOf(ts, v.files)
  BY <1>1 DEF CutsLess
<1> HIDE DEF v
<1>4. LogsFrom(ls2, v.log) \subseteq LogsFrom(ls, v.log)
  BY LogsFromLess
<1>5. Apart(RecsOf(us, v.files) \cup LogsFrom(ls2, v.log))
  BY <1>2, <1>3, <1>4, ApartLess
<1> QED
  BY <1>1, <1>5 DEF v

\* A record more: of an edit made of the tables as they are, or torn.
LEMMA AppendCuts ==
    ASSUME NEW m \in Manifests, NEW ts, SoundCuts(ts, m), Recoverable(ts, m), NEW e \in EditRecords,
           e # Nothing => /\ Held(ts, e.add) /\ \A n \in DOMAIN ts : n < e.next
                          /\ Below(TableRecs(ts), e.last) /\ e.log <= e.next
    PROVE  SoundCuts(ts, [edits |-> Append(m.edits, e), synced |-> m.synced])
<1> DEFINE s == m.edits
           more == Append(s, e)
           m2 == [edits |-> more, synced |-> m.synced]
           n == Len(s)
<1>1. s \in Seq(EditRecords) /\ n \in Nat /\ m.synced \in Nat /\ m.synced <= n
  BY DEF Manifests
<1>2. more \in Seq(EditRecords) /\ Len(more) = n + 1
  BY <1>1
<1>3. Recoverable(ts, m2)
  BY AppendRecoverable
<1>4. VersionAt(m, n) = Replayed(s) /\ VersionAt(m2, n + 1) = ApplyEdit(Replayed(s), e)
  <2>1. SubSeq(s, 1, n) = s /\ SubSeq(more, 1, n + 1) = more
    BY <1>1, <1>2, WholeSeq
  <2>2. Replayed(more) = ApplyEdit(Replayed(s), e)
    BY <1>1, ReplayedAppend
  <2> HIDE DEF more, s, n
  <2> QED
    BY <2>1, <2>2 DEF VersionAt, s
<1>5. \A k \in m.synced .. n : VersionAt(m2, k) = VersionAt(m, k)
  <2> SUFFICES ASSUME NEW k \in m.synced .. n PROVE VersionAt(m2, k) = VersionAt(m, k)
    OBVIOUS
  <2>1. k \in 0 .. Len(s)
    BY <1>1
  <2>2. SubSeq(more, 1, k) = SubSeq(s, 1, k)
    BY <1>1, <2>1, PrefixOfAppend
  <2> HIDE DEF more, s
  <2> QED
    BY <2>2 DEF VersionAt, s
<1> DEFINE A(k) == VersionAt(m, k)
           B(k) == VersionAt(m2, k)
<1>6. ASSUME NEW k \in m.synced .. n
      PROVE  /\ Below(RecsOf(ts, A(k).files), A(k).last) /\ A(k).log <= A(k).next
             /\ \A j \in k .. n : \A f \in Numbers(A(k).files) : f < A(j).next
  BY DEF SoundCuts
<1>7. ASSUME NEW k \in m.synced .. n + 1
      PROVE  Held(ts, B(k).files)
  <2>1. m2.synced = m.synced /\ Len(m2.edits) = n + 1
    BY <1>2
  <2> QED
    BY <1>3, <2>1 DEF Recoverable, VersionAt
<1> HIDE DEF A, B, m2, more, s
<1>8. n \in m.synced .. n /\ \A k \in m.synced .. n + 1 : k \in m.synced .. n \/ k = n + 1
  BY <1>1
<1>9. e = Nothing => B(n + 1) = A(n)
  BY <1>4 DEF ApplyEdit, A, B
<1>10. e # Nothing => B(n + 1).next = e.next /\ B(n + 1).last = e.last /\ B(n + 1).log = e.log
  BY <1>4 DEF ApplyEdit, B
<1>11. \A k \in m.synced .. n : B(k) = A(k)
  BY <1>5 DEF A, B
<1>12. ASSUME NEW k \in m.synced .. n + 1
       PROVE  Below(RecsOf(ts, B(k).files), B(k).last) /\ B(k).log <= B(k).next
  <2>1. CASE k \in m.synced .. n
    BY <2>1, <1>6, <1>11
  <2>2. CASE k = n + 1 /\ e = Nothing
    BY <2>2, <1>6, <1>8, <1>9
  <2>3. CASE k = n + 1 /\ e # Nothing
    <3>1. Below(RecsOf(ts, B(k).files), e.last)
      BY <2>3, RecsOfTables, BelowLess
    <3> QED
      BY <2>3, <3>1, <1>10
  <2> QED
    BY <2>1, <2>2, <2>3, <1>8
<1>13. ASSUME NEW k \in m.synced .. n + 1, NEW j \in k .. n + 1, NEW f \in Numbers(B(k).files)
       PROVE  f < B(j).next
  <2>1. j \in m.synced .. n + 1
    BY <1>1
  <2>2. CASE j \in m.synced .. n
    <3>1. k \in m.synced .. n /\ j \in k .. n
      BY <2>2, <1>1
    <3> QED
      BY <2>2, <3>1, <1>6, <1>11
  <2>3. CASE j = n + 1 /\ e = Nothing
    <3>1. PICK i \in m.synced .. n : B(k) = A(i)
      BY <1>8, <1>9, <1>11, <2>3
    <3>2. n \in i .. n
      BY <1>1
    <3> QED
      BY <3>1, <3>2, <2>3, <1>6, <1>9
  <2>4. CASE j = n + 1 /\ e # Nothing
    <3>1. f \in DOMAIN ts
      BY <1>7 DEF Held
    <3> QED
      BY <3>1, <2>4, <1>10
  <2> QED
    BY <2>1, <2>2, <2>3, <2>4, <1>8
<1>14. m2.synced = m.synced /\ Len(m2.edits) = n + 1
  BY <1>2 DEF m2
<1>15. SoundCuts(ts, m2)
  BY <1>12, <1>13, <1>14 DEF SoundCuts, B
<1> QED
  BY <1>15 DEF m2, more, s

\* A MANIFEST of one record.
LEMMA SingleCuts ==
    ASSUME NEW e \in Edits, NEW ts, NEW ls
    PROVE  LET m == [edits |-> <<e>>, synced |-> 1]
           IN  /\ Below(RecsOf(ts, e.add), e.last) /\ e.log <= e.next /\ (\A n \in Numbers(e.add) : n < e.next)
                    => SoundCuts(ts, m)
               /\ Apart(RecsOf(ts, e.add) \cup LogsFrom(ls, e.log)) => ApartCuts(ts, ls, m)
<1> DEFINE s == <<e>>
           m == [edits |-> s, synced |-> 1]
<1>1. Len(s) = 1
  OBVIOUS
<1>2. LET v == VersionAt(m, 1)
      IN  v.files = e.add /\ v.log = e.log /\ v.next = e.next /\ v.last = e.last
  BY SingleIs DEF VersionAt
<1> HIDE DEF s
<1>3. \A k \in m.synced .. Len(m.edits) : k = 1 /\ \A j \in k .. Len(m.edits) : j = 1
  BY <1>1
<1> HIDE DEF m
<1>4. Below(RecsOf(ts, e.add), e.last) /\ e.log <= e.next /\ (\A n \in Numbers(e.add) : n < e.next)
        => SoundCuts(ts, m)
  BY <1>2, <1>3 DEF SoundCuts
<1>5. Apart(RecsOf(ts, e.add) \cup LogsFrom(ls, e.log)) => ApartCuts(ts, ls, m)
  BY <1>2, <1>3 DEF ApartCuts
<1> QED
  BY <1>4, <1>5 DEF m, s

\* The version a MANIFEST ends with.
LEMMA CutsLast ==
    ASSUME NEW m \in Manifests, NEW ts, NEW ls, SoundCuts(ts, m), ApartCuts(ts, ls, m)
    PROVE  LET v == Replayed(m.edits)
           IN  /\ Below(RecsOf(ts, v.files), v.last) /\ v.log <= v.next
               /\ \A k \in m.synced .. Len(m.edits) : \A n \in Numbers(VersionAt(m, k).files) : n < v.next
               /\ Apart(RecsOf(ts, v.files) \cup LogsFrom(ls, v.log))
<1> DEFINE s == m.edits
           n == Len(s)
<1>1. s \in Seq(EditRecords) /\ n \in Nat /\ m.synced \in Nat /\ m.synced <= n
  BY DEF Manifests
<1>2. VersionAt(m, n) = Replayed(s)
  BY <1>1, WholeSeq DEF VersionAt
<1>3. n \in m.synced .. n /\ \A k \in m.synced .. n : n \in k .. n
  BY <1>1
<1> QED
  BY <1>2, <1>3 DEF SoundCuts, ApartCuts

-----------------------------------------------------------------------------
(* What recovery makes of the logs. *)

\* The tables that were made of the logs up to k: each has a number above those
\* that the MANIFEST knows, records of the logs, and none above the last number;
\* and they hold all the reader returns of the logs.
Remade(v, k) ==
  { r \in Recovered(v.next) :
      /\ v.last <= r.last
      /\ \A t \in DOMAIN r.made : /\ v.next < t
                                  /\ r.made[t].recs \subseteq LogsFrom(logs, v.log)
                                  /\ Below(r.made[t].recs, r.last)
      /\ \A n \in DOMAIN logs :
           v.log <= n /\ n <= k => n < r.next /\ Readable(logs[n].bytes) \subseteq TableRecs(r.made) }

\* The memtables of a log hold its records.
LEMMA LogMakes ==
    ASSUME LogsInv, NEW n \in DOMAIN logs
    PROVE  LET recs == LogRecords(n)
               ms == MemTables(recs)
           IN  /\ recs \in Seq(Records) /\ Len(ms) \in Nat /\ MaxSequence(recs) \in Nat
               /\ \A i \in 1 .. Len(ms) : /\ ms[i] \in SUBSET Records
                                          /\ ms[i] \subseteq Appended(logs[n].bytes)
                                          /\ Below(ms[i], MaxSequence(recs))
               /\ \A r \in Readable(logs[n].bytes) : \E i \in 1 .. Len(ms) : r \in ms[i]
<1> DEFINE O == Appended(logs[n].bytes)
           recs == LogRecords(n)
           R == Range(recs)
           ms == MemTables(recs)
<1>1. recs \in Seq(O) /\ O \in SUBSET Records
  BY LogRecordsAppended DEF LogsInv
<1>9. \A r \in Readable(logs[n].bytes) : \E j \in 1 .. Len(recs) : recs[j] = r
  BY LogRecordsAll DEF LogsInv
<1> HIDE DEF recs, O
<1>2. recs \in Seq(Records)
  BY <1>1
<1>3. /\ MaxSequence(recs) \in Nat
      /\ \A i \in 1 .. Len(recs) : recs[i].seq + Len(recs[i].ws) - 1 <= MaxSequence(recs)
  BY <1>2, MaxSequenceNat
<1>4. /\ recs \in Seq(R) /\ R \subseteq O
      /\ \A q \in R : \E i \in 1 .. Len(recs) : q = recs[i]
  BY <1>1 DEF Range
<1> HIDE DEF R
<1>5. ms \in Seq(SUBSET R) /\ \A j \in 1 .. Len(recs) : \E i \in 1 .. Len(ms) : recs[j] \in ms[i]
  BY <1>4, MemTablesSeq
<1> HIDE DEF ms
<1>10. \A r \in Readable(logs[n].bytes) : \E i \in 1 .. Len(ms) : r \in ms[i]
  BY <1>5, <1>9
<1>6. Len(ms) \in Nat /\ \A i \in 1 .. Len(ms) : ms[i] \subseteq R
  BY <1>5
<1>7. Below(R, MaxSequence(recs))
  BY <1>3, <1>4 DEF Below
<1>8. \A i \in 1 .. Len(ms) : Below(ms[i], MaxSequence(recs))
  BY <1>6, <1>7, BelowLess
<1> QED
  BY <1>1, <1>2, <1>3, <1>4, <1>6, <1>8, <1>10 DEF ms, recs, O

\* One log more.
LEMMA RecoverLogMakes ==
    ASSUME LogsInv, NEW v \in Versions, NEW k \in Nat, k \in DOMAIN logs, v.log <= k,
           NEW r \in Remade(v, k - 1)
    PROVE  RecoverLog(r, k) \in Remade(v, k)
<1> DEFINE recs == LogRecords(k)
           ms == MemTables(recs)
           top == MaxSequence(recs)
           after == r.next + Len(ms)
           table == [t \in r.next .. after - 1 |-> [recs |-> ms[t - r.next + 1], synced |-> TRUE]]
           q == RecoverLog(r, k)
<1>1. q \in Recovered(v.next)
  <2>1. r \in Recovered(v.next) /\ v.next \in Nat /\ Written(logs[k].bytes, LogParts)
    BY DEF Remade, Versions, LogsInv
  <2> QED
    BY <2>1, RecoverLogIs
<1>2. /\ Len(ms) \in Nat /\ top \in Nat
      /\ \A i \in 1 .. Len(ms) : /\ ms[i] \in SUBSET Records
                                 /\ ms[i] \subseteq Appended(logs[k].bytes)
                                 /\ Below(ms[i], top)
      /\ \A x \in Readable(logs[k].bytes) : \E i \in 1 .. Len(ms) : x \in ms[i]
  BY LogMakes
<1>3. /\ q.next = IF after <= k THEN k + 1 ELSE after
      /\ q.made = Over(r.made, table)
      /\ q.last = Max({r.last, top})
  BY DEF RecoverLog
<1> HIDE DEF q, recs, ms, top
<1>4. /\ r.next \in Nat /\ r.last \in Nat /\ v.last \in Nat /\ v.next \in Nat /\ v.next < r.next
      /\ v.last <= r.last /\ r.made \in MadeTables
      /\ \A t \in DOMAIN r.made : /\ v.next < t
                                  /\ r.made[t].recs \subseteq LogsFrom(logs, v.log)
                                  /\ t < r.next /\ Below(r.made[t].recs, r.last)
      /\ \A n \in DOMAIN logs :
           v.log <= n /\ n <= k - 1 => n < r.next /\ Readable(logs[n].bytes) \subseteq TableRecs(r.made)
  BY DEF Remade, Recovered, Versions
<1>5. q.last \in Nat /\ r.last <= q.last /\ top <= q.last
  BY <1>2, <1>3, <1>4, MaxOfTwo
<1>6. v.last <= q.last
  BY <1>4, <1>5
<1>7. after \in Nat /\ r.next <= after /\ r.next <= q.next /\ k < q.next
  BY <1>2, <1>3, <1>4
<1>8. Appended(logs[k].bytes) \subseteq LogsFrom(logs, v.log)
  <2>1. k >= v.log
    BY DEF Versions
  <2> QED
    BY <2>1 DEF LogsFrom
<1>9. ASSUME NEW t \in DOMAIN q.made
      PROVE  /\ v.next < t
             /\ q.made[t].recs \subseteq LogsFrom(logs, v.log)
             /\ Below(q.made[t].recs, q.last)
  <2>1. CASE t \in DOMAIN r.made
    <3>1. q.made[t] = r.made[t]
      BY <1>3, <2>1 DEF Over
    <3>2. r.made[t].recs \in SUBSET Records
      BY <1>4, <2>1, MadeIs
    <3>3. Below(r.made[t].recs, q.last)
      BY <2>1, <3>2, <1>4, <1>5, BelowMore
    <3> QED
      BY <2>1, <3>1, <3>3, <1>4
  <2>2. CASE t \notin DOMAIN r.made
    <3>1. t \in r.next .. after - 1 /\ q.made[t] = table[t]
      BY <1>3, <2>2 DEF Over
    <3> DEFINE i == t - r.next + 1
    <3>a. r.next \in Nat /\ v.next \in Nat /\ v.next < r.next /\ Len(ms) \in Nat
      BY <1>2, <1>4
    <3>b. t \in r.next .. after - 1
      BY <3>1
    <3>2. i \in 1 .. Len(ms) /\ v.next < t
      BY <3>a, <3>b
    <3>3. q.made[t].recs = ms[i]
      BY <3>1
    <3> HIDE DEF i
    <3>4. Below(ms[i], q.last)
      BY <3>2, <1>2, <1>5, BelowMore
    <3> QED
      BY <3>2, <3>3, <3>4, <1>2, <1>8
  <2> QED
    BY <2>1, <2>2
<1>12. TableRecs(r.made) \subseteq TableRecs(q.made)
  BY <1>3 DEF TableRecs, Over
<1>13. Readable(logs[k].bytes) \subseteq TableRecs(q.made)
  <2> SUFFICES ASSUME NEW x \in Readable(logs[k].bytes) PROVE x \in TableRecs(q.made)
    OBVIOUS
  <2>1. PICK i \in 1 .. Len(ms) : x \in ms[i]
    BY <1>2
  <2> DEFINE t == r.next + i - 1
  <2>2. t \in r.next .. after - 1 /\ t - r.next + 1 = i /\ ~(t < r.next)
    BY <1>2, <1>4
  <2>3. t \notin DOMAIN r.made
    BY <2>2, <1>4
  <2>4. t \in DOMAIN table /\ table[t].recs = ms[i]
    BY <2>2
  <2> HIDE DEF t, table
  <2>5. t \in DOMAIN q.made /\ q.made[t] = table[t]
    BY <2>3, <2>4, <1>3 DEF Over
  <2> QED
    BY <2>1, <2>4, <2>5 DEF TableRecs
<1>10. ASSUME NEW n \in DOMAIN logs, v.log <= n, n <= k
       PROVE  n < q.next /\ Readable(logs[n].bytes) \subseteq TableRecs(q.made)
  <2>1. n \in Nat /\ q.next \in Nat
    BY <1>1 DEF LogsInv, Recovered
  <2>2. CASE n = k
    BY <2>2, <1>7, <1>13
  <2>3. CASE n # k
    <3>1. n <= k - 1
      BY <2>1, <2>3, <1>10
    <3>2. n < r.next /\ Readable(logs[n].bytes) \subseteq TableRecs(r.made)
      BY <3>1, <1>4, <1>10
    <3> QED
      BY <2>1, <3>2, <1>4, <1>7, <1>12
  <2> QED
    BY <2>2, <2>3
<1>11. q \in Remade(v, k)
  BY <1>1, <1>6, <1>9, <1>10 DEF Remade
<1> QED
  BY <1>11 DEF q

\* All logs: none has the number of one that recovery creates.
LEMMA RecoverLogsMake ==
    ASSUME LogsInv, NEW v \in Versions, v.log <= v.next
    PROVE  LET r == RecoverLogs(v)
           IN  /\ v.last <= r.last
               /\ \A t \in DOMAIN r.made : /\ v.next < t
                                           /\ r.made[t].recs \subseteq LogsFrom(logs, v.log)
                                           /\ Below(r.made[t].recs, r.last)
               /\ \A n \in DOMAIN logs : n < r.next /\ (v.log <= n => Readable(logs[n].bytes) \subseteq TableRecs(r.made))
<1>1. PICK r, newest : RecoveryOf(v, r, newest)
  BY RecoverLogsLoop
<1>2. newest \in Nat /\ (\A n \in DOMAIN logs : n <= newest) /\ RecoverLogs(v) = r[newest]
      /\ \A k \in 0 .. newest : r[k] \in Recovered(v.next)
  BY <1>1 DEF RecoveryOf
<1>3. v.next \in Nat /\ v.last \in Nat /\ v.log \in Nat /\ DOMAIN logs \in SUBSET Nat /\ 0 \notin DOMAIN logs
  BY DEF Versions, LogsInv
<1> DEFINE V == { k \in 0 .. newest : r[k] \in Remade(v, k) }
           g == [k \in 0 .. newest |-> k]
<1>4. g[0] \in V
  <2>1. r[0] \in Recovered(v.next) /\ 0 \in 0 .. newest
    BY <1>2
  <2>2. r[0] = [next |-> v.next + 1, made |-> [t \in {} |-> Nothing], last |-> v.last]
    BY <1>1 DEF RecoveryOf
  <2>3. r[0].last = v.last /\ DOMAIN r[0].made = {} /\ r[0].next = v.next + 1
    BY <2>2
  <2>4. \A n \in DOMAIN logs :
          v.log <= n /\ n <= 0 => n < r[0].next /\ Readable(logs[n].bytes) \subseteq TableRecs(r[0].made)
    BY <1>3
  <2>5. r[0] \in Remade(v, 0)
    BY <2>1, <2>3, <2>4, <1>3 DEF Remade
  <2> QED
    BY <2>1, <2>5
<1>5. ASSUME NEW k \in 1 .. newest, g[k - 1] \in V
      PROVE  g[k] \in V
  <2>1. k \in Nat /\ k \in 0 .. newest /\ k - 1 \in 0 .. newest
    BY <1>2
  <2>2. r[k - 1] \in Remade(v, k - 1)
    BY <2>1, <1>5
  <2>3. r[k] = IF k \in DOMAIN logs /\ k >= v.log THEN RecoverLog(r[k - 1], k) ELSE r[k - 1]
    BY <1>1 DEF RecoveryOf
  <2>4. r[k] \in Remade(v, k)
    <3>1. CASE k \in DOMAIN logs /\ k >= v.log
      <4>1. v.log <= k
        BY <3>1, <1>3
      <4> QED
        BY <2>1, <2>2, <2>3, <3>1, <4>1, RecoverLogMakes
    <3>2. CASE ~(k \in DOMAIN logs /\ k >= v.log)
      <4>1. r[k] = r[k - 1]
        BY <2>3, <3>2
      <4>2. \A n \in DOMAIN logs : v.log <= n /\ n <= k => n <= k - 1
        BY <2>1, <3>2, <1>3
      <4> QED
        BY <2>2, <4>1, <4>2 DEF Remade
    <3> QED
      BY <3>1, <3>2
  <2> QED
    BY <2>1, <2>4
<1> HIDE DEF V
<1>6. \A k \in 0 .. newest : g[k] \in V
  BY <1>2, <1>4, <1>5, LoopStays
<1>7. r[newest] \in Remade(v, newest)
  <2>1. newest \in 0 .. newest
    BY <1>2
  <2> QED
    BY <2>1, <1>6 DEF V
<1>8. \A n \in DOMAIN logs :
        n < r[newest].next /\ (v.log <= n => Readable(logs[n].bytes) \subseteq TableRecs(r[newest].made))
  <2> SUFFICES ASSUME NEW n \in DOMAIN logs
               PROVE  n < r[newest].next /\ (v.log <= n => Readable(logs[n].bytes) \subseteq TableRecs(r[newest].made))
    OBVIOUS
  <2>1. n <= newest /\ n \in Nat
    BY <1>2, <1>3
  <2>2. CASE v.log <= n
    BY <2>1, <2>2, <1>7 DEF Remade
  <2>3. CASE ~(v.log <= n)
    <3>1. v.next < r[newest].next /\ r[newest].next \in Nat
      BY <1>7 DEF Remade, Recovered
    <3> QED
      BY <2>1, <2>3, <3>1, <1>3
  <2> QED
    BY <2>2, <2>3
<1> QED
  BY <1>2, <1>7, <1>8 DEF Remade

-----------------------------------------------------------------------------
(* The records in the steps of an open store. *)

\* What such a step has to keep.
LEMMA UpFresh ==
    ASSUME phase' = "up", RecordsInv', CutsInv', StoredInv', EditFresh', OutFresh'
    PROVE  FreshInv'
  BY DEF FreshInv, DownInv, BegunInv

\* All records of the store are records.
LEMMA StoredRecords ==
    ASSUME StoreInv, RecordsInv
    PROVE  Stored \in SUBSET Records
<1>1. LogsFrom(logs, 0) \in SUBSET Records
  BY LogsFromRecords DEF StoreInv
<1> QED
  BY <1>1 DEF RecordsInv, Stored

\* A step that makes no record.
LEMMA StoredLess ==
    ASSUME StoreInv, RecordsInv, StoredInv, phase = "up",
           InMemory' \cup TableRecs(tables') \subseteq InMemory \cup TableRecs(tables),
           LogsLess(logs', logs, {}) \/ (LogsLess(logs', logs, {job.rec}) /\ job.stage # "none"),
           last_sequence' = last_sequence,
           \/ UNCHANGED <<job.stage, job.rec>>
           \/ job.stage # "none" /\ job'.stage # "none" /\ job'.rec = job.rec
           \/ job.stage = "none" /\ (job'.stage # "none" => job'.rec.seq = last_sequence + 1)
    PROVE  RecordsInv' /\ StoredInv'
<1>1. InFlight \subseteq InFlight'
  BY DEF InFlight
<1>2. LogsFrom(logs', 0) \subseteq InFlight \cup LogsFrom(logs, 0)
  <2>1. CASE LogsLess(logs', logs, {})
    BY <2>1, LogsFromLess
  <2>2. CASE LogsLess(logs', logs, {job.rec}) /\ job.stage # "none"
    BY <2>2, LogsFromLess DEF InFlight
  <2> QED
    BY <2>1, <2>2
<1>3. Stored' \subseteq Stored
  BY <1>1, <1>2 DEF Stored
<1>4. Below(Stored', last_sequence) /\ Apart(Stored')
  BY <1>3, BelowLess, ApartLess DEF StoredInv
<1>5. job'.stage # "none" => job'.rec.seq = last_sequence + 1
  BY DEF StoredInv
<1>6. StoredInv'
  BY <1>4, <1>5 DEF StoredInv
<1> QED
  BY <1>6 DEF RecordsInv

\* A step that leaves the MANIFEST alone.
LEMMA CutsStay ==
    ASSUME StoreInv, FilesInv, CutsInv, TablesLess(tables', tables), current \in DOMAIN manifests,
           manifests'[current'] = manifests[current]
    PROVE  CutsInv'
<1> DEFINE m == manifests[current]
<1>1. m \in Manifests /\ Recoverable(tables, m) /\ SoundCuts(tables, m)
  BY DEF StoreInv, ManifestsInv, FilesInv, DiskInv, CutsInv
<1> HIDE DEF m
<1>2. CutsLess(tables', tables, m) /\ LessCut(m, m)
  BY <1>1, TablesCutsLess, SameCut
<1>3. SoundCuts(tables', m)
  BY <1>1, <1>2, CutsKept
<1> QED
  BY <1>3 DEF CutsInv, m

LEMMA TablesSame == ASSUME NEW ts PROVE TablesLess(ts, ts)
  BY DEF TablesLess

\* A step that touches neither the tables nor the MANIFEST, nor what the background does.
LEMMA FreshStay ==
    ASSUME StoreInv, FilesInv, FreshInv, phase = "up", RecordsInv', StoredInv',
           UNCHANGED <<phase, tables, manifests, current, log_number, bg>>,
           (logfile' = logfile /\ next_file' = next_file) \/ (logfile' = next_file /\ next_file' = next_file + 1)
    PROVE  FreshInv'
<1>1. CutsInv'
  <2>1. TablesLess(tables', tables)
    BY TablesSame
  <2> QED
    BY <2>1, CutsStay DEF FreshInv, StoreInv, ManifestsInv
<1>2. OutFresh'
  BY DEF FreshInv, OutFresh
<1>3. EditFresh'
  <2>1. next_file \in Nat /\ logfile \in Nat /\ log_number \in Nat
    BY DEF StoreInv, NumbersInv
  <2>2. bg.stage \in {"manifest", "sync"} => bg.edit.next \in Nat
    BY DEF StoreInv, BgInv, Edits
  <2> QED
    BY <2>1, <2>2 DEF FreshInv, EditFresh
<1> QED
  BY <1>1, <1>2, <1>3, UpFresh

\* Who leads has not begun to write.
LEMMA LeadsIdle ==
    ASSUME QueueInv, NEW w \in Writes, Leads(w)
    PROVE  phase = "up" /\ job.stage = "none"
<1>1. phase = "up" /\ writers # <<>> /\ Head(writers) = w /\ pc[w] = "queued"
  BY DEF Leads
<1>2. writers[1] = w
  BY <1>1 DEF QueueInv, TypeOK
<1> QED
  BY <1>1, <1>2 DEF QueueInv, QueueOK

\* The calls.
LEMMA CallsFresh ==
    ASSUME QueueInv, StoreInv, FilesInv, FreshInv, NEW w \in Writes, Write(w) \/ LeadWrite(w)
    PROVE  FreshInv'
<1> DEFINE Started == job'.stage # "none" => job'.rec.seq = last_sequence + 1
<1>1. ASSUME NEW ws, NEW answer, Finish(ws, answer) PROVE Started
  BY <1>1, FinishStore
<1>2. StartGroup(w) => Started
  BY DEF StartGroup
<1>3. CASE SwitchMem(w)
  <2>1. /\ phase = "up" /\ job.stage = "none"
        /\ logs' = Created(next_file, [bytes |-> <<>>, synced |-> 0], logs)
        /\ logfile' = next_file /\ next_file' = next_file + 1
        /\ imm' = mem /\ mem' = {}
        /\ UNCHANGED <<phase, tables, manifests, current, log_number, last_sequence, bg>>
    BY <1>3, LeadsIdle DEF SwitchMem
  <2>2. Started
    BY <1>1, <1>2, <1>3 DEF SwitchMem
  <2>3. InMemory' \cup TableRecs(tables') \subseteq InMemory \cup TableRecs(tables)
    BY <2>1 DEF InMemory
  <2>4. LogsLess(logs', logs, {})
    BY <2>1, CreateLess
  <2>5. RecordsInv' /\ StoredInv'
    BY <2>1, <2>2, <2>3, <2>4, StoredLess DEF FreshInv
  <2> QED
    BY <2>1, <2>5, FreshStay
<1>4. CASE Write(w) \/ RefuseWrite(w) \/ WaitForRoom(w) \/ WriteToMem(w) \/ NoNewLog(w)
  <2> DEFINE Stay == UNCHANGED <<phase, tables, manifests, current, log_number, bg, logfile, next_file, mem, imm,
                                 logs, last_sequence>>
  <2>1. Stay /\ phase = "up" /\ (job' = job \/ (job.stage = "none" /\ Started))
    <3>1. CASE Write(w)
      BY <3>1 DEF Write, memVars, versionVars, bgVars, diskVars
    <3>2. CASE RefuseWrite(w)
      BY <3>2, <1>1, LeadsIdle DEF RefuseWrite, memVars, versionVars, bgVars, diskVars
    <3>3. CASE WaitForRoom(w)
      BY <3>3, LeadsIdle DEF WaitForRoom, memVars, versionVars, bgVars, diskVars
    <3>4. CASE WriteToMem(w)
      BY <3>4, <1>2, LeadsIdle DEF WriteToMem, memVars, versionVars, bgVars, diskVars
    <3>5. CASE NoNewLog(w)
      BY <3>5, <1>1, LeadsIdle DEF NoNewLog, memVars, versionVars, bgVars, diskVars
    <3> QED
      BY <1>4, <3>1, <3>2, <3>3, <3>4, <3>5
  <2>2. LogsLess(logs', logs, {})
    BY <2>1, LogsSame
  <2>3. InMemory' \cup TableRecs(tables') \subseteq InMemory \cup TableRecs(tables)
    BY <2>1 DEF InMemory
  <2>4. RecordsInv' /\ StoredInv'
    BY <2>1, <2>2, <2>3, StoredLess DEF FreshInv
  <2> QED
    BY <2>1, <2>4, FreshStay
<1> QED
  BY <1>3, <1>4 DEF LeadWrite

\* What the first writer does: its record gets the numbers after all others when it is
\* in the memtable, and also when it is not.
LEMMA JobFresh ==
    ASSUME QueueInv, StoreInv, FilesInv, FreshInv, GoOnWriting
    PROVE  FreshInv'
<1>1. job = [stage |-> job.stage, ws |-> job.ws, rec |-> job.rec]
  BY DEF QueueInv, JobInv
<1>2. ASSUME NEW stage, stage # "none", job' = [job EXCEPT !.stage = stage]
      PROVE  job'.stage # "none" /\ job'.rec = job.rec
  BY <1>1, <1>2
<1>3. job.stage # "none" => job.rec \in Records
  BY DEF StoreInv, RecordInv
<1>4. CASE AppendRecord \/ AppendFails \/ SyncLog \/ SyncFails
  <2>1. /\ phase = "up" /\ job.stage # "none"
        /\ UNCHANGED <<phase, tables, manifests, current, log_number, bg, logfile, next_file, mem, imm,
                       last_sequence>>
    <3>1. CASE AppendRecord
      BY <3>1 DEF AppendRecord, versionVars, bgVars
    <3>2. CASE AppendFails
      BY <3>2 DEF AppendFails, versionVars, bgVars
    <3>3. CASE SyncLog
      BY <3>3 DEF SyncLog, memVars, versionVars, bgVars
    <3>4. CASE SyncFails
      BY <3>4 DEF SyncFails, memVars, versionVars, bgVars, diskVars
    <3> QED
      BY <1>4, <3>1, <3>2, <3>3, <3>4
  <2>2. job'.stage # "none" /\ job'.rec = job.rec
    <3>1. PICK stage : stage # "none" /\ job' = [job EXCEPT !.stage = stage]
      <4>1. CASE AppendRecord
        <5> DEFINE stage == IF Head(job.ws) \in Syncs THEN "sync" ELSE "insert"
        <5>1. job' = [job EXCEPT !.stage = stage]
          BY <4>1 DEF AppendRecord
        <5>2. stage # "none"
          OBVIOUS
        <5> HIDE DEF stage
        <5> QED
          BY <5>1, <5>2
      <4>2. CASE AppendFails
        BY <4>2 DEF AppendFails
      <4>3. CASE SyncLog
        BY <4>3 DEF SyncLog
      <4>4. CASE SyncFails
        BY <4>4 DEF SyncFails
      <4> QED
        BY <1>4, <4>1, <4>2, <4>3, <4>4
    <3> QED
      BY <3>1, <1>2
  <2>3. LogsLess(logs', logs, {}) \/ LogsLess(logs', logs, {job.rec})
    <3>1. job.rec \in Records /\ block_offset \in 0 .. BlockSize /\ LogsInv
      BY <1>3, <2>1 DEF StoreInv, NumbersInv
    <3>2. CASE AppendRecord
      <4> DEFINE added == AddRecord(job.rec, DataSize(job.rec.ws), block_offset)
      <4>1. logs' = [logs EXCEPT ![logfile].bytes = @ \o added.bytes]
        BY <3>2 DEF AppendRecord
      <4> HIDE DEF added
      <4> QED
        BY <3>1, <4>1, AppendLess DEF added
    <3>3. CASE AppendFails
      <4>1. PICK added \in FailedAdds(job.rec, DataSize(job.rec.ws), block_offset) :
              logs' = [logs EXCEPT ![logfile].bytes = @ \o added.bytes]
        BY <3>3 DEF AppendFails
      <4> QED
        BY <3>1, <4>1, AppendLess
    <3>4. CASE SyncLog
      BY <3>1, <3>4, SyncLess DEF SyncLog
    <3>5. CASE SyncFails
      BY <3>5, LogsSame DEF SyncFails, diskVars
    <3> QED
      BY <1>4, <3>2, <3>3, <3>4, <3>5
  <2>4. InMemory' \cup TableRecs(tables') \subseteq InMemory \cup TableRecs(tables)
    BY <2>1 DEF InMemory
  <2>5. RecordsInv' /\ StoredInv'
    BY <2>1, <2>2, <2>3, <2>4, StoredLess DEF FreshInv
  <2> QED
    BY <2>1, <2>5, FreshStay
<1>5. CASE EndWrite
  <2>1. /\ phase = "up" /\ job.stage # "none"
        /\ mem' = mem \cup {job.rec} \/ mem' = mem
        /\ last_sequence' = last_sequence + Len(job.rec.ws)
        /\ UNCHANGED <<phase, tables, manifests, current, log_number, bg, logfile, next_file, imm, logs>>
    BY <1>5 DEF EndWrite, diskVars
  <2>2. job'.stage = "none"
    BY <1>5, FinishStore DEF EndWrite
  <2>3. Stored \in SUBSET Records /\ last_sequence \in Nat /\ job.rec \in Records
    BY <1>3, <2>1, StoredRecords DEF FreshInv, StoreInv, NumbersInv
  <2>4. Below(Stored, last_sequence) /\ Apart(Stored) /\ job.rec.seq = last_sequence + 1
    BY <2>1 DEF FreshInv, StoredInv
  <2>5. InMemory' \subseteq InMemory \cup {job.rec}
    BY <2>1 DEF InMemory
  <2>6. Stored' \subseteq Stored \cup {job.rec}
    BY <2>1, <2>5 DEF Stored, InFlight
  <2>7. Apart(Stored \cup {job.rec}) /\ Below(Stored \cup {job.rec}, last_sequence')
    BY <2>1, <2>3, <2>4, ApartOneMore
  <2>8. Apart(Stored') /\ Below(Stored', last_sequence')
    BY <2>6, <2>7, ApartLess, BelowLess
  <2>9. StoredInv'
    BY <2>2, <2>8 DEF StoredInv
  <2>10. RecordsInv'
    BY <2>1, <2>3, <2>5 DEF RecordsInv, FreshInv
  <2> QED
    BY <2>1, <2>9, <2>10, FreshStay
<1> QED
  BY <1>4, <1>5 DEF GoOnWriting

\* A step of the background that leaves the MANIFEST alone, and at most makes
\* tables of the records in memory and in tables.
LEMMA WorkFresh ==
    ASSUME StoreInv, FilesInv, FreshInv, phase = "up",
           UNCHANGED <<phase, job, mem, imm, logs, manifests, current, last_sequence, logfile, log_number>>,
           next_file' = next_file \/ next_file' = next_file + 1,
           TableRecs(tables') \subseteq InMemory \cup TableRecs(tables), TablesLess(tables', tables),
           bg'.stage \in {"manifest", "sync"} => \E add, del, log : bg'.edit = EditOf(add, del, log)
                                                                    /\ log \in {logfile, log_number},
           OutFresh'
    PROVE  FreshInv'
<1>1. RecordsInv' /\ StoredInv'
  <2>1. InMemory' \cup TableRecs(tables') \subseteq InMemory \cup TableRecs(tables)
    BY DEF InMemory
  <2>2. LogsLess(logs', logs, {})
    BY LogsSame
  <2> QED
    BY <2>1, <2>2, StoredLess DEF FreshInv
<1>2. CutsInv'
  BY CutsStay DEF FreshInv, StoreInv, ManifestsInv
<1>3. EditFresh'
  <2>1. next_file \in Nat /\ logfile \in Nat /\ log_number \in Nat /\ next_file <= next_file'
        /\ logfile <= next_file /\ log_number <= next_file
    BY DEF StoreInv, NumbersInv, FreshInv, EditFresh
  <2>2. Below(TableRecs(tables'), last_sequence)
    <3>1. TableRecs(tables') \subseteq Stored' /\ Below(Stored', last_sequence)
      BY <1>1 DEF Stored, StoredInv
    <3> QED
      BY <3>1, BelowLess
  <2>3. ASSUME bg'.stage \in {"manifest", "sync"}
        PROVE  bg'.edit.last = last_sequence /\ bg'.edit.next = next_file /\ bg'.edit.log <= next_file
    <3>1. PICK add, del, log : bg'.edit = EditOf(add, del, log) /\ log \in {logfile, log_number}
      BY <2>3
    <3> QED
      BY <2>1, <3>1 DEF EditOf
  <2> QED
    BY <2>1, <2>2, <2>3 DEF EditFresh
<1> QED
  BY <1>1, <1>2, <1>3, UpFresh

\* A table that was not synced is written.
LEMMA WrittenLess ==
    ASSUME NEW n \in DOMAIN tables, ~tables[n].synced, NEW recs,
           tables' = [tables EXCEPT ![n] = [recs |-> recs, synced |-> TRUE]]
    PROVE  /\ TableRecs(tables') \subseteq recs \cup TableRecs(tables)
           /\ TablesLess(tables', tables)
<1> DEFINE t == [recs |-> recs, synced |-> TRUE]
<1>1. t.recs = recs /\ tables' = [tables EXCEPT ![n] = t]
  OBVIOUS
<1> HIDE DEF t
<1>2. DOMAIN tables' = DOMAIN tables /\ tables'[n] = t /\ \A k \in DOMAIN tables : k # n => tables'[k] = tables[k]
  BY <1>1
<1>3. TablesLess(tables', tables)
  BY <1>2 DEF TablesLess
<1>4. ASSUME NEW k \in DOMAIN tables'
      PROVE  tables'[k].recs \subseteq recs \cup TableRecs(tables)
  BY <1>1, <1>2 DEF TableRecs
<1> QED
  BY <1>3, <1>4 DEF TableRecs

\* A new one.
LEMMA NewTableLess ==
    ASSUME NEW n, n \notin DOMAIN tables, tables' = NewTable(n)
    PROVE  /\ TableRecs(tables') \subseteq TableRecs(tables) /\ TablesLess(tables', tables)
           /\ ~tables'[n].synced /\ \A k \in DOMAIN tables : tables'[k] = tables[k]
<1> DEFINE t == [recs |-> {}, synced |-> FALSE]
<1>1. t.recs = {} /\ ~t.synced
  OBVIOUS
<1>2. tables' = [k \in {n} \cup DOMAIN tables |-> IF k = n THEN t ELSE tables[k]]
  BY DEF NewTable, Created, Over
<1> HIDE DEF t
<1>3. DOMAIN tables' = {n} \cup DOMAIN tables /\ tables'[n] = t /\ \A k \in DOMAIN tables : tables'[k] = tables[k]
  BY <1>2
<1>4. ASSUME NEW k \in DOMAIN tables'
      PROVE  tables'[k].recs \subseteq TableRecs(tables)
  BY <1>1, <1>3 DEF TableRecs
<1> QED
  BY <1>1, <1>3, <1>4 DEF TableRecs, TablesLess

\* Some are deleted.
LEMMA RestrictTablesLess ==
    ASSUME NEW S, S \subseteq DOMAIN tables, tables' = Restrict(tables, S)
    PROVE  /\ TableRecs(tables') \subseteq TableRecs(tables) /\ TablesLess(tables', tables)
           /\ \A k \in S : tables'[k] = tables[k]
<1>1. DOMAIN tables' = S /\ \A n \in S : tables'[n] = tables[n]
  BY RestrictTables
<1> QED
  BY <1>1 DEF TableRecs, TablesLess

\* Nothing to do, and the tables that are written.
LEMMA TableFresh ==
    ASSUME QueueInv, StoreInv, FilesInv, FreshInv, NothingToDo \/ StartTable \/ FinishTable \/ TableFails
    PROVE  FreshInv'
<1> USE DEF StoreInv
<1> DEFINE Stay == UNCHANGED <<phase, job, mem, imm, logs, manifests, current, last_sequence, logfile, log_number>>
<1>1. bg.out # 0 => bg.out \in DOMAIN tables
  BY DEF FilesInv, OutInv
<1>2. CASE NothingToDo
  <2>1. Stay /\ phase = "up" /\ UNCHANGED <<tables, next_file>> /\ bg' = IdleBg
    BY <1>2 DEF NothingToDo, EndBackground, memVars, versionVars, diskVars
  <2>2. bg'.stage = "idle" /\ OutFresh'
    BY <2>1 DEF IdleBg, OutFresh
  <2>3. TablesLess(tables', tables)
    BY <2>1, TablesSame
  <2> QED
    BY <2>1, <2>2, <2>3, WorkFresh
<1>3. CASE StartTable
  <2>1. /\ Stay /\ phase = "up" /\ bg.stage \in {"idle", "merge"} /\ next_file' = next_file + 1
        /\ tables' = IF imm = {} THEN tables ELSE NewTable(next_file)
        /\ bg' = [bg EXCEPT !.stage = "table", !.kind = "imm", !.table = next_file]
    BY <1>3 DEF StartTable, callVars, memVars
  <2>2. bg'.stage = "table" /\ bg'.kind = "imm" /\ bg'.out = bg.out
    BY <2>1 DEF BgInv
  <2>3. /\ TableRecs(tables') \subseteq TableRecs(tables) /\ TablesLess(tables', tables)
        /\ \A k \in DOMAIN tables : tables'[k] = tables[k]
    <3>1. CASE imm = {}
      BY <2>1, <3>1, TablesSame
    <3>2. CASE imm # {}
      <4>1. tables' = NewTable(next_file) /\ next_file \notin DOMAIN tables
        BY <2>1, <3>2, UpIs
      <4> QED
        BY <4>1, NewTableLess
    <3> QED
      BY <3>1, <3>2
  <2>4. OutFresh'
    BY <1>1, <2>1, <2>2, <2>3 DEF FreshInv, OutFresh
  <2> QED
    BY <2>1, <2>2, <2>3, <2>4, WorkFresh
<1>4. CASE FinishTable
  <2> DEFINE level == IF version = {} THEN 1 ELSE 0
             add == IF imm = {} THEN {} ELSE {[level |-> level, number |-> bg.table]}
             edit == EditOf(add, {}, logfile)
  <2>1. /\ Stay /\ phase = "up" /\ bg.stage = "table" /\ next_file' = next_file
        /\ tables' = IF bg.table \in DOMAIN tables
                     THEN [tables EXCEPT ![bg.table] = [recs |-> imm, synced |-> TRUE]]
                     ELSE tables
        /\ bg' = [bg EXCEPT !.stage = "manifest", !.edit = edit]
    BY <1>4 DEF FinishTable, callVars, memVars, versionVars
  <2> HIDE DEF edit
  <2>2. bg'.stage = "manifest" /\ bg'.edit = edit /\ bg'.out = bg.out /\ bg'.kind = bg.kind
    BY <2>1 DEF BgInv
  <2>3. imm # Nothing /\ bg.table # bg.out /\ (bg.table \in DOMAIN tables => ~tables[bg.table].synced)
    BY <2>1 DEF FilesInv, TableInv
  <2>4. /\ TableRecs(tables') \subseteq imm \cup TableRecs(tables) /\ TablesLess(tables', tables)
        /\ \A k \in DOMAIN tables : k # bg.table => tables'[k] = tables[k]
    <3>1. CASE bg.table \in DOMAIN tables
      BY <2>1, <2>3, <3>1, WrittenLess
    <3>2. CASE bg.table \notin DOMAIN tables
      BY <2>1, <3>2, TablesSame
    <3> QED
      BY <3>1, <3>2
  <2>5. TableRecs(tables') \subseteq InMemory \cup TableRecs(tables)
    BY <2>3, <2>4 DEF InMemory
  <2>6. OutFresh'
    BY <1>1, <2>1, <2>2, <2>3, <2>4 DEF FreshInv, OutFresh
  <2>7. \E a, d, log : bg'.edit = EditOf(a, d, log) /\ log \in {logfile, log_number}
    BY <2>2 DEF edit
  <2> QED
    BY <2>1, <2>4, <2>5, <2>6, <2>7, WorkFresh
<1>5. CASE TableFails
  <2> DEFINE S == DOMAIN tables \ {bg.table}
  <2>1. /\ Stay /\ phase = "up" /\ bg.stage = "table" /\ next_file' = next_file
        /\ tables' = Restrict(tables, S)
        /\ EndImm(imm, TRUE)
    BY <1>5 DEF TableFails, memVars, versionVars
  <2>2. bg.table # bg.out
    BY <2>1 DEF FilesInv, TableInv
  <2>3. /\ TableRecs(tables') \subseteq TableRecs(tables) /\ TablesLess(tables', tables)
        /\ \A k \in S : tables'[k] = tables[k]
    BY <2>1, RestrictTablesLess
  <2>4. bg'.stage \in {"idle", "merge"} /\ OutFresh'
    <3>1. CASE bg.out = 0
      <4>1. bg' = IdleBg
        BY <2>1, <3>1 DEF EndImm, EndBackground
      <4> QED
        BY <4>1 DEF IdleBg, OutFresh
    <3>2. CASE bg.out # 0
      <4>1. bg' = [bg EXCEPT !.stage = "merge", !.kind = "merge", !.table = 0, !.edit = Nothing]
        BY <2>1, <3>2 DEF EndImm
      <4>2. bg'.stage = "merge" /\ bg'.kind = "merge" /\ bg'.out = bg.out
        BY <4>1 DEF BgInv
      <4>3. tables'[bg.out] = tables[bg.out] /\ ~tables[bg.out].synced
        BY <1>1, <2>1, <2>2, <2>3, <3>2 DEF FreshInv, OutFresh
      <4> QED
        BY <4>2, <4>3 DEF OutFresh
    <3> QED
      BY <3>1, <3>2
  <2> QED
    BY <2>1, <2>3, <2>4, WorkFresh
<1> QED
  BY <1>2, <1>3, <1>4, <1>5

\* The compaction of level 0: its table holds what its inputs hold.
LEMMA MergeFresh ==
    ASSUME QueueInv, StoreInv, FilesInv, FreshInv, StartMove \/ StartMerge \/ FinishMerge \/ MergeFails
    PROVE  FreshInv'
<1> USE DEF StoreInv
<1> DEFINE Stay == UNCHANGED <<phase, job, mem, imm, logs, manifests, current, last_sequence, logfile, log_number>>
<1>1. bg.out # 0 => bg.out \in DOMAIN tables
  BY DEF FilesInv, OutInv
<1>2. CASE StartMove
  <2> DEFINE add == { [f EXCEPT !.level = 1] : f \in version }
             edit == EditOf(add, version, log_number)
  <2>1. /\ Stay /\ phase = "up" /\ bg.stage = "idle" /\ UNCHANGED <<tables, next_file>>
        /\ bg' = [bg EXCEPT !.stage = "manifest", !.kind = "move", !.edit = edit]
    BY <1>2 DEF StartMove, MayCompact, callVars, memVars, versionVars, diskVars
  <2> HIDE DEF edit
  <2>2. bg'.stage = "manifest" /\ bg'.edit = edit /\ bg'.out = bg.out /\ bg'.kind = "move"
    BY <2>1 DEF BgInv
  <2>3. OutFresh'
    BY <2>1, <2>2 DEF FreshInv, OutFresh
  <2>4. \E a, d, log : bg'.edit = EditOf(a, d, log) /\ log \in {logfile, log_number}
    BY <2>2 DEF edit
  <2>5. TablesLess(tables', tables)
    BY <2>1, TablesSame
  <2> QED
    BY <2>1, <2>3, <2>4, <2>5, WorkFresh
<1>3. CASE StartMerge
  <2>1. /\ Stay /\ phase = "up" /\ next_file' = next_file + 1
        /\ tables' = NewTable(next_file)
        /\ bg' = [bg EXCEPT !.stage = "merge", !.kind = "merge", !.in = version, !.out = next_file]
    BY <1>3 DEF StartMerge, MayCompact, callVars, memVars
  <2>2. bg'.stage = "merge" /\ bg'.kind = "merge" /\ bg'.out = next_file
    BY <2>1 DEF BgInv
  <2>3. /\ TableRecs(tables') \subseteq TableRecs(tables) /\ TablesLess(tables', tables)
        /\ ~tables'[next_file].synced
    BY <2>1, UpIs, NewTableLess
  <2>4. OutFresh'
    BY <2>2, <2>3 DEF OutFresh
  <2> QED
    BY <2>1, <2>2, <2>3, <2>4, WorkFresh
<1>4. CASE FinishMerge
  <2> DEFINE add == {[level |-> 1, number |-> bg.out]}
             edit == EditOf(add, bg.in, log_number)
  <2>1. /\ Stay /\ phase = "up" /\ bg.stage = "merge" /\ next_file' = next_file
        /\ tables' = IF bg.out \in DOMAIN tables
                     THEN [tables EXCEPT ![bg.out] = [recs |-> RecordsIn(bg.in), synced |-> TRUE]]
                     ELSE tables
        /\ bg' = [bg EXCEPT !.stage = "manifest", !.edit = edit]
    BY <1>4 DEF FinishMerge, callVars, memVars, versionVars
  <2> HIDE DEF edit
  <2>2. bg'.stage = "manifest" /\ bg'.edit = edit /\ bg'.out = bg.out /\ bg'.kind = bg.kind
    BY <2>1 DEF BgInv
  <2>3. bg.out \in DOMAIN tables /\ bg.out # 0 /\ bg.kind = "merge" /\ ~tables[bg.out].synced
    BY <1>1, <2>1 DEF FilesInv, OutInv, FreshInv, OutFresh
  <2>4. RecordsIn(bg.in) \subseteq TableRecs(tables)
    BY DEF RecordsIn, TableRecs
  <2>5. TableRecs(tables') \subseteq TableRecs(tables) /\ TablesLess(tables', tables)
    BY <2>1, <2>3, <2>4, WrittenLess
  <2>6. OutFresh'
    BY <2>2, <2>3 DEF OutFresh
  <2>7. \E a, d, log : bg'.edit = EditOf(a, d, log) /\ log \in {logfile, log_number}
    BY <2>2 DEF edit
  <2> QED
    BY <2>1, <2>5, <2>6, <2>7, WorkFresh
<1>5. CASE MergeFails
  <2>1. Stay /\ phase = "up" /\ UNCHANGED <<tables, next_file>> /\ bg' = IdleBg
    BY <1>5 DEF MergeFails, AbandonMerge, EndBackground, DeleteObsoleteFiles, memVars, versionVars
  <2>2. bg'.stage = "idle" /\ OutFresh'
    BY <2>1 DEF IdleBg, OutFresh
  <2>3. TablesLess(tables', tables)
    BY <2>1, TablesSame
  <2> QED
    BY <2>1, <2>2, <2>3, WorkFresh
<1> QED
  BY <1>2, <1>3, <1>4, <1>5

\* A record is written to the MANIFEST, or that fails.
LEMMA ManifestFresh ==
    ASSUME QueueInv, StoreInv, FilesInv, FreshInv, WriteManifest \/ ManifestFails
    PROVE  FreshInv'
<1> USE DEF StoreInv
<1> DEFINE m == manifests[manifest_file]
<1>1. /\ phase = "up" /\ bg.stage \in {"manifest", "sync"} /\ bg.edit \in Edits
      /\ Held(tables, bg.edit.add) /\ (\A n \in DOMAIN tables : n < bg.edit.next)
      /\ Below(TableRecs(tables), bg.edit.last) /\ bg.edit.log <= bg.edit.next
      /\ logfile <= next_file /\ log_number <= next_file /\ bg.edit.next <= next_file
  BY DEF WriteManifest, ManifestFails, BgInv, FilesInv, EditInv, FreshInv, EditFresh
<1>2. /\ current = manifest_file /\ manifest_file \in DOMAIN manifests /\ m \in Manifests
      /\ Recoverable(tables, m) /\ SoundCuts(tables, m)
  BY <1>1, UpIs DEF FreshInv, CutsInv
<1>3. ASSUME NEW e \in {Nothing, bg.edit},
             manifests' = [manifests EXCEPT ![manifest_file].edits = Append(@, e)]
      PROVE  SoundCuts(tables, manifests'[manifest_file])
  <2> DEFINE more == [edits |-> Append(m.edits, e), synced |-> m.synced]
  <2>1. e \in EditRecords
    BY <1>1 DEF EditRecords
  <2>2. more \in Manifests /\ manifests' = [manifests EXCEPT ![manifest_file] = more]
    BY <1>2, <1>3, <2>1, AppendedManifest
  <2>3. SoundCuts(tables, more)
    BY <1>1, <1>2, <2>1, AppendCuts
  <2> HIDE DEF more
  <2>4. manifests'[manifest_file] = more
    BY <1>2, <2>2
  <2> QED
    BY <2>3, <2>4
<1>4. /\ UNCHANGED <<phase, tables, current, manifest_file, mem, imm, logs, job, last_sequence, logfile, log_number,
                     next_file>>
      /\ manifests' = manifests
         \/ \E e \in {Nothing, bg.edit} : manifests' = [manifests EXCEPT ![manifest_file].edits = Append(@, e)]
  <2>1. CASE WriteManifest
    BY <2>1 DEF WriteManifest, callVars, memVars, versionVars
  <2>2. CASE ManifestFails
    <3>1. UNCHANGED <<phase, tables, current, manifest_file, mem, imm, logs, job, last_sequence, logfile, log_number,
                      next_file>>
      BY <2>2 DEF ManifestFails, AbandonMerge, DeleteObsoleteFiles, memVars, versionVars
    <3>2. manifests' = manifests
          \/ \E e \in {Nothing, bg.edit} : manifests' = [manifests EXCEPT ![manifest_file].edits = Append(@, e)]
      BY <2>2 DEF ManifestFails
    <3> QED
      BY <3>1, <3>2
  <2> QED
    BY <2>1, <2>2
<1>5. CutsInv'
  <2>1. SoundCuts(tables, manifests'[manifest_file])
    BY <1>2, <1>3, <1>4
  <2> QED
    BY <1>2, <1>4, <2>1 DEF CutsInv
<1>6. RecordsInv' /\ StoredInv'
  <2>1. InMemory' \cup TableRecs(tables') \subseteq InMemory \cup TableRecs(tables) /\ LogsLess(logs', logs, {})
    BY <1>4, LogsSame DEF InMemory
  <2> QED
    BY <1>1, <1>4, <2>1, StoredLess DEF FreshInv
<1>7. CASE WriteManifest
  <2>1. bg' = [bg EXCEPT !.stage = "sync"] /\ bg.stage = "manifest"
    BY <1>7 DEF WriteManifest
  <2>2. bg'.stage = "sync" /\ bg'.edit = bg.edit /\ bg'.out = bg.out /\ bg'.kind = bg.kind
    BY <2>1 DEF BgInv
  <2>3. OutFresh'
    BY <1>1, <1>4, <2>1, <2>2 DEF FreshInv, OutFresh
  <2>4. EditFresh'
    BY <1>1, <1>4, <2>2 DEF EditFresh
  <2> QED
    BY <1>1, <1>4, <1>5, <1>6, <2>3, <2>4, UpFresh
<1>8. CASE ManifestFails
  <2>1. bg'.stage \in {"idle", "merge"} /\ OutFresh'
    <3>1. CASE bg' = IdleBg
      BY <3>1 DEF IdleBg, OutFresh
    <3>2. CASE bg' # IdleBg
      <4>1. EndImm(imm, TRUE) /\ bg.kind = "imm" /\ bg.out # 0
        BY <1>8, <3>2 DEF ManifestFails, AbandonMerge, EndBackground, EndImm
      <4>2. bg' = [bg EXCEPT !.stage = "merge", !.kind = "merge", !.table = 0, !.edit = Nothing]
        BY <4>1 DEF EndImm
      <4>3. bg'.stage = "merge" /\ bg'.kind = "merge" /\ bg'.out = bg.out
        BY <4>2 DEF BgInv
      <4>4. ~tables[bg.out].synced
        BY <1>1, <4>1 DEF FreshInv, OutFresh
      <4> QED
        BY <1>4, <4>3, <4>4 DEF OutFresh
    <3> QED
      BY <3>1, <3>2
  <2>2. EditFresh'
    BY <1>1, <1>4, <2>1 DEF EditFresh
  <2> QED
    BY <1>1, <1>4, <1>5, <1>6, <2>1, <2>2, UpFresh
<1> QED
  BY <1>7, <1>8

\* Files are deleted.
LEMMA DeleteLess ==
    ASSUME NEW ms, NEW files, NEW held, NEW log, NEW pending, NEW err,
           DeleteObsoleteFiles(ms, files, held, log, pending, err)
    PROVE  /\ TableRecs(tables') \subseteq TableRecs(tables) /\ TablesLess(tables', tables)
           /\ \A k \in DOMAIN tables' : k \in DOMAIN tables /\ tables'[k] = tables[k]
           /\ LogsLess(logs', logs, {})
<1>1. CASE err
  BY <1>1, TablesSame, LogsSame DEF DeleteObsoleteFiles
<1>2. CASE ~err
  <2> DEFINE S == DOMAIN tables \cap (pending \cup Numbers(files \cup held))
             T == { n \in DOMAIN logs : n >= log }
  <2>1. tables' = Restrict(tables, S) /\ logs' = Restrict(logs, T)
    BY <1>2 DEF DeleteObsoleteFiles
  <2>2. S \subseteq DOMAIN tables /\ T \subseteq DOMAIN logs
    OBVIOUS
  <2> HIDE DEF S, T
  <2> QED
    BY <2>1, <2>2, RestrictTables, RestrictTablesLess, RestrictLess
<1> QED
  BY <1>1, <1>2

\* The new version.
LEMMA InstallFresh ==
    ASSUME QueueInv, StoreInv, FilesInv, FreshInv, InstallVersion
    PROVE  FreshInv'
<1> USE DEF StoreInv
<1> DEFINE m == manifests[manifest_file]
           n == Len(m.edits)
           synced == [edits |-> m.edits, synced |-> n]
           ms == [manifests EXCEPT ![manifest_file].synced = n]
<1>1. /\ phase = "up" /\ bg.stage = "sync" /\ log_number' = bg.edit.log
      /\ UNCHANGED <<phase, job, mem, logfile, next_file, manifest_file, last_sequence, current>>
  <2>1. UNCHANGED <<phase, writers, asleep, job, mem, logfile, block_offset, next_file, manifest_file,
                    last_sequence, reader, bg_error, current, history, errors, crashes>>
    BY DEF InstallVersion
  <2> QED
    BY <2>1 DEF InstallVersion
<1>2. /\ current = manifest_file /\ manifest_file \in DOMAIN manifests /\ m \in Manifests /\ manifest_file \in Nat
      /\ Recoverable(tables, m) /\ SoundCuts(tables, m)
  BY <1>1, UpIs DEF NumbersInv, FreshInv, CutsInv
<1>3. synced \in Manifests /\ ms = [manifests EXCEPT ![manifest_file] = synced]
  BY <1>2, SyncedManifest
<1>4. ms[manifest_file] = synced /\ ms \in [DOMAIN ms -> Manifests] /\ manifest_file \in DOMAIN ms
  <2> HIDE DEF ms, synced
  <2> QED
    BY <1>2, <1>3, ChangedManifest
<1>5. LessCut(synced, m)
  BY <1>2, SyncedCut
<1> HIDE DEF ms, synced
<1>6. /\ manifests'[manifest_file] = synced
      /\ TableRecs(tables') \subseteq TableRecs(tables) /\ TablesLess(tables', tables)
      /\ \A k \in DOMAIN tables' : k \in DOMAIN tables /\ tables'[k] = tables[k]
      /\ LogsLess(logs', logs, {})
  <2>1. CASE tables' = tables /\ logs' = logs /\ manifests' = ms
    BY <1>4, <2>1, TablesSame, LogsSame
  <2>2. ASSUME NEW files, NEW held, NEW log, NEW pending, NEW err,
               DeleteObsoleteFiles(ms, files, held, log, pending, err)
        PROVE  /\ manifests'[manifest_file] = synced
               /\ TableRecs(tables') \subseteq TableRecs(tables) /\ TablesLess(tables', tables)
               /\ \A k \in DOMAIN tables' : k \in DOMAIN tables /\ tables'[k] = tables[k]
               /\ LogsLess(logs', logs, {})
    BY <1>2, <1>4, <2>2, DeleteStore, DeleteLess
  <2>3. CASE bg.kind = "imm"
    <3>1. DeleteObsoleteFiles(ms, version', reader \cup bg.in, log_number', pending_outputs, bg_error)
      BY <2>3 DEF InstallVersion, ms
    <3> QED
      BY <2>2, <3>1
  <2>4. CASE bg.kind = "move"
    BY <2>1, <2>4 DEF InstallVersion, ms
  <2>5. CASE bg.kind = "merge"
    <3>1. DeleteObsoleteFiles(ms, version', reader, log_number', pending_outputs', bg_error)
      BY <2>5 DEF InstallVersion, ms
    <3> QED
      BY <2>2, <3>1
  <2> QED
    BY <2>3, <2>4, <2>5 DEF InstallVersion
<1>7. CutsInv'
  <2>1. CutsLess(tables', tables, m)
    BY <1>2, <1>6, TablesCutsLess
  <2>2. SoundCuts(tables', synced)
    BY <1>2, <1>3, <1>5, <2>1, CutsKept
  <2> QED
    BY <1>1, <1>2, <1>6, <2>2 DEF CutsInv
<1>8. RecordsInv' /\ StoredInv'
  <2>1. imm' = imm \/ imm' = Nothing
    BY DEF InstallVersion
  <2>2. InMemory' \subseteq InMemory
    BY <1>1, <2>1 DEF InMemory
  <2> QED
    BY <1>1, <1>6, <2>2, StoredLess DEF FreshInv
<1>9. bg'.stage \in {"idle", "merge"} /\ OutFresh'
  <2>1. CASE bg' = IdleBg
    BY <2>1 DEF IdleBg, OutFresh
  <2>2. CASE bg' # IdleBg
    <3>1. bg.kind = "imm" /\ bg.out # 0
          /\ bg' = [bg EXCEPT !.stage = "merge", !.kind = "merge", !.table = 0, !.edit = Nothing]
      BY <2>2 DEF InstallVersion, EndImm, EndBackground
    <3>2. bg'.stage = "merge" /\ bg'.kind = "merge" /\ bg'.out = bg.out
      BY <3>1 DEF BgInv
    <3>3. bg.out \in DOMAIN tables'
      <4>1. FilesInv'
        BY InstallFiles
      <4> QED
        BY <3>1, <3>2, <4>1 DEF FilesInv, OutInv
    <3>4. ~tables'[bg.out].synced
      BY <1>1, <1>6, <3>1, <3>3 DEF FreshInv, OutFresh
    <3> QED
      BY <3>2, <3>4 DEF OutFresh
  <2> QED
    BY <2>1, <2>2
<1>10. EditFresh'
  <2>1. bg.edit.log <= bg.edit.next /\ bg.edit.next <= next_file /\ logfile <= next_file /\ bg.edit \in Edits
        /\ next_file \in Nat
    BY <1>1 DEF FreshInv, EditFresh, BgInv, NumbersInv
  <2>2. bg.edit.log <= next_file
    BY <2>1 DEF Edits
  <2> QED
    BY <1>1, <1>9, <2>1, <2>2 DEF EditFresh
<1> QED
  BY <1>1, <1>7, <1>8, <1>9, <1>10, UpFresh

\* An iterator makes no record.
LEMMA IteratorFresh ==
    ASSUME QueueInv, StoreInv, FilesInv, FreshInv, OpenIterator \/ CloseIterator
    PROVE  FreshInv'
<1>1. /\ phase = "up"
      /\ UNCHANGED <<phase, tables, manifests, current, log_number, bg, logfile, next_file, mem, imm, logs, job,
                     last_sequence>>
  <2>1. CASE OpenIterator
    BY <2>1 DEF OpenIterator, callVars, memVars, versionVars, bgVars, diskVars
  <2>2. CASE CloseIterator
    BY <2>2 DEF CloseIterator, callVars, memVars, versionVars, bgVars, diskVars
  <2> QED
    BY <2>1, <2>2
<1>2. InMemory' \cup TableRecs(tables') \subseteq InMemory \cup TableRecs(tables) /\ LogsLess(logs', logs, {})
  BY <1>1, LogsSame DEF InMemory
<1>3. RecordsInv' /\ StoredInv'
  BY <1>1, <1>2, StoredLess DEF FreshInv
<1> QED
  BY <1>1, <1>3, FreshStay

-----------------------------------------------------------------------------
(* The records in crashes and recovery. *)

\* All that is in an open store, the record that is being written included.
LEMMA UpApart ==
    ASSUME StoreInv, FreshInv, phase = "up"
    PROVE  Apart(TableRecs(tables) \cup LogsFrom(logs, 0) \cup InFlight)
<1>1. Stored \in SUBSET Records /\ last_sequence \in Nat
  BY StoredRecords DEF FreshInv, StoreInv, NumbersInv
<1>2. Below(Stored, last_sequence) /\ Apart(Stored)
  BY DEF FreshInv, StoredInv
<1>3. TableRecs(tables) \cup LogsFrom(logs, 0) \cup InFlight \subseteq Stored \cup InFlight
  BY DEF Stored
<1>4. Apart(Stored \cup InFlight)
  <2>1. CASE job.stage = "none"
    BY <1>2, <2>1 DEF InFlight
  <2>2. CASE job.stage # "none"
    <3>1. job.rec \in Records /\ job.rec.seq = last_sequence + 1
      BY <2>2 DEF FreshInv, StoredInv, StoreInv, RecordInv
    <3> QED
      BY <1>1, <1>2, <2>2, <3>1, ApartOneMore DEF InFlight
  <2> QED
    BY <2>1, <2>2
<1> QED
  BY <1>3, <1>4, ApartLess

\* A store that is not open.
LEMMA DownFresh ==
    ASSUME phase' \in {"down", "failed"}, RecordsInv', CutsInv', DownInv', bg' = IdleBg
    PROVE  FreshInv'
<1>1. bg'.stage = "idle"
  BY DEF IdleBg
<1> QED
  BY <1>1 DEF FreshInv, BegunInv, StoredInv, EditFresh, OutFresh

\* A crash of the process, or of the machine.
LEMMA CrashFresh ==
    ASSUME QueueInv, StoreInv, FilesInv, FreshInv, ProcessCrash \/ MachineCrash
    PROVE  FreshInv'
<1> DEFINE m == manifests[current]
           m2 == manifests'[current]
<1>1. /\ phase' = "down" /\ bg' = IdleBg /\ current' = current /\ mem' = {} /\ imm' = Nothing /\ job' = IdleJob
  BY DEF ProcessCrash, MachineCrash, LoseMemory
<1>2. /\ current \in DOMAIN manifests /\ m \in Manifests /\ Recoverable(tables, m) /\ SoundCuts(tables, m)
      /\ LogsInv
  BY DEF StoreInv, ManifestsInv, FilesInv, DiskInv, FreshInv, CutsInv
<1>3. /\ m2 \in Manifests /\ LessCut(m2, m)
      /\ TablesLess(tables', tables) /\ TableRecs(tables') \subseteq TableRecs(tables)
  <2>1. CASE ProcessCrash
    <3>1. tables' = tables /\ manifests' = manifests
      BY <2>1 DEF ProcessCrash
    <3> QED
      BY <1>2, <3>1, SameCut, TablesSame
  <2>2. CASE MachineCrash
    <3>1. PICK cut : /\ \A n \in DOMAIN manifests : cut[n] \in manifests[n].synced .. Len(manifests[n].edits)
                     /\ manifests' = [n \in DOMAIN manifests |-> [edits |-> SubSeq(manifests[n].edits, 1, cut[n]),
                                                                  synced |-> cut[n]]]
      BY <2>2 DEF MachineCrash
    <3> DEFINE S == { n \in DOMAIN tables : tables[n].synced }
               c == cut[current]
    <3>2. tables' = Restrict(tables, S) /\ S \subseteq DOMAIN tables
      BY <2>2 DEF MachineCrash
    <3>3. m2 = [edits |-> SubSeq(m.edits, 1, c), synced |-> c] /\ c \in m.synced .. Len(m.edits)
      BY <3>1, <1>2
    <3> HIDE DEF c, S
    <3>4. LessCut(m2, m)
      BY <1>2, <3>3, ShorterCut
    <3>5. m2 \in Manifests
      <4>1. StoreInv'
        BY CrashStore
      <4> QED
        BY <1>1, <4>1 DEF StoreInv, ManifestsInv
    <3> QED
      BY <3>2, <3>4, <3>5, RestrictTablesLess
  <2> QED
    BY <2>1, <2>2
<1> HIDE DEF m, m2
<1>4. LogsLess(logs', logs, {}) \/ (LogsLess(logs', logs, {job.rec}) /\ job.stage # "none")
  <2>1. CASE ProcessCrash
    <3>1. CASE logs' = logs
      BY <3>1, LogsSame
    <3>2. CASE logs' # logs
      <4>1. job.stage = "append"
        BY <2>1, <3>2 DEF ProcessCrash
      <4>2. PICK added \in FailedAdds(job.rec, DataSize(job.rec.ws), block_offset) :
              logs' = [logs EXCEPT ![logfile].bytes = @ \o added.bytes]
        BY <2>1, <3>2 DEF ProcessCrash
      <4>3. job.rec \in Records /\ block_offset \in 0 .. BlockSize
        BY <4>1 DEF StoreInv, RecordInv, NumbersInv
      <4> QED
        BY <1>2, <4>1, <4>2, <4>3, AppendLess
    <3> QED
      BY <3>1, <3>2
  <2>2. CASE MachineCrash
    <3>1. PICK cut : /\ \A n \in DOMAIN logs : cut[n] \in logs[n].synced .. Len(logs[n].bytes)
                     /\ logs' = [n \in DOMAIN logs |-> [bytes |-> SubSeq(logs[n].bytes, 1, cut[n]),
                                                        synced |-> cut[n]]]
      BY <2>2 DEF MachineCrash
    <3> QED
      BY <1>2, <3>1, CutLess
  <2> QED
    BY <2>1, <2>2
<1>5. CutsLess(tables', tables, m)
  BY <1>2, <1>3, TablesCutsLess
<1>6. CutsInv'
  <2>1. SoundCuts(tables', m2)
    BY <1>2, <1>3, <1>5, CutsKept
  <2> QED
    BY <1>1, <2>1 DEF CutsInv, m2
<1>7. ApartCuts(tables', logs', m2)
  <2>1. CASE phase # "up"
    <3>1. ApartCuts(tables, logs, m) /\ job.stage = "none"
      BY <2>1 DEF FreshInv, DownInv, m
    <3> QED
      BY <1>3, <1>4, <1>5, <3>1, ApartKept
  <2>2. CASE phase = "up"
    <3> DEFINE T == TableRecs(tables) \cup LogsFrom(logs, 0) \cup InFlight
    <3>1. Apart(T)
      BY <2>2, UpApart
    <3>2. LogsFrom(logs', 0) \subseteq LogsFrom(logs, 0) \cup InFlight
      BY <1>4, LogsFromLess DEF InFlight
    <3> HIDE DEF T
    <3>3. ASSUME NEW k \in m2.synced .. Len(m2.edits)
          PROVE  Apart(RecsOf(tables', VersionAt(m2, k).files) \cup LogsFrom(logs', VersionAt(m2, k).log))
      <4> DEFINE v == VersionAt(m2, k)
      <4>1. RecsOf(tables', v.files) \subseteq TableRecs(tables)
        BY <1>3, RecsOfTables
      <4>2. LogsFrom(logs', v.log) \subseteq LogsFrom(logs', 0)
        <5>1. \A n \in DOMAIN logs' : n >= 0
          <6>1. LogsInv'
            BY CrashStore DEF StoreInv
          <6> QED
            BY <6>1 DEF LogsInv
        <5> QED
          BY <5>1 DEF LogsFrom
      <4> HIDE DEF v
      <4>3. RecsOf(tables', v.files) \cup LogsFrom(logs', v.log) \subseteq T
        BY <3>2, <4>1, <4>2 DEF T
      <4>4. Apart(RecsOf(tables', v.files) \cup LogsFrom(logs', v.log))
        BY <3>1, <4>3, ApartLess
      <4> QED
        BY <4>4 DEF v
    <3> QED
      BY <3>3 DEF ApartCuts
  <2> QED
    BY <2>1, <2>2
<1>8. InMemory' = {} /\ job'.stage = "none"
  BY <1>1 DEF InMemory, IdleJob
<1>9. DownInv'
  BY <1>1, <1>7, <1>8 DEF DownInv, m2
<1>10. RecordsInv'
  BY <1>3, <1>8 DEF RecordsInv, FreshInv
<1> QED
  BY <1>1, <1>6, <1>9, <1>10, DownFresh

\* Open reads the manifest and the logs: the tables it makes hide no table of any
\* version a cut of the old manifest has, and no log is hidden by the new one.
LEMMA RecoverFresh ==
    ASSUME QueueInv, StoreInv, FilesInv, FreshInv, OpenRecover
    PROVE  FreshInv'
<1> DEFINE old == manifests[current]
           v == Replayed(old.edits)
           r == RecoverLogs(v)
           files == v.files \cup { [level |-> 0, number |-> t] : t \in DOMAIN r.made }
           e == [add |-> files, del |-> {}, log |-> r.next, next |-> r.next + 1, last |-> r.last]
           m == [edits |-> <<e>>, synced |-> 1]
           empty == [bytes |-> <<>>, synced |-> 0]
<1>1. /\ old \in Manifests /\ current \in DOMAIN manifests /\ LogsInv
      /\ SoundCuts(tables, old) /\ ApartCuts(tables, logs, old)
      /\ InMemory = {} /\ job.stage = "none"
  BY DEF StoreInv, ManifestsInv, FreshInv, CutsInv, DownInv, OpenRecover
<1>2. v \in Versions
  <2>1. old.edits \in Seq(EditRecords) /\ Nothing \in EditRecords
    BY <1>1 DEF Manifests, EditRecords
  <2> QED
    BY <2>1, ReplayedAppend
<1>3. /\ Below(RecsOf(tables, v.files), v.last) /\ v.log <= v.next
      /\ \A k \in old.synced .. Len(old.edits) : \A n \in Numbers(VersionAt(old, k).files) : n < v.next
      /\ Apart(RecsOf(tables, v.files) \cup LogsFrom(logs, v.log))
  <2> HIDE DEF old
  <2> QED
    BY <1>1, CutsLast
<1>4. \A n \in Numbers(v.files) : n < v.next
  <2>1. Recoverable(tables, old)
    BY DEF FilesInv, DiskInv
  <2> HIDE DEF old
  <2> QED
    BY <1>1, <2>1, RecoverableLast
<1>5. /\ tables' = Over(r.made, tables)
      /\ logs' = Created(r.next, empty, logs)
      /\ manifests' = Created(v.next, m, manifests)
      /\ version' = files /\ logfile' = r.next /\ next_file' = r.next + 1 /\ log_number' = r.next
      /\ manifest_file' = v.next /\ last_sequence' = r.last
      /\ phase' = "opening"
      /\ UNCHANGED <<mem, imm, job, current, bg>>
  BY DEF OpenRecover, callVars, bgVars
<1>6. bg = IdleBg
  BY DEF OpenRecover, FilesInv, QuietInv
<1>7. /\ r.next \in Nat /\ r.last \in Nat /\ v.last \in Nat /\ v.next \in Nat /\ v.next < r.next
      /\ v.files \in SUBSET Files /\ DOMAIN r.made \in SUBSET Nat /\ \A t \in DOMAIN r.made : t < r.next
      /\ \A t \in DOMAIN r.made : r.made[t].recs \in SUBSET Records
  <2>1. r \in Recovered(v.next)
    BY <1>1, <1>2, RecoverLogsIs
  <2>2. r.made \in MadeTables
    BY <2>1 DEF Recovered
  <2> HIDE DEF r, v
  <2> QED
    BY <1>2, <2>1, <2>2, MadeIs DEF Recovered, Versions
<1>8. /\ v.last <= r.last
      /\ \A t \in DOMAIN r.made : /\ v.next < t
                                  /\ r.made[t].recs \subseteq LogsFrom(logs, v.log)
                                  /\ Below(r.made[t].recs, r.last)
      /\ \A n \in DOMAIN logs : n < r.next
  <2> HIDE DEF v
  <2> QED
    BY <1>1, <1>2, <1>3, RecoverLogsMake
<1> HIDE DEF v, r
<1>9. /\ DOMAIN tables' = DOMAIN r.made \cup DOMAIN tables
      /\ \A n \in DOMAIN tables' : tables'[n] = IF n \in DOMAIN r.made THEN r.made[n] ELSE tables[n]
  BY <1>5 DEF Over
<1>10. CutsLess(tables', tables, old)
  <2> SUFFICES ASSUME NEW k \in old.synced .. Len(old.edits)
               PROVE  RecsOf(tables', VersionAt(old, k).files) \subseteq RecsOf(tables, VersionAt(old, k).files)
    BY DEF CutsLess
  <2> DEFINE w == VersionAt(old, k)
  <2>1. \A n \in Numbers(w.files) : n < v.next
    BY <1>3
  <2> HIDE DEF w, old
  <2>2. \A n \in Numbers(w.files) \cap DOMAIN tables' : n \in DOMAIN tables /\ tables'[n] = tables[n]
    <3>1. \A t \in DOMAIN r.made : t \in Nat /\ v.next < t
      BY <1>7, <1>8
    <3>2. \A n \in Numbers(w.files) : n \notin DOMAIN r.made
      BY <2>1, <3>1, <1>7
    <3> QED
      BY <1>9, <3>2
  <2>3. RecsOf(tables', w.files) \subseteq RecsOf(tables, w.files)
    BY <2>2 DEF RecsOf
  <2> QED
    BY <2>3 DEF w
<1>11. RecsOf(tables', files) \subseteq RecsOf(tables, v.files) \cup LogsFrom(logs, v.log)
       /\ Below(RecsOf(tables', files), r.last)
  <2>1. Numbers(files) \subseteq Numbers(v.files) \cup DOMAIN r.made
    BY DEF Numbers
  <2>2. RecsOf(tables, v.files) \in SUBSET Records
    BY RecsOfTables DEF FreshInv, RecordsInv
  <2>3. Below(RecsOf(tables, v.files), r.last)
    BY <1>3, <1>7, <1>8, <2>2, BelowMore
  <2> HIDE DEF files
  <2>4. ASSUME NEW n \in Numbers(files) \cap DOMAIN tables'
        PROVE  /\ tables'[n].recs \subseteq RecsOf(tables, v.files) \cup LogsFrom(logs, v.log)
               /\ Below(tables'[n].recs, r.last)
    <3>1. CASE n \in DOMAIN r.made
      BY <3>1, <1>8, <1>9
    <3>2. CASE n \notin DOMAIN r.made
      <4>1. n \in Numbers(v.files) \cap DOMAIN tables /\ tables'[n] = tables[n]
        BY <3>2, <1>9, <2>1
      <4>2. tables'[n].recs \subseteq RecsOf(tables, v.files)
        BY <4>1 DEF RecsOf
      <4> QED
        BY <2>3, <4>2, BelowLess
    <3> QED
      BY <3>1, <3>2
  <2> QED
    BY <2>4 DEF RecsOf, Below
<1>12. Apart(RecsOf(tables', files))
  <2> HIDE DEF files
  <2> QED
    BY <1>3, <1>11, ApartLess
<1>13. TableRecs(tables') \in SUBSET Records
  <2>1. \A n \in DOMAIN tables' : tables'[n].recs \in SUBSET Records
    <3>1. \A n \in DOMAIN tables : tables[n].recs \in SUBSET Records
      BY DEF FreshInv, RecordsInv, TableRecs
    <3> QED
      BY <3>1, <1>7, <1>9
  <2> QED
    BY <2>1 DEF TableRecs
<1>14. files \in SUBSET Files /\ \A n \in Numbers(files) : n < r.next + 1
  <2>1. files \in SUBSET Files
    BY <1>7 DEF Files
  <2>2. Numbers(files) \subseteq Numbers(v.files) \cup DOMAIN r.made
    BY DEF Numbers
  <2> HIDE DEF files
  <2>3. \A n \in Numbers(files) : n \in Nat
    BY <2>1 DEF Numbers, Files
  <2>4. \A n \in Numbers(files) : n < v.next \/ n < r.next
    BY <1>4, <1>7, <2>2
  <2> QED
    BY <1>7, <2>1, <2>3, <2>4
<1> HIDE DEF files
<1>15. LogsLess(logs', logs, {})
  BY <1>5, CreateLess
<1>16. LogsFrom(logs', r.next) = {}
  <2>1. Appended(empty.bytes) = {}
    <3>1. empty.bytes = <<>> /\ Len(<<>>) = 0
      OBVIOUS
    <3> HIDE DEF empty
    <3>2. 1 .. Len(empty.bytes) = {}
      BY <3>1
    <3> QED
      BY <3>2 DEF Appended
  <2> HIDE DEF empty
  <2>2. /\ DOMAIN logs' = {r.next} \cup DOMAIN logs
        /\ \A k \in DOMAIN logs' : logs'[k] = IF k = r.next THEN empty ELSE logs[k]
    BY <1>5 DEF Created, Over
  <2>3. \A k \in DOMAIN logs' : k >= r.next => k = r.next
    <3>1. \A k \in DOMAIN logs : k \in Nat /\ k < r.next
      BY <1>1, <1>8 DEF LogsInv
    <3> QED
      BY <1>7, <2>2, <3>1
  <2> QED
    BY <2>1, <2>2, <2>3 DEF LogsFrom
<1>17. e \in Edits /\ e.add = files /\ e.log = r.next /\ e.next = r.next + 1 /\ e.last = r.last
  BY <1>7, <1>14 DEF Edits
<1>18. manifests'[v.next] = m /\ (current # v.next => manifests'[current] = old)
  <2> HIDE DEF m
  <2> QED
    BY <1>1, <1>5 DEF Created, Over
<1>19. BegunInv'
  BY <1>5, <1>7, <1>11, <1>12, <1>16, <1>18 DEF BegunInv
<1> HIDE DEF e
<1>20. SoundCuts(tables', m) /\ ApartCuts(tables', logs', m)
  <2>1. RecsOf(tables', e.add) \cup LogsFrom(logs', e.log) = RecsOf(tables', files)
    BY <1>16, <1>17
  <2>2. Below(RecsOf(tables', e.add), e.last) /\ e.log <= e.next /\ \A n \in Numbers(e.add) : n < e.next
    BY <1>7, <1>11, <1>14, <1>17
  <2> QED
    BY <1>12, <1>17, <2>1, <2>2, SingleCuts
<1> HIDE DEF m
<1>21. SoundCuts(tables', manifests'[current]) /\ ApartCuts(tables', logs', manifests'[current])
  <2>1. CASE current = v.next
    BY <1>18, <1>20, <2>1
  <2>2. CASE current # v.next
    <3>1. LessCut(old, old)
      BY SameCut
    <3> HIDE DEF old
    <3> QED
      BY <1>1, <1>10, <1>15, <1>18, <2>2, <3>1, CutsKept, ApartKept
  <2> QED
    BY <2>1, <2>2
<1>22. CutsInv' /\ DownInv' /\ RecordsInv'
  <2>1. InMemory' = {}
    BY <1>1, <1>5 DEF InMemory
  <2> QED
    BY <1>1, <1>5, <1>13, <1>21, <2>1 DEF CutsInv, DownInv, RecordsInv
<1>23. bg'.stage = "idle"
  BY <1>5, <1>6 DEF IdleBg
<1> QED
  BY <1>5, <1>19, <1>22, <1>23 DEF FreshInv, StoredInv, EditFresh, OutFresh

\* The end of Open: it fails, installs its manifest, or has deleted the obsolete
\* files, the logs among them, whose records are in its tables now.
LEMMA OpenFresh ==
    ASSUME QueueInv, StoreInv, FilesInv, FreshInv, OpenFails \/ OpenInstall \/ OpenEnds
    PROVE  FreshInv'
<1>1. CASE OpenFails
  <2>1. /\ phase = "down" /\ phase' = "failed" /\ bg' = IdleBg
        /\ UNCHANGED <<tables, logs, manifests, current, mem, imm, job>>
    BY <1>1 DEF OpenFails, FilesInv, QuietInv, callVars, memVars, bgVars, diskVars
  <2>2. RecordsInv' /\ CutsInv' /\ DownInv'
    BY <2>1 DEF FreshInv, RecordsInv, CutsInv, DownInv, InMemory
  <2> QED
    BY <2>1, <2>2, DownFresh
<1>2. CASE OpenInstall \/ OpenEnds
  <2> DEFINE e == [add |-> version, del |-> {}, log |-> log_number, next |-> next_file, last |-> last_sequence]
             m == [edits |-> <<e>>, synced |-> 1]
  <2>1. /\ phase \in {"opening", "installed"}
        /\ UNCHANGED <<mem, imm, job, version, logfile, next_file, log_number, manifest_file, last_sequence, bg>>
    BY <1>2 DEF OpenInstall, OpenEnds, callVars, memVars, versionVars, bgVars
  <2>2. /\ manifests[manifest_file] = m
        /\ Below(RecsOf(tables, version), last_sequence) /\ Apart(RecsOf(tables, version))
        /\ LogsFrom(logs, log_number) = {}
        /\ logfile <= next_file /\ log_number <= next_file
        /\ InMemory = {} /\ job.stage = "none"
    BY <2>1 DEF FreshInv, BegunInv, DownInv
  <2>3. bg = IdleBg /\ bg'.stage = "idle" /\ bg'.out = 0 /\ Held(tables, version)
        /\ \A n \in Numbers(version) : n < next_file
    BY <2>1 DEF FilesInv, QuietInv, OpeningInv, IdleBg
  <2>4. e \in Edits /\ e.add = version /\ e.log = log_number /\ e.next = next_file /\ e.last = last_sequence
    BY DEF StoreInv, NumbersInv, Edits
  <2> HIDE DEF e
  <2>5. SoundCuts(tables, m) /\ ApartCuts(tables, logs, m)
    <3>1. RecsOf(tables, e.add) \cup LogsFrom(logs, e.log) = RecsOf(tables, version)
      BY <2>2, <2>4
    <3> QED
      BY <2>2, <2>3, <2>4, <3>1, SingleCuts
  <2> HIDE DEF m
  <2>6. CASE OpenInstall
    <3>1. /\ phase' = "installed" /\ current' = manifest_file /\ UNCHANGED <<tables, logs, manifests>>
      BY <2>6 DEF OpenInstall
    <3>2. RecordsInv' /\ CutsInv' /\ DownInv'
      BY <2>1, <2>2, <2>5, <3>1 DEF FreshInv, RecordsInv, CutsInv, DownInv, InMemory
    <3>3. BegunInv'
      BY <2>1, <3>1 DEF FreshInv, BegunInv
    <3> QED
      BY <2>3, <3>1, <3>2, <3>3 DEF FreshInv, StoredInv, EditFresh, OutFresh
  <2>7. CASE OpenEnds
    <3> DEFINE S == DOMAIN tables \cap ({} \cup Numbers(version \cup {}))
               T == { n \in DOMAIN logs : n >= log_number }
    <3>1. /\ phase = "installed" /\ phase' = "up" /\ current' = current
          /\ DeleteObsoleteFiles(manifests, version, {}, log_number, {}, FALSE)
      BY <2>7 DEF OpenEnds
    <3>2. tables' = Restrict(tables, S) /\ logs' = Restrict(logs, T)
      BY <3>1 DEF DeleteObsoleteFiles
    <3>3. S \subseteq Numbers(version) \cap DOMAIN tables /\ S \subseteq DOMAIN tables
      BY DEF Numbers
    <3> HIDE DEF S
    <3>4. DOMAIN tables' = S /\ (\A n \in S : tables'[n] = tables[n]) /\ TablesLess(tables', tables)
      BY <3>2, <3>3, RestrictTables, RestrictTablesLess
    <3>5. TableRecs(tables') \subseteq RecsOf(tables, version)
      BY <3>3, <3>4 DEF TableRecs, RecsOf
    <3>6. LogsFrom(logs', 0) = {}
      <4>1. DOMAIN logs' = T /\ \A n \in T : logs'[n] = logs[n]
        BY <3>2 DEF Restrict
      <4>2. LogsFrom(logs', 0) \subseteq LogsFrom(logs, log_number)
        BY <4>1 DEF LogsFrom
      <4> QED
        BY <2>2, <4>2
    <3>7. Stored' \subseteq RecsOf(tables, version)
      BY <2>1, <2>2, <3>5, <3>6 DEF Stored, InMemory
    <3>8. StoredInv'
      <4>1. Below(Stored', last_sequence) /\ Apart(Stored')
        BY <2>2, <3>7, BelowLess, ApartLess
      <4> QED
        BY <2>1, <2>2, <4>1 DEF StoredInv
    <3>9. RecordsInv'
      <4>1. TableRecs(tables') \subseteq TableRecs(tables)
        BY <3>5, RecsOfTables
      <4> QED
        BY <2>1, <4>1 DEF FreshInv, RecordsInv, InMemory
    <3>10. CutsInv'
      <4>1. /\ current = manifest_file /\ manifest_file \in DOMAIN manifests /\ LogsInv /\ manifest_file \in Nat
            /\ manifests \in [DOMAIN manifests -> Manifests]
        BY <3>1 DEF StoreInv, ManifestsInv, NumbersInv
      <4>2. manifests'[manifest_file] = manifests[manifest_file]
        BY <3>1, <4>1, DeleteStore
      <4> QED
        BY <3>1, <3>4, <4>1, <4>2, CutsStay DEF FreshInv
    <3>11. EditFresh' /\ OutFresh'
      BY <2>1, <2>2, <2>3 DEF EditFresh, OutFresh
    <3> QED
      BY <3>1, <3>8, <3>9, <3>10, <3>11, UpFresh
  <2> QED
    BY <1>2, <2>6, <2>7
<1> QED
  BY <1>1, <1>2

\* At first there is no record.
LEMMA InitFresh == Init => FreshInv
<1> SUFFICES ASSUME Init PROVE FreshInv
  OBVIOUS
<1>1. /\ phase = "down" /\ bg = IdleBg /\ current = 1 /\ mem = {} /\ imm = Nothing /\ job = IdleJob /\ logs = <<>>
  BY DEF Init
<1>2. PICK start \in Starts :
        /\ tables = [n \in Numbers(start.files) |-> [recs |-> {}, synced |-> TRUE]]
        /\ manifests = [n \in {1} |-> [edits  |-> <<[add |-> start.files, del |-> {}, log |-> 0,
                                                  next |-> Max({1} \cup Numbers(start.files)) + 1, last |-> 0]>>,
                                    synced |-> 1]]
  BY DEF Init
<1> DEFINE next == Max({1} \cup Numbers(start.files)) + 1
           e == [add |-> start.files, del |-> {}, log |-> 0, next |-> next, last |-> 0]
           m == [edits |-> <<e>>, synced |-> 1]
<1>3. next \in Nat /\ start.files \in SUBSET Files /\ \A n \in Numbers(start.files) : n < next
  BY StartIs
<1>4. manifests[current] = m
  BY <1>1, <1>2
<1> HIDE DEF next
<1>5. e \in Edits /\ e.add = start.files /\ e.next = next /\ e.log = 0 /\ e.last = 0
  BY <1>3 DEF Edits
<1>6. TableRecs(tables) = {} /\ RecsOf(tables, start.files) = {}
  BY <1>2 DEF TableRecs, RecsOf
<1>7. LogsFrom(logs, e.log) = {}
  <2>1. DOMAIN logs = {}
    BY <1>1
  <2> QED
    BY <2>1 DEF LogsFrom
<1> HIDE DEF e
<1>8. SoundCuts(tables, m) /\ ApartCuts(tables, logs, m)
  <2>1. Below(RecsOf(tables, e.add), e.last) /\ e.log <= e.next /\ \A n \in Numbers(e.add) : n < e.next
    BY <1>3, <1>5, <1>6 DEF Below
  <2>2. Apart(RecsOf(tables, e.add) \cup LogsFrom(logs, e.log))
    BY <1>5, <1>6, <1>7 DEF Apart
  <2> QED
    BY <1>5, <2>1, <2>2, SingleCuts
<1> HIDE DEF m
<1>9. InMemory = {} /\ job.stage = "none" /\ bg.stage = "idle" /\ bg.out = 0
  BY <1>1 DEF InMemory, IdleJob, IdleBg
<1>10. RecordsInv /\ CutsInv /\ DownInv
  BY <1>4, <1>6, <1>8, <1>9 DEF RecordsInv, CutsInv, DownInv
<1> QED
  BY <1>1, <1>9, <1>10 DEF FreshInv, BegunInv, StoredInv, EditFresh, OutFresh

\* Every step keeps the records apart.
LEMMA NextFresh == QueueInv /\ StoreInv /\ FilesInv /\ FreshInv /\ [Next]_vars => FreshInv'
<1> SUFFICES ASSUME QueueInv, StoreInv, FilesInv, FreshInv, [Next]_vars PROVE FreshInv'
  OBVIOUS
<1>1. ASSUME NEW w \in Writes, Write(w) \/ LeadWrite(w) PROVE FreshInv'
  BY <1>1, CallsFresh
<1>2. CASE GoOnWriting
  BY <1>2, JobFresh
<1>3. CASE Background
  BY <1>3, TableFresh, MergeFresh, ManifestFresh, InstallFresh DEF Background
<1>4. CASE OpenIterator \/ CloseIterator \/ Open
  BY <1>4, IteratorFresh, RecoverFresh, OpenFresh DEF Open
<1>5. CASE ProcessCrash \/ MachineCrash
  BY <1>5, CrashFresh
<1>6. CASE UNCHANGED vars
  <2>1. UNCHANGED <<phase, tables, manifests, current, manifest_file, version, next_file, bg, imm, mem, logs, job,
                    logfile, log_number, last_sequence>>
    BY <1>6 DEF vars, callVars, memVars, versionVars, bgVars, diskVars
  <2>2. InMemory' = InMemory /\ Stored' = Stored
    BY <2>1 DEF InMemory, Stored, InFlight
  <2>3. RecordsInv' /\ CutsInv' /\ DownInv' /\ BegunInv'
    BY <2>1, <2>2 DEF FreshInv, RecordsInv, CutsInv, DownInv, BegunInv
  <2>4. StoredInv' /\ EditFresh' /\ OutFresh'
    BY <2>1, <2>2 DEF FreshInv, StoredInv, EditFresh, OutFresh
  <2> QED
    BY <2>3, <2>4 DEF FreshInv
<1> QED
  BY <1>1, <1>2, <1>3, <1>4, <1>5, <1>6 DEF Next

\* All four invariants hold of every state the store reaches.
LEMMA FreshAlways == Spec => [](QueueInv /\ StoreInv /\ FilesInv /\ FreshInv)
<1>1. Init => FreshInv
  BY InitFresh
<1>2. (QueueInv /\ StoreInv /\ FilesInv) /\ FreshInv /\ [Next]_vars => FreshInv'
  BY NextFresh
<1> QED
  BY <1>1, <1>2, FilesAlways, PTL DEF Spec

\* No two batches in an open store have a sequence number in common, and the next
\* to be given is higher than all, whatever was torn, retried, left behind by a
\* failed call or replayed from a log of which a table had been made.
THEOREM SequencesCorrect == Spec => []SequencesFresh
<1>1. QueueInv /\ StoreInv /\ FilesInv /\ FreshInv => SequencesFresh
  <2> SUFFICES ASSUME FreshInv, phase = "up"
               PROVE  /\ \A r \in Contents : r.seq + Len(r.ws) - 1 <= last_sequence
                      /\ \A r, q \in Contents : r # q => r.seq + Len(r.ws) <= q.seq \/ q.seq + Len(q.ws) <= r.seq
    BY DEF SequencesFresh
  <2>1. Contents = InMemory \cup RecordsIn(version)
    BY DEF Contents, InMemory
  <2>2. RecordsIn(version) \subseteq TableRecs(tables)
    BY DEF RecordsIn, TableRecs
  <2>3. Contents \subseteq Stored
    BY <2>1, <2>2 DEF Stored
  <2> QED
    BY <2>3 DEF FreshInv, StoredInv, Below, Apart, Earlier
<1> QED
  BY <1>1, FreshAlways, PTL
=============================================================================
