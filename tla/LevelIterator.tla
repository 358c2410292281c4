----------------------------- MODULE LevelIterator -----------------------------
(***************************************************************************)
(* The iterators of LevelDB (table/merger.cc and db/db_iter.cc, the pod    *)
(* leveldb-library): several sorted sources are read as one, and the       *)
(* entries of a user key as the one that a snapshot sees, in both          *)
(* directions and with turns between them.                                 *)
(*                                                                         *)
(* A source is a set of entries, a position in it an entry or Nothing.  A  *)
(* source may grow while it is read.                                       *)
(***************************************************************************)
EXTENDS Integers, Sequences, SequencesExt

CONSTANT Nothing

\* InternalKeyComparator::Compare.
Before(d, e) == d.key < e.key \/ (d.key = e.key /\ d.seq > e.seq)

First(es) == CHOOSE e \in es : \A d \in es : ~Before(d, e)
Final(es) == CHOOSE e \in es : \A d \in es : ~Before(e, d)

-----------------------------------------------------------------------------
(* A source: a memtable, a table, or the tables of a level from 1 one after     *)
(* the other (Version::LevelFileNumIterator under a TwoLevelIterator).          *)

SeekToFirst(es) == IF es = {} THEN Nothing ELSE First(es)
SeekToLast(es)  == IF es = {} THEN Nothing ELSE Final(es)
Seek(es, e)     == SeekToFirst({ d \in es : ~Before(d, e) })
After(es, e)    == SeekToFirst({ d \in es : Before(e, d) })
Ahead(es, e)    == SeekToLast({ d \in es : Before(d, e) })

-----------------------------------------------------------------------------
(* MergingIterator: children, where each is, which is current_ (0 for NULL) and *)
(* the direction.                                                               *)

Valid(m) == m.current # 0
Key(m) == m.at[m.current]

FindSmallest(m) ==
  LET on == { i \in DOMAIN m.at : m.at[i] # Nothing }
  IN  [m EXCEPT !.back = FALSE,
         !.current = IF on = {} THEN 0 ELSE CHOOSE i \in on : \A j \in on : ~Before(m.at[j], m.at[i])]

FindLargest(m) ==
  LET on == { i \in DOMAIN m.at : m.at[i] # Nothing }
  IN  [m EXCEPT !.back = TRUE,
         !.current = IF on = {} THEN 0 ELSE CHOOSE i \in on : \A j \in on : ~Before(m.at[i], m.at[j])]

NewMergingIterator(children) ==
  [children |-> children, at |-> [i \in DOMAIN children |-> Nothing], current |-> 0, back |-> FALSE]

MergeToFirst(m) == FindSmallest([m EXCEPT !.at = [i \in DOMAIN @ |-> SeekToFirst(m.children[i])]])
MergeToLast(m)  == FindLargest([m EXCEPT !.at = [i \in DOMAIN @ |-> SeekToLast(m.children[i])]])
MergeSeek(m, e) == FindSmallest([m EXCEPT !.at = [i \in DOMAIN @ |-> Seek(m.children[i], e)]])

\* A mutant of MergeNext: on a turn the other children stay where they are.
MergeNextUnturned(m) ==
  FindSmallest([m EXCEPT !.at[m.current] = After(m.children[m.current], Key(m))])

\* On a turn the other children are put to this side of the key.
MergeNext(m) ==
  FindSmallest([m EXCEPT !.at = [i \in DOMAIN @ |->
    IF i = m.current THEN After(m.children[i], Key(m))
    ELSE IF m.back THEN Seek(m.children[i], Key(m)) ELSE @[i]]])

MergePrev(m) ==
  FindLargest([m EXCEPT !.at = [i \in DOMAIN @ |->
    IF i = m.current \/ ~m.back THEN Ahead(m.children[i], Key(m)) ELSE @[i]]])

-----------------------------------------------------------------------------
(* DBIter: iter_ (as in), sequence_, direction_ (back), valid_, and the entry   *)
(* of saved_key_ and saved_value_ where it goes backward.                       *)

\* A loop over what m reads: Step is taken until Done, which is at the latest when
\* each entry was passed.
Loop(m, Step(_), Done(_), start) ==
  LET state[n \in Nat] == IF n = 0 THEN start
                          ELSE LET s == state[n - 1] IN IF Done(s) THEN s ELSE Step(s)
  IN  state[1 + MapThenSumSet(LAMBDA i : Cardinality(m.children[i]), DOMAIN m.children)]

\* From the position of iter_ on: the first value that is not of a key up to skip.
FindNextUserEntry(it, skip) ==
  LET Step(s) ==
        LET e == Key(s.it.in)
            in == MergeNext(s.it.in)
            seen == e.seq <= it.seq
        IN  IF seen /\ e.type = "value" /\ e.key > s.skip
            THEN [s EXCEPT !.it.valid = TRUE, !.done = TRUE]
            ELSE [it |-> [s.it EXCEPT !.in = in, !.valid = FALSE],
                  skip |-> IF seen /\ e.type = "deletion" THEN e.key ELSE s.skip,
                  done |-> ~Valid(in)]
  IN  Loop(it.in, Step, LAMBDA s : s.done, [it |-> it, skip |-> skip, done |-> FALSE]).it

Forward(it, in, skip) ==
  LET to == [it EXCEPT !.in = in, !.back = FALSE, !.saved = Nothing]
  IN  IF Valid(in) THEN FindNextUserEntry(to, skip) ELSE [to EXCEPT !.valid = FALSE]

\* From the position of iter_ back: the newest entry of each key it passes, until
\* that is a value and the next is of another key.
FindPrevUserEntry(it) ==
  LET Seen(s) == Key(s.in).seq <= s.seq
      Done(s) == ~Valid(s.in) \/ (Seen(s) /\ s.saved # Nothing /\ Key(s.in).key < s.saved.key)
      Step(s) == [s EXCEPT !.in = MergePrev(@),
                   !.saved = IF ~Seen(s) THEN @ ELSE IF Key(s.in).type = "deletion" THEN Nothing ELSE Key(s.in)]
      end == Loop(it.in, Step, Done, it)
  IN  [end EXCEPT !.valid = end.saved # Nothing, !.back = end.saved # Nothing]

Backward(it, in) == FindPrevUserEntry([it EXCEPT !.in = in, !.back = TRUE, !.saved = Nothing])

NewDBIterator(children, s) ==
  [in |-> NewMergingIterator(children), seq |-> s, back |-> FALSE, valid |-> FALSE, saved |-> Nothing]

\* The methods of DBIter.
IterSeek(it, key)   == Forward(it, MergeSeek(it.in, [key |-> key, seq |-> it.seq]), 0)
IterSeekToFirst(it) == Forward(it, MergeToFirst(it.in), 0)
IterSeekToLast(it)  == Backward(it, MergeToLast(it.in))

\* Going backward, iter_ is just before the entries of the key.
IterNext(it) ==
  IF ~it.back THEN Forward(it, it.in, Key(it.in).key)
  ELSE Forward(it, IF Valid(it.in) THEN MergeNext(it.in) ELSE MergeToFirst(it.in), it.saved.key)

\* Going forward, iter_ is on one of the entries of the key.
Leave(m, key) == Loop(m, MergePrev, LAMBDA n : ~(Valid(n) /\ Key(n).key = key), m)

IterPrev(it) ==
  LET in == IF it.back THEN it.in ELSE Leave(it.in, Key(it.in).key)
  IN  IF Valid(in) \/ it.back THEN Backward(it, in)
      ELSE [it EXCEPT !.in = in, !.valid = FALSE, !.saved = Nothing]

\* key() and value().
Shown(it) == IF ~it.valid THEN Nothing ELSE IF it.back THEN it.saved ELSE Key(it.in)
=============================================================================
