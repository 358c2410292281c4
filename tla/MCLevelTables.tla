----------------------------- MODULE MCLevelTables -----------------------------
(* Three keys and up to three more writes, on what the five or six writes of *)
(* an earlier process may have become.                                       *)
EXTENDS LevelTables, TLC

Put(k, s) == [key |-> k, seq |-> s, type |-> "value"]
Del(k, s) == [key |-> k, seq |-> s, type |-> "deletion"]
Table(n, l, es) == [number |-> n, level |-> l, entries |-> es]

MCMaxBytesForLevel == (1 :> 2) @@ (2 :> 4)

\* For an iterator: the entries of its keys are on all levels, with a deletion among them.
SpreadOut(writes, samples) ==
  [ops |-> <<Put(1, 1), Put(2, 2), Put(3, 3), Del(2, 4), Put(3, 5), Put(1, 6)>>,
   files |-> {Table(1, 3, {Put(1, 1)}), Table(2, 3, {Put(2, 2), Put(3, 3)}), Table(3, 2, {Del(2, 4)}),
              Table(4, 1, {Put(3, 5)}), Table(5, 0, {Put(1, 6)})},
   writes |-> writes, snapshots |-> 0, iterators |-> 1, samples |-> samples, ranges |-> <<>>]

MCStarts ==
  { \* Keys 1 and 3 on levels 0 and 1, between them nothing but an old value of 2.
    [ops |-> <<Put(2, 1), Put(1, 2), Put(3, 3), Put(1, 4), Put(3, 5)>>,
     files |-> {Table(1, 2, {Put(2, 1)}), Table(2, 1, {Put(1, 2)}), Table(3, 1, {Put(3, 3)}),
                Table(4, 0, {Put(1, 4)}), Table(5, 0, {Put(3, 5)})},
     writes |-> 2, snapshots |-> 0, iterators |-> 0, samples |-> 0, ranges |-> <<<<0, 4>>>>],
    \* Old values at the bottom, a deletion above them.
    [ops |-> <<Put(1, 1), Put(2, 2), Put(3, 3), Del(2, 4), Put(1, 5)>>,
     files |-> {Table(2, 3, {Put(1, 1), Put(2, 2)}), Table(3, 3, {Put(3, 3)}),
                Table(4, 2, {Del(2, 4)}), Table(5, 1, {Put(1, 5)})},
     writes |-> 3, snapshots |-> 1, iterators |-> 0, samples |-> 0, ranges |-> <<>>],
    \* A level that is too large, above one that is partly covered.
    [ops |-> <<Put(1, 1), Put(3, 2), Put(1, 3), Put(2, 4), Put(3, 5)>>,
     files |-> {Table(1, 2, {Put(1, 1)}), Table(2, 2, {Put(3, 2)}),
                Table(3, 1, {Put(1, 3), Put(2, 4)}), Table(4, 1, {Put(3, 5)})},
     writes |-> 1, snapshots |-> 1, iterators |-> 0, samples |-> 0, ranges |-> <<<<2, 3>>>>],
    \* Two tables of level 0 in a chain.
    [ops |-> <<Put(1, 1), Put(1, 2), Put(2, 3), Del(2, 4), Put(3, 5)>>,
     files |-> {Table(1, 1, {Put(1, 1)}), Table(2, 0, {Put(1, 2), Put(2, 3)}), Table(3, 0, {Del(2, 4), Put(3, 5)})},
     writes |-> 1, snapshots |-> 1, iterators |-> 0, samples |-> 0, ranges |-> <<<<3, 4>>>>],
    \* A user key in two tables of level 2, where a snapshot once kept both entries apart.
    [ops |-> <<Put(2, 1), Del(2, 2), Put(3, 3), Put(1, 4), Put(1, 5)>>,
     files |-> {Table(1, 2, {Put(1, 4), Del(2, 2)}), Table(2, 2, {Put(2, 1), Put(3, 3)}),
                Table(3, 1, {Put(1, 5)})},
     writes |-> 1, snapshots |-> 1, iterators |-> 0, samples |-> 0, ranges |-> <<<<1, 1>>>>],
    SpreadOut(2, 0), SpreadOut(1, 1)
  }
=============================================================================
