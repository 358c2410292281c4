----------------------------- MODULE MCLevelStore -----------------------------
(* Three writes: one of a byte, one of more than a block with sync, and the *)
(* NULL batch that forces a new memtable.                                   *)
EXTENDS LevelStore

CONSTANTS w1, w2, w3

MCWrites == {w1, w2, w3}
MCBatchSize == (w1 :> 1) @@ (w2 :> 4) @@ (w3 :> 0)
MCSyncs == {w2}

\* A new database and all writes, or one with work for the background and two.
MCStarts ==
  { [files |-> {}, writes |-> MCWrites],
    [files |-> {[level |-> 0, number |-> 3], [level |-> 1, number |-> 2]}, writes |-> {w2, w3}] }
=============================================================================
