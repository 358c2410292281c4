------------------------------ MODULE LevelTables ------------------------------
(***************************************************************************)
(* Tables, levels and compactions of LevelDB (db/version_set.cc, and the   *)
(* compactions of db/db_impl.cc; the pod leveldb-library): where a table   *)
(* goes, what a compaction takes, drops and makes, and where a read looks. *)
(*                                                                         *)
(* A value is the sequence number of its write.  Sizes count entries.  The *)
(* background is one thread: its steps are cut where it lets go of the     *)
(* mutex and another thread can do something that matters.  Errors and     *)
(* crashes: LevelStore.                                                    *)
(***************************************************************************)
EXTENDS LevelIterator

CONSTANTS
  NumKeys,             \* user keys are 1 .. NumKeys
  NumLevels, MaxMemCompactLevel, L0CompactionTrigger,  \* of namespace config
  MemSize,             \* write_buffer_size, where entries are small
  TargetFileSize,      \* max_file_size: of outputs, and the limit of CompactRange
  MaxBytesForLevel,    \* of each level from 1
  MaxGrandParentOverlap, ExpandedCompactionLimit,
  Starts               \* what an earlier process may have left, and what is to come: so many
                       \* writes, snapshots, iterators and samples they take, and calls of
                       \* CompactRange (0 and NumKeys + 1 stand for NULL)

ASSUME LevelTablesAssumption ==
  /\ {NumKeys, MemSize, TargetFileSize, L0CompactionTrigger} \subseteq Nat \ {0}
  /\ NumLevels \in Nat /\ MaxMemCompactLevel \in 0 .. NumLevels - 2
  /\ MaxBytesForLevel \in [1 .. NumLevels - 2 -> Nat \ {0}]

VARIABLES
  mem, imm,            \* entries of mem_ and imm_
  files,               \* of versions_->current()
  next_file, last_sequence,
  compact_pointer,     \* of each level, an entry or Nothing
  file_to_compact,     \* of the current version
  snapshots,
  iter,                \* an iterator the client has, or Nothing
  bg,                  \* the compaction under way, or Nothing
  call,                \* a call of DBImpl::CompactRange, or Nothing
  todo,                \* of what is to come
  \* history: all writes, and what is known to go wrong
  ops, parted, hole

memVars     == <<mem, imm, last_sequence, ops, iter>>
versionVars == <<files, next_file, compact_pointer, file_to_compact>>
faults      == <<parted, hole>>
vars == <<memVars, versionVars, snapshots, bg, call, todo, faults>>

-----------------------------------------------------------------------------
(* Keys, files, levels *)

Size(fs) == MapThenSumSet(LAMBDA f : Cardinality(f.entries), fs)

EntriesOf(fs) == UNION { f.entries : f \in fs }

\* What selection sort makes of a set, for the choice of the first of what is left.
Selected(Least(_), all) ==
  LET from[s \in SUBSET all] == IF s = {} THEN <<>> ELSE LET x == Least(s) IN <<x>> \o from[s \ {x}]
  IN  from[all]

\* Entries in order, files by their smallest keys, and files by their age.
InOrder(es)  == Selected(First, es)
Sorted(fs)   == Selected(LAMBDA s : CHOOSE f \in s : \A g \in s : ~Before(First(g.entries), First(f.entries)), fs)
ByNumber(fs) == Selected(LAMBDA s : CHOOSE f \in s : \A g \in s : f.number <= g.number, fs)

Level(l) == Sorted({ f \in files : f.level = l })

\* The binary search of FindFile, for the first file that ends at or after a key.
FindFile(fs, key) ==
  LET search[r \in (0 .. Len(fs)) \X (0 .. Len(fs))] ==
        LET mid == (r[1] + r[2]) \div 2
        IN  IF r[1] >= r[2] THEN r[2]
            ELSE IF Before(Final(fs[mid + 1].entries), key) THEN search[<<mid + 1, r[2]>>]
            ELSE search[<<r[1], mid>>]
  IN  1 + search[<<0, Len(fs)>>]

\* ~AfterFile and ~BeforeFile: by user keys.
Meets(f, begin, end) == begin <= Final(f.entries).key /\ First(f.entries).key <= end

\* SomeFileOverlapsRange; it searches where the files of a level do not overlap.
OverlapInLevel(l, begin, end) ==
  IF l = 0 THEN \E f \in files : f.level = 0 /\ Meets(f, begin, end)
  ELSE LET fs == Level(l)
           i == FindFile(fs, [key |-> begin, seq |-> last_sequence])
       IN  i <= Len(fs) /\ First(fs[i].entries).key <= end

\* Version::GetOverlappingInputs.  On level 0 the range grows with each file that
\* it meets: to the least range that no file crosses the ends of.
GetOverlappingInputs(l, begin, end) ==
  LET fs == { f \in files : f.level = l }
      Closed(r) == /\ r[1] <= begin /\ end <= r[2]
                   /\ \A f \in fs : Meets(f, r[1], r[2])
                        => r[1] <= First(f.entries).key /\ Final(f.entries).key <= r[2]
      closed == { r \in (0 .. NumKeys + 1) \X (0 .. NumKeys + 1) : Closed(r) }
  IN  IF l > 0 THEN { f \in fs : Meets(f, begin, end) }
      ELSE { f \in fs : Meets(f, Max({ r[1] : r \in closed }), Min({ r[2] : r \in closed })) }

OverlappingFiles(l, fs) == GetOverlappingInputs(l, First(EntriesOf(fs)).key, Final(EntriesOf(fs)).key)

\* "Make sure there is no overlap in levels > 0" (version_set.cc:741).
Disjoint(fs) ==
  \A f, g \in fs : f # g /\ f.level = g.level /\ f.level > 0
    => Before(Final(f.entries), First(g.entries)) \/ Before(Final(g.entries), First(f.entries))

\* A write as tables keep it.
Entry == [key : 1 .. NumKeys, seq : Nat, type : {"value", "deletion"}]

\* The entries of a user key that a snapshot sees.
Hits(es, k, s) == { e \in es : e.key = k /\ e.seq <= s }

\* Of a user key the files that are looked into first have the newer entries.
Above(f, g) == f.level < g.level \/ (f.level = 0 /\ g.level = 0 /\ f.number > g.number)

NewestAbove(fs) ==
  \A f, g \in fs :
    /\ f.level = 0 /\ g.level = 0 /\ f.number = g.number => f = g
    /\ Above(f, g) => \A d \in f.entries, e \in g.entries : d.key = e.key => d.seq > e.seq

\* At s the newest write of a user key is kept, or it was a deletion and nothing is.
Complete(os, es, s) ==
  \A i \in 1 .. s : (\A j \in i + 1 .. s : os[j].key # os[i].key)
    => os[i] \in es \/ (os[i].type = "deletion" /\ Hits(es, os[i].key, s) = {})

\* A start has tables of writes that were numbered one by one, in line from level 1,
\* with what is to be read of the writes where it is looked for.
ASSUME StartsAssumption ==
  \A s \in Starts :
    /\ s.ops \in Seq(Entry) /\ \A i \in 1 .. Len(s.ops) : s.ops[i].seq = i
    /\ IsFiniteSet(s.files)
    /\ s.files \subseteq [number : Nat, level : Nat, entries : (SUBSET Range(s.ops)) \ {{}}]
    /\ \A f \in s.files : f.level < NumLevels
    /\ Disjoint(s.files) /\ NewestAbove(s.files) /\ Complete(s.ops, EntriesOf(s.files), Len(s.ops))

-----------------------------------------------------------------------------
(* Reads *)

\* The files Version::Get looks into, in its order: those of level 0 that may have
\* the key, newest first, and one of each other level.
Searched(k, s) ==
  LET level0 == Reverse(ByNumber({ f \in files : f.level = 0 /\ Meets(f, k, k) }))
      In(l) == LET fs == Level(l)
                   i == FindFile(fs, [key |-> k, seq |-> s])
               IN  IF i <= Len(fs) /\ First(fs[i].entries).key <= k THEN <<fs[i]>> ELSE <<>>
  IN  level0 \o FlattenSeq([l \in 1 .. NumLevels - 1 |-> In(l)])

\* DBImpl::Get at a snapshot: the first place with an entry for the key answers.
\* 0 is NotFound.
Get(k, s) ==
  LET places == <<mem, IF imm = Nothing THEN {} ELSE imm>>
                \o [i \in DOMAIN Searched(k, s) |-> Searched(k, s)[i].entries]
      found == { i \in DOMAIN places : Hits(places[i], k, s) # {} }
      e == First(Hits(places[Min(found)], k, s))
  IN  IF found = {} \/ e.type = "deletion" THEN 0 ELSE e.seq

-----------------------------------------------------------------------------
(* Compactions *)

\* A mutant of PickLevelForMemTableOutput: it looks at a level after going there.
PickLevelTooDeep(begin, end) ==
  LET Stops(l) == l = MaxMemCompactLevel \/ OverlapInLevel(l, begin, end)
  IN  Min({ l \in 0 .. MaxMemCompactLevel : Stops(l) })

\* Version::PickLevelForMemTableOutput.
PickLevelForMemTableOutput(begin, end) ==
  LET Stops(l) == \/ l = MaxMemCompactLevel
                  \/ OverlapInLevel(l + 1, begin, end)
                  \/ /\ l + 2 < NumLevels
                     /\ Size(GetOverlappingInputs(l + 2, begin, end)) > MaxGrandParentOverlap
  IN  IF OverlapInLevel(0, begin, end) THEN 0
      ELSE Min({ l \in 0 .. MaxMemCompactLevel : Stops(l) })

\* VersionSet::Finalize: the level with the highest score, the first of equals.
\* A score is a fraction.
Score(l) ==
  LET fs == { f \in files : f.level = l }
  IN  IF l = 0 THEN <<Cardinality(fs), L0CompactionTrigger>> ELSE <<Size(fs), MaxBytesForLevel[l]>>

CompactionLevel ==
  LET Higher(a, b) == a[1] * b[2] > b[1] * a[2]
  IN  CHOOSE l \in 0 .. NumLevels - 2 :
        /\ \A m \in 0 .. l - 1 : Higher(Score(l), Score(m))
        /\ \A m \in l + 1 .. NumLevels - 2 : ~Higher(Score(m), Score(l))

SizeCompaction == Score(CompactionLevel)[1] >= Score(CompactionLevel)[2]

\* VersionSet::SetupOtherInputs: the files of the next level, more files of this one
\* when that takes no more of the next, and the level after for the cuts.
Compaction(l, inputs) ==
  LET next == OverlappingFiles(l + 1, inputs)
      wider == OverlappingFiles(l, inputs \cup next)
      wider_next == OverlappingFiles(l + 1, wider)
      expand == /\ next # {}
                /\ Cardinality(wider) > Cardinality(inputs)
                /\ Size(next) + Size(wider) < ExpandedCompactionLimit
                /\ Cardinality(wider_next) = Cardinality(next)
      in0 == IF expand THEN wider ELSE inputs
      in1 == IF expand THEN wider_next ELSE next
  IN  [level |-> l, in0 |-> in0, in1 |-> in1,
       grandparents |-> IF l + 2 < NumLevels THEN OverlappingFiles(l + 2, in0 \cup in1) ELSE {},
       base |-> files,
       smallest_snapshot |-> Min({last_sequence} \cup snapshots),
       manual |-> FALSE]

\* VersionSet::PickCompaction: the first file after where the last compaction of
\* the level ended, or the file that reads have used up; on level 0 with all
\* files it overlaps.
PickCompaction ==
  LET l == IF SizeCompaction THEN CompactionLevel ELSE file_to_compact.level
      fs == Level(l)
      after == { i \in DOMAIN fs : compact_pointer[l] = Nothing
                                   \/ Before(compact_pointer[l], Final(fs[i].entries)) }
      f == IF SizeCompaction THEN fs[Min(IF after = {} THEN {1} ELSE after)] ELSE file_to_compact
  IN  Compaction(l, IF l = 0 THEN OverlappingFiles(0, {f}) ELSE {f})

\* VersionSet::CompactRange: above level 0 only as many files as make a file.
RangeInputs ==
  LET all == GetOverlappingInputs(call.at, call.begin, call.end)
      fs == Sorted(all)
      Total(i) == Size(Range(SubSeq(fs, 1, i)))
  IN  IF call.at = 0 THEN all
      ELSE { fs[i] : i \in { j \in DOMAIN fs : Total(j - 1) < TargetFileSize } }

\* Compaction::IsTrivialMove.
IsTrivialMove(c) ==
  Cardinality(c.in0) = 1 /\ c.in1 = {} /\ Size(c.grandparents) <= MaxGrandParentOverlap

\* Compaction::IsBaseLevelForKey.
IsBaseLevelForKey(c, k) == \A f \in c.base : f.level >= c.level + 2 => ~Meets(f, k, k)

\* "This deletion marker is obsolete" (db_impl.cc:959).
Obsolete(c, e) ==
  e.type = "deletion" /\ e.seq <= c.smallest_snapshot /\ IsBaseLevelForKey(c, e.key)

\* A mutant of Drops: an older entry goes when it is itself older than the snapshots.
DropsOlder(c, es, i) ==
  (i > 1 /\ es[i - 1].key = es[i].key /\ es[i].seq <= c.smallest_snapshot) \/ Obsolete(c, es[i])

\* The loop of DoCompactionWork on the entries es, in order: which it drops ...
Drops(c, es, i) ==
  (i > 1 /\ es[i - 1].key = es[i].key /\ es[i - 1].seq <= c.smallest_snapshot) \/ Obsolete(c, es[i])

\* ... and where it starts a new file: before an entry with too much of the level
\* after next behind it (ShouldStopBefore), or when a file is large enough.
Finished(r) == IF r.open = {} THEN r.done ELSE Append(r.done, r.open)

Passed(c, e) == { g \in c.grandparents : Before(Final(g.entries), e) }

Goes(c, es, i, r) ==
  LET overlapped == r.overlapped + IF i = 1 THEN 0 ELSE Size(Passed(c, es[i]) \ Passed(c, es[i - 1]))
      stop == overlapped > MaxGrandParentOverlap
      open == (IF stop THEN {} ELSE r.open) \cup IF Drops(c, es, i) THEN {} ELSE {es[i]}
      done == IF stop THEN Finished(r) ELSE r.done
      full == Cardinality(open) >= TargetFileSize
  IN  [done |-> IF full THEN Append(done, open) ELSE done,
       open |-> IF full THEN {} ELSE open,
       overlapped |-> IF stop THEN 0 ELSE overlapped]

Outputs(c) ==
  LET es == InOrder(EntriesOf(c.in0 \cup c.in1))
      after[i \in 0 .. Len(es)] ==
        IF i = 0 THEN [done |-> <<>>, open |-> {}, overlapped |-> 0] ELSE Goes(c, es, i, after[i - 1])
  IN  Finished(after[Len(es)])

-----------------------------------------------------------------------------

Init ==
  /\ \E start \in Starts :
       /\ files = start.files /\ ops = start.ops
       /\ next_file = 1 + Max({0} \cup { f.number : f \in start.files })
       /\ last_sequence = Len(start.ops)
       /\ todo = [writes |-> start.writes, snapshots |-> start.snapshots,
                   iterators |-> start.iterators, samples |-> start.samples, ranges |-> start.ranges]
  /\ mem = {} /\ imm = Nothing /\ iter = Nothing
  /\ compact_pointer = [l \in 0 .. NumLevels - 1 |-> Nothing]
  /\ file_to_compact = Nothing
  /\ snapshots = {} /\ bg = Nothing /\ call = Nothing
  /\ parted = FALSE /\ hole = FALSE

\* The memtable an iterator took is left for a new one; it does not grow any more.
Leaves(it) == IF it = Nothing THEN Nothing ELSE [it EXCEPT !.live = FALSE]

\* It grows: the iterator comes upon the entry where it has not passed it.
Grows(it, e) ==
  IF it # Nothing /\ it.live THEN [it EXCEPT !.db.in.children[1] = @ \cup {e}] ELSE it

\* DBImpl::Write of one key; MakeRoomForWrite waits for imm_ when mem_ is full,
\* which depends on the sizes of its entries.
Write(k, type) ==
  \E full \in BOOLEAN :
    LET e == [key |-> k, seq |-> last_sequence + 1, type |-> type]
    IN  /\ todo.writes > 0 /\ todo' = [todo EXCEPT !.writes = @ - 1]
        /\ full => mem # {} /\ imm = Nothing
        /\ ~full => Cardinality(mem) < MemSize
        /\ mem' = (IF full THEN {} ELSE mem) \cup {e}
        /\ imm' = IF full THEN mem ELSE imm
        /\ last_sequence' = last_sequence + 1
        /\ ops' = Append(ops, e)
        /\ iter' = IF full THEN Leaves(iter) ELSE Grows(iter, e)
        /\ UNCHANGED <<versionVars, snapshots, bg, call, faults>>

GetSnapshot ==
  /\ todo.snapshots > 0 /\ todo' = [todo EXCEPT !.snapshots = @ - 1]
  /\ snapshots' = snapshots \cup {last_sequence}
  /\ UNCHANGED <<memVars, versionVars, bg, call, faults>>

ReleaseSnapshot(s) ==
  /\ snapshots' = snapshots \ {s}
  /\ UNCHANGED <<memVars, versionVars, bg, call, todo, faults>>

\* A Get that needs a second file is charged to the first, whose allowed_seeks may
\* be used up by it (Version::UpdateStats).
ChargeSeek(k) ==
  LET fs == Searched(k, last_sequence)
  IN  /\ file_to_compact = Nothing
      /\ Hits(mem, k, last_sequence) = {}
      /\ imm # Nothing => Hits(imm, k, last_sequence) = {}
      /\ Len(fs) > 1 /\ Hits(fs[1].entries, k, last_sequence) = {}
      /\ file_to_compact' = fs[1]
      /\ UNCHANGED <<memVars, files, next_file, compact_pointer, snapshots, bg, call, todo, faults>>

-----------------------------------------------------------------------------
(* An iterator of the client (db).  It holds on to the memtables and the version *)
(* it was made from, live is whether its memtable still grows.  cursor is        *)
(* history: the key it should be on, 0 if on none.                               *)

\* What a read at s should find.
Latest(k, s) ==
  LET seqs == { i \in 1 .. s : ops[i].key = k }
  IN  IF seqs = {} \/ ops[Max(seqs)].type = "deletion" THEN 0 ELSE Max(seqs)

\* The keys there are at s.
Keys(s) == { k \in 1 .. NumKeys : Latest(k, s) # 0 }

\* DBImpl::NewInternalIterator, Version::AddIterators.
Sources ==
  LET level0 == ByNumber({ f \in files : f.level = 0 })
  IN  <<mem>> \o (IF imm = Nothing THEN <<>> ELSE <<imm>>)
      \o [i \in DOMAIN level0 |-> level0[i].entries]
      \o FlattenSeq([l \in 1 .. NumLevels - 1 |->
           LET fs == { f \in files : f.level = l } IN IF fs = {} THEN <<>> ELSE <<EntriesOf(fs)>>])

NewIterator(s) ==
  /\ todo.iterators > 0 /\ todo' = [todo EXCEPT !.iterators = @ - 1]
  /\ iter' = [db |-> NewDBIterator(Sources, s), live |-> TRUE, cursor |-> 0]
  /\ UNCHANGED <<mem, imm, last_sequence, ops, versionVars, snapshots, bg, call, faults>>

\* A method of the iterator.
Moves(db, cursor) ==
  /\ iter' = [iter EXCEPT !.db = db, !.cursor = cursor]
  /\ UNCHANGED <<mem, imm, last_sequence, ops, versionVars, snapshots, bg, call, todo, faults>>

MoveIterator ==
  /\ iter # Nothing
  /\ LET keys == Keys(iter.db.seq)
         AtOrAfter(k) == Min({ j \in keys : j >= k } \cup IF \E j \in keys : j >= k THEN {} ELSE {0})
         AtOrAhead(k) == Max({0} \cup { j \in keys : j <= k })
     IN  \/ Moves(IterSeekToFirst(iter.db), AtOrAfter(1))
         \/ Moves(IterSeekToLast(iter.db), AtOrAhead(NumKeys))
         \/ \E k \in 1 .. NumKeys : Moves(IterSeek(iter.db, k), AtOrAfter(k))
         \/ iter.db.valid /\ Moves(IterNext(iter.db), AtOrAfter(iter.cursor + 1))
         \/ iter.db.valid /\ Moves(IterPrev(iter.db), AtOrAhead(iter.cursor - 1))

\* DBIter::ParseKey has one entry in so many bytes sampled (Version::RecordReadSample):
\* a lookup of it that would need a second file is charged to the first.
RecordReadSample ==
  /\ iter # Nothing /\ file_to_compact = Nothing
  /\ todo.samples > 0 /\ todo' = [todo EXCEPT !.samples = @ - 1]
  /\ \E e \in UNION Range(iter.db.in.children) :
       LET fs == Searched(e.key, e.seq)
       IN  Len(fs) > 1 /\ file_to_compact' = fs[1]
  /\ UNCHANGED <<memVars, files, next_file, compact_pointer, snapshots, bg, call, faults>>

-----------------------------------------------------------------------------
(* DBImpl::CompactRange: TEST_CompactMemTable (call.at -2, then -1), and        *)
(* TEST_CompactRange for each level.                                         *)

CompactRange ==
  /\ call = Nothing /\ todo.ranges # <<>>
  /\ todo' = [todo EXCEPT !.ranges = Tail(@)]
  /\ LET r == Head(todo.ranges)
     IN  call' = [at |-> -2, from |-> r[1], begin |-> r[1], end |-> r[2], posted |-> FALSE,
                  max |-> Max({1} \cup { l \in 1 .. NumLevels - 1 : OverlapInLevel(l, r[1], r[2]) })]
  /\ UNCHANGED <<memVars, versionVars, snapshots, bg, faults>>

\* The NULL batch forces a new memtable.
ForceSwitch ==
  /\ call # Nothing /\ call.at = -2 /\ imm = Nothing
  /\ imm' = mem /\ mem' = {} /\ iter' = Leaves(iter)
  /\ call' = [call EXCEPT !.at = -1]
  /\ UNCHANGED <<last_sequence, ops, versionVars, snapshots, bg, todo, faults>>

\* The memtable was written; the compaction of a level is asked for, at first and
\* after each part of it.
PostRange ==
  /\ call # Nothing /\ ~call.posted
  /\ call.at >= 0 \/ (call.at = -1 /\ imm = Nothing)
  /\ call' = [call EXCEPT !.at = Max({0, @}), !.posted = TRUE]
  /\ UNCHANGED <<memVars, versionVars, snapshots, bg, todo, faults>>

-----------------------------------------------------------------------------
(* The background thread *)

\* A new version, which no reads have charged yet.
Install(fs) == files' = fs /\ file_to_compact' = Nothing

\* CompactMemTable, of BackgroundCompaction or between two entries of a merge.  A
\* table may land where a manual compaction is about to put one around it.
CompactMemTable ==
  /\ imm # Nothing
  /\ IF imm = {} THEN UNCHANGED <<files, next_file, file_to_compact, hole>>
     ELSE LET begin == First(imm).key
              end == Final(imm).key
              l == PickLevelForMemTableOutput(begin, end)
          IN  /\ Install(files \cup {[number |-> next_file, level |-> l, entries |-> imm]})
              /\ next_file' = next_file + 1
              /\ hole' = (hole \/ /\ bg # Nothing /\ bg.manual /\ l = bg.level + 1
                                  /\ begin <= Final(EntriesOf(bg.in0 \cup bg.in1)).key
                                  /\ First(EntriesOf(bg.in0 \cup bg.in1)).key <= end)
  /\ imm' = Nothing
  /\ UNCHANGED <<mem, last_sequence, ops, iter, compact_pointer, snapshots, bg, call, todo, parted>>

\* History: it takes newer entries of a user key and leaves older ones in a table beside
\* its inputs, to which they are moved down, or, on the next level, by which they are
\* hidden with a deletion that it drops.
Parts(c) ==
  \E f \in files \ (c.in0 \cup c.in1) : \E d \in f.entries :
    \/ f.level = c.level /\ \E e \in EntriesOf(c.in0) : d.key = e.key /\ d.seq < e.seq
    \/ f.level = c.level + 1 /\ \E e \in EntriesOf(c.in1) : d.key = e.key /\ d.seq < e.seq /\ Obsolete(c, e)

\* A compaction begins, or is over at once where it only moves a file.
Begin(c) ==
  /\ parted' = (parted \/ Parts(c))
  /\ compact_pointer' = [compact_pointer EXCEPT ![c.level] = Final(EntriesOf(c.in0))]
  /\ IF ~c.manual /\ IsTrivialMove(c)
     THEN /\ Install((files \ c.in0) \cup { [f EXCEPT !.level = @ + 1] : f \in c.in0 })
          /\ UNCHANGED bg
     ELSE /\ bg' = c
          /\ UNCHANGED <<files, file_to_compact>>

StartCompaction ==
  /\ bg = Nothing /\ imm = Nothing /\ (call # Nothing => ~call.posted)
  /\ SizeCompaction \/ file_to_compact # Nothing
  /\ Begin(PickCompaction)
  /\ UNCHANGED <<memVars, next_file, snapshots, call, todo, hole>>

StartRange ==
  /\ bg = Nothing /\ imm = Nothing
  /\ call # Nothing /\ call.posted /\ RangeInputs # {}
  /\ Begin([Compaction(call.at, RangeInputs) EXCEPT !.manual = TRUE])
  /\ UNCHANGED <<memVars, next_file, snapshots, call, todo, hole>>

\* A mutant of RangeDone: done is not set.
RangeDoneUnset ==
  /\ bg = Nothing /\ imm = Nothing
  /\ call # Nothing /\ call.posted /\ RangeInputs = {}
  /\ call' = [call EXCEPT !.posted = FALSE]
  /\ UNCHANGED <<memVars, versionVars, snapshots, bg, todo, faults>>

\* Nothing of the range is on the level; the next level, or the call returns.
RangeDone ==
  /\ bg = Nothing /\ imm = Nothing
  /\ call # Nothing /\ call.posted /\ RangeInputs = {}
  /\ call' = IF call.at + 1 = call.max THEN Nothing
             ELSE [call EXCEPT !.at = @ + 1, !.begin = call.from, !.posted = FALSE]
  /\ UNCHANGED <<memVars, versionVars, snapshots, bg, todo, faults>>

\* The rest of DoCompactionWork, InstallCompactionResults, and what is left of the
\* range: from where the last of the files ended.
FinishCompaction ==
  LET outputs == Outputs(bg)
      last == Final({ First(f.entries) : f \in bg.in0 })
  IN  /\ bg # Nothing
      /\ Install((files \ (bg.in0 \cup bg.in1))
                 \cup { [number |-> next_file + i - 1, level |-> bg.level + 1, entries |-> outputs[i]]
                        : i \in DOMAIN outputs })
      /\ next_file' = next_file + Len(outputs)
      /\ bg' = Nothing
      /\ call' = IF bg.manual
                 THEN [call EXCEPT !.posted = FALSE,
                         !.begin = Final((CHOOSE f \in bg.in0 : First(f.entries) = last).entries).key]
                 ELSE call
      /\ UNCHANGED <<memVars, compact_pointer, snapshots, todo, faults>>

Background == CompactMemTable \/ StartCompaction \/ StartRange \/ RangeDone \/ FinishCompaction

\* MaybeScheduleCompaction: when the thread has work.
Scheduled ==
  \/ bg # Nothing \/ imm # Nothing
  \/ call # Nothing /\ call.posted
  \/ SizeCompaction \/ file_to_compact # Nothing

Next ==
  \/ \E k \in 1 .. NumKeys : Write(k, "value") \/ Write(k, "deletion") \/ ChargeSeek(k)
  \/ GetSnapshot
  \/ \E s \in snapshots : ReleaseSnapshot(s)
  \/ \E s \in snapshots \cup {last_sequence} : NewIterator(s)
  \/ MoveIterator \/ RecordReadSample
  \/ CompactRange \/ ForceSwitch \/ PostRange
  \/ Background

Spec == Init /\ [][Next]_vars

\* The background thread and the caller of CompactRange run when they can.  (The
\* first is WF_vars(Background) with Scheduled, which is cheaper to evaluate, in the
\* place of ENABLED.)
FairSpec ==
  /\ Spec
  /\ []<>~Scheduled \/ []<><<Background>>_vars
  /\ WF_vars(ForceSwitch \/ PostRange)

-----------------------------------------------------------------------------
(* Properties *)

\* A read, also at a snapshot, finds the newest write it may see, wherever
\* compactions have put it and whatever they dropped, unless one has taken
\* only the newer part of a user key, or a manual one and a memtable crossed.
ReadsRight ==
  parted \/ hole \/ \A k \in 1 .. NumKeys, s \in snapshots \cup {last_sequence} : Get(k, s) = Latest(k, s)

\* An iterator shows the keys its snapshot has and their values then, in order, in
\* both directions and across turns, while writes go to the memtable it reads.
IteratorRight ==
  (iter # Nothing /\ ~parted /\ ~hole) =>
    LET e == Shown(iter.db)
    IN  IF iter.cursor = 0 THEN e = Nothing
        ELSE e # Nothing /\ e.key = iter.cursor /\ e.seq = Latest(iter.cursor, iter.db.seq)

\* The tables of a level from 1 have no key range in common, wherever memtables and
\* compactions put them, unless a manual compaction and a memtable crossed.
LevelsDisjoint == hole \/ Disjoint(files)

\* A manual compaction comes to its end, whatever is written meanwhile.
RangeEnds == call # Nothing ~> call = Nothing
=============================================================================
