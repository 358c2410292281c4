------------------------- MODULE LevelAtomicProofs -------------------------
(***************************************************************************)
(* What LevelDB promises of writes: those that were acknowledged are not   *)
(* lost, and it implements AtomicStore, so that what is read changes only  *)
(* when a write returns, which all writes of its group do together, and in *)
(* a crash, never by a flush, a compaction or recovery.                    *)
(*                                                                         *)
(* Two invariants more are needed, beside those of LevelStoreProofs:       *)
(*                                                                         *)
(*   - each write that was acknowledged is in a record that memory has,    *)
(*     and in one that recovery finds wherever the MANIFEST and the logs   *)
(*     may end (LastInv);                                                  *)
(*   - the converse: nothing is stored that is not shown, unless its write *)
(*     has failed (SeenInv), in every place that the MANIFEST may be cut   *)
(*     at, the logs a crash leaves, the record that is in flight and the   *)
(*     edit about to be installed, so that a crash brings back only writes *)
(*     that failed, or were under way.                                     *)
(***************************************************************************)
EXTENDS LevelStoreProofs

-----------------------------------------------------------------------------
(* Writes that were acknowledged: where each is still found. *)

WritesIn(recs) == UNION { Range(r.ws) : r \in recs }

\* The records that the reader returns of a file whatever is appended to it.
Lasting(file) ==
  { r \in Records : \A ext \in Seq(BytesOf(LogParts)) : r \in Readable(file \o ext) }

\* Those of each log, and those of what a crash of the machine leaves of it.
LastingIn(ls) == [n \in DOMAIN ls |-> Lasting(ls[n].bytes)]

SurvivingIn(ls) == [n \in DOMAIN ls |-> Lasting(SubSeq(ls[n].bytes, 1, ls[n].synced))]

\* What recovery finds that starts with version v, if the logs have the records g.
FoundAt(ts, v, g) == RecsOf(ts, v.files) \cup UNION { g[n] : n \in { m \in DOMAIN g : m >= v.log } }

\* Recovery finds the writes kp as things are, and the writes sf wherever the machine stops.
DiskKeeps(kp, sf, ts, ls, m) ==
  /\ ~Corrupt(m.edits) => kp \subseteq WritesIn(FoundAt(ts, Replayed(m.edits), LastingIn(ls)))
  /\ \A k \in m.synced .. Len(m.edits) :
       ~Corrupt(SubSeq(m.edits, 1, k)) => sf \subseteq WritesIn(FoundAt(ts, VersionAt(m, k), SurvivingIn(ls)))

KeptInv == safe \subseteq kept /\ DiskKeeps(kept, safe, tables, logs, manifests[current])

\* The logs of an open store: no version that recovery may start with has a
\* later one than the current.
BoundInv ==
  phase = "up" =>
    LET m == manifests[manifest_file]
    IN  /\ logfile \in DOMAIN logs /\ \A n \in DOMAIN logs : n < next_file
        /\ \A k \in m.synced .. Len(m.edits) : VersionAt(m, k).log <= logfile
        /\ log_number <= Replayed(m.edits).log
        /\ bg.stage \in {"manifest", "sync"} => log_number <= bg.edit.log /\ bg.edit.log <= logfile
        /\ bg.stage = "sync" => m.edits # <<>> /\ m.edits[Len(m.edits)] = bg.edit

\* The records of the version of a MANIFEST, of the memtable that becomes a table,
\* and of the current one, if its log gives them back.
NearAt(ts, v, g) == RecsOf(ts, v.files) \cup (IF imm = Nothing THEN {} ELSE imm) \cup (mem \cap g[logfile])

\* Once the memtable is written as a table, the logs before the current one are
\* not needed.
MemInv ==
  phase = "up" =>
    LET m == manifests[manifest_file]
        v == Replayed(m.edits)
    IN  /\ kept \subseteq WritesIn(InMemory \cup RecsOf(tables, version))
        /\ ~Corrupt(m.edits) => /\ kept \subseteq WritesIn(NearAt(tables, v, LastingIn(logs)))
                                /\ safe \subseteq WritesIn(NearAt(tables, v, SurvivingIn(logs)))

\* While the store is opened, its log is new and the tables hold all that was acknowledged.
NewLogInv ==
  phase \in {"opening", "installed"} =>
    /\ logfile = log_number /\ logfile \in DOMAIN logs /\ \A n \in DOMAIN logs : n <= logfile
    /\ logfile < next_file
    /\ logs[logfile].bytes = <<>>
    /\ kept \subseteq WritesIn(RecsOf(tables, version))

\* The writer of the log is where the reader will look for its next record.
OffsetInv ==
  /\ phase # "up" => block_offset = 0
  /\ phase = "up" /\ logfile \notin broken =>
       EndsWhole(logs[logfile].bytes, LogParts) /\ AtOffset(logs[logfile].bytes, block_offset)

\* The record of the group that is being written.
JobKept ==
  job.stage # "none" =>
    /\ (\E w \in Range(job.ws) : w \in Syncs) => Head(job.ws) \in Syncs
    /\ Range(job.rec.ws) \subseteq Range(job.ws)
    /\ logfile \notin broken =>
         /\ job.stage \in {"sync", "insert"} => job.rec \in LastingIn(logs)[logfile]
         /\ job.stage = "insert" /\ Head(job.ws) \in Syncs => job.rec \in SurvivingIn(logs)[logfile]

\* The tables of an edit hold what it removes.
EditKeeps ==
  /\ bg.stage = "table" => bg.kind = "imm"
  /\ bg.stage \in {"manifest", "sync"} =>
       \/ /\ bg.kind = "imm" /\ imm # Nothing /\ imm \subseteq RecsOf(tables, bg.edit.add)
          /\ bg.edit.del = {} /\ bg.edit.log = logfile
       \/ /\ bg.kind # "imm" /\ RecsOf(tables, bg.edit.del) \subseteq RecsOf(tables, bg.edit.add)
          /\ bg.edit.log = log_number

\* A compaction reads tables of the version.
InputsInv == phase = "up" => bg.in \subseteq version

LastInv == KeptInv /\ BoundInv /\ MemInv /\ NewLogInv /\ OffsetInv /\ JobKept /\ EditKeeps /\ InputsInv

-----------------------------------------------------------------------------
(* Records that last. *)

LEMMA WritesInMore == ASSUME NEW S, NEW T, S \subseteq T PROVE WritesIn(S) \subseteq WritesIn(T)
  BY DEF WritesIn

LEMMA WritesInCup == \A S, T : WritesIn(S \cup T) = WritesIn(S) \cup WritesIn(T)
  BY DEF WritesIn

\* What lasts is returned,
LEMMA LastingReadable ==
    ASSUME NEW file \in Seq(BytesOf(LogParts))
    PROVE  Lasting(file) \subseteq Readable(file)
<1>1. <<>> \in Seq(BytesOf(LogParts))
  OBVIOUS
<1>2. file \o <<>> = file
  OBVIOUS
<1> QED
  BY <1>1, <1>2 DEF Lasting

\* and is not undone by more bytes,
LEMMA LastingConcat ==
    ASSUME NEW a \in Seq(BytesOf(LogParts)), NEW b \in Seq(BytesOf(LogParts))
    PROVE  Lasting(a) \subseteq Lasting(a \o b)
<1> DEFINE A == BytesOf(LogParts)
<1> HIDE DEF A
<1>1. a \in Seq(A) /\ b \in Seq(A)
  BY DEF A
<1> SUFFICES ASSUME NEW r \in Lasting(a), NEW ext \in Seq(A)
             PROVE  r \in Readable((a \o b) \o ext)
  BY DEF Lasting, A
<1>2. b \o ext \in Seq(A)
  BY ONLY <1>1, ext \in Seq(A), ConcatProperties
<1>3. (a \o b) \o ext = a \o (b \o ext)
  BY ONLY <1>1, ext \in Seq(A), ConcatAssociative
<1>4. r \in Readable(a \o (b \o ext))
  BY <1>2 DEF Lasting, A
<1> QED
  BY <1>3, <1>4

\* so that what lasts of the beginning of a file lasts in the whole.
LEMMA LastingPrefix ==
    ASSUME NEW file \in Seq(BytesOf(LogParts)), NEW c \in 0 .. Len(file)
    PROVE  Lasting(SubSeq(file, 1, c)) \subseteq Lasting(file)
<1> DEFINE A == BytesOf(LogParts)
           a == SubSeq(file, 1, c)
           b == SubSeq(file, c + 1, Len(file))
<1>1. file \in Seq(A)
  OBVIOUS
<1> HIDE DEF A
<1>2. a \in Seq(A) /\ b \in Seq(A) /\ a \o b = file
  <2>1. Len(file) \in Nat /\ c \in Nat /\ c <= Len(file)
    BY <1>1
  <2>2. a \in Seq(A)
    BY <1>1, PrefixSeq
  <2>3. b \in Seq(A)
    <3>1. \A i \in c + 1 .. Len(file) : file[i] \in A
      BY <1>1, <2>1
    <3>2. c + 1 \in Int /\ Len(file) \in Int
      BY <2>1
    <3> QED
      BY <3>1, <3>2, SubSeqProperties
  <2>4. a \o b = file
    <3>1. 1 \in 1 .. Len(file) + 1 /\ c \in 1 - 1 .. Len(file) /\ Len(file) \in c .. Len(file)
      BY <2>1
    <3>2. a \o b = SubSeq(file, 1, Len(file))
      BY <1>1, <3>1, ConcatAdjacentSubSeq
    <3> QED
      BY <1>1, <3>2, SubSeqFull
  <2> QED
    BY <2>2, <2>3, <2>4
<1> HIDE DEF a, b
<1>3. Lasting(a) \subseteq Lasting(a \o b)
  BY <1>2, LastingConcat DEF A
<1> QED
  BY <1>2, <1>3 DEF a

\* And of two beginnings, the longer has what lasts of the shorter.
LEMMA LastingPrefixes ==
    ASSUME NEW file \in Seq(BytesOf(LogParts)), NEW c \in 0 .. Len(file), NEW d \in 0 .. c
    PROVE  Lasting(SubSeq(file, 1, d)) \subseteq Lasting(SubSeq(file, 1, c))
<1> DEFINE f == SubSeq(file, 1, c)
<1>1. f \in Seq(BytesOf(LogParts)) /\ Len(f) = c
  BY PrefixSeq
<1>2. SubSeq(f, 1, d) = SubSeq(file, 1, d)
  BY PrefixTwice
<1> HIDE DEF f
<1>3. Lasting(SubSeq(f, 1, d)) \subseteq Lasting(f)
  BY <1>1, LastingPrefix
<1> QED
  BY <1>2, <1>3 DEF f

-----------------------------------------------------------------------------
(* Logs and tables that have more. *)

\* new has all logs from a number on, and all that lasts in them.
LogsMore(new, old, low) ==
  \A n \in DOMAIN old : n >= low =>
    /\ n \in DOMAIN new
    /\ LastingIn(old)[n] \subseteq LastingIn(new)[n]
    /\ SurvivingIn(old)[n] \subseteq SurvivingIn(new)[n]

LEMMA LogsMoreSame == ASSUME NEW ls, NEW low PROVE LogsMore(ls, ls, low)
  BY DEF LogsMore

\* All logs are more than those from a number on.
LEMMA LogsMoreAll ==
    ASSUME NEW new, NEW old, DOMAIN old \subseteq Nat, LogsMore(new, old, 0), NEW low
    PROVE  LogsMore(new, old, low)
<1>1. \A n \in DOMAIN old : n >= 0
  OBVIOUS
<1> QED
  BY <1>1 DEF LogsMore

\* One log is longer, or more of it is synced.
LEMMA LogsMoreOne ==
    ASSUME LogsInv, NEW new, DOMAIN new = DOMAIN logs, NEW n \in DOMAIN logs,
           \A k \in DOMAIN logs : k # n => new[k] = logs[k],
           NEW x \in Seq(BytesOf(LogParts)), new[n].bytes = logs[n].bytes \o x,
           logs[n].synced <= new[n].synced, new[n].synced \in 0 .. Len(new[n].bytes)
    PROVE  LogsMore(new, logs, 0)
<1> DEFINE a == logs[n].bytes
           c == logs[n].synced
           d == new[n].synced
           b == a \o x
<1>1. a \in Seq(BytesOf(LogParts)) /\ c \in Nat /\ c <= Len(a) /\ Len(a) \in Nat /\ d \in Nat
  BY DEF LogsInv, LogFiles
<1>2. c <= d /\ d <= Len(b) /\ new[n].bytes = b
  OBVIOUS
<1> HIDE DEF c, d
<1>3. /\ b \in Seq(BytesOf(LogParts)) /\ Lasting(a) \subseteq Lasting(b) /\ Len(b) \in Nat
  <2> HIDE DEF a
  <2>1. b \in Seq(BytesOf(LogParts))
    BY <1>1, ConcatProperties
  <2>2. Lasting(a) \subseteq Lasting(b)
    BY <1>1, LastingConcat
  <2> HIDE DEF b
  <2> QED
    BY <2>1, <2>2
<1> HIDE DEF b
<1>4. Lasting(SubSeq(b, 1, c)) \subseteq Lasting(SubSeq(b, 1, d))
  <2>1. d \in 0 .. Len(b) /\ c \in 0 .. d
    BY <1>1, <1>2, <1>3
  <2> QED
    BY <1>3, <2>1, LastingPrefixes
<1>5. SubSeq(b, 1, c) = SubSeq(a, 1, c)
  <2> DEFINE A == BytesOf(LogParts)
             f == SubSeq(b, 1, c)
             g == SubSeq(a, 1, c)
  <2> HIDE DEF A, a
  <2>1. a \in Seq(A) /\ x \in Seq(A) /\ c \in 0 .. Len(a)
    BY <1>1 DEF A
  <2>2. b = a \o x
    BY DEF b
  <2>3. b \in Seq(A) /\ Len(b) = Len(a) + Len(x) /\ \A i \in 1 .. Len(a) : b[i] = a[i]
    <3>1. /\ a \o x \in Seq(A) /\ Len(a \o x) = Len(a) + Len(x)
          /\ \A i \in 1 .. Len(a) + Len(x) : (a \o x)[i] = IF i <= Len(a) THEN a[i] ELSE x[i - Len(a)]
      BY ONLY <2>1, ConcatProperties
    <3> QED
      BY <2>1, <2>2, <3>1
  <2>4. c \in 0 .. Len(b)
    BY <2>1, <2>3
  <2>5. f \in Seq(A) /\ Len(f) = c /\ \A i \in 1 .. c : f[i] = b[i]
    BY ONLY <2>3, <2>4, PrefixSeq
  <2>6. g \in Seq(A) /\ Len(g) = c /\ \A i \in 1 .. c : g[i] = a[i]
    BY ONLY <2>1, PrefixSeq
  <2>7. \A i \in 1 .. c : f[i] = g[i]
    BY <2>1, <2>3, <2>5, <2>6
  <2> HIDE DEF f, g
  <2>8. f = [i \in 1 .. c |-> f[i]] /\ g = [i \in 1 .. c |-> g[i]]
    BY <2>5, <2>6
  <2>9. f = g
    BY <2>7, <2>8
  <2> QED
    BY <2>9 DEF f, g
<1>6. LastingIn(logs)[n] \subseteq LastingIn(new)[n] /\ SurvivingIn(logs)[n] \subseteq SurvivingIn(new)[n]
  BY <1>2, <1>3, <1>4, <1>5 DEF LastingIn, SurvivingIn, a, c, d
<1>7. ASSUME NEW k \in DOMAIN logs, k # n
      PROVE  LastingIn(logs)[k] = LastingIn(new)[k] /\ SurvivingIn(logs)[k] = SurvivingIn(new)[k]
  BY <1>7 DEF LastingIn, SurvivingIn
<1> QED
  BY <1>6, <1>7 DEF LogsMore

\* An append,
LEMMA AppendMore ==
    ASSUME LogsInv, job.rec \in Records, block_offset \in 0 .. BlockSize, logfile \in DOMAIN logs,
           NEW added,
           added = AddRecord(job.rec, DataSize(job.rec.ws), block_offset)
             \/ added \in FailedAdds(job.rec, DataSize(job.rec.ws), block_offset),
           logs' = [logs EXCEPT ![logfile].bytes = @ \o added.bytes]
    PROVE  /\ LogsMore(logs', logs, 0) /\ DOMAIN logs' = DOMAIN logs
           /\ logs'[logfile].bytes = logs[logfile].bytes \o added.bytes
           /\ added.bytes \in Seq(BytesOf(LogParts))
<1> DEFINE old == logs[logfile]
           x == added.bytes
           new == [old EXCEPT !.bytes = @ \o x]
<1>1. x \in Seq(BytesOf(LogParts))
  <2>1. DataSize(job.rec.ws) = Size[job.rec] /\ Size \in [Records -> Nat]
    BY SizeIs
  <2>2. Written(<<>>, LogParts)
    BY DEF Written
  <2> QED
    BY <2>1, <2>2, AddRecordWritten DEF LogParts
<1>2. old \in LogFiles /\ old.synced <= Len(old.bytes)
  BY DEF LogsInv
<1>3. logs' = [logs EXCEPT ![logfile] = new]
  OBVIOUS
<1> HIDE DEF old, x
<1>4. new.bytes = old.bytes \o x /\ new.synced = old.synced
  BY <1>2 DEF LogFiles
<1> HIDE DEF new
<1>5. DOMAIN logs' = DOMAIN logs /\ logs'[logfile] = new /\ \A k \in DOMAIN logs : k # logfile => logs'[k] = logs[k]
  BY <1>3 DEF LogsInv
<1>6. old.bytes \in Seq(BytesOf(LogParts)) /\ old.synced \in Nat
  BY <1>2 DEF LogFiles
<1>7. new.synced \in 0 .. Len(new.bytes) /\ old.synced <= new.synced
  <2>1. Len(old.bytes \o x) = Len(old.bytes) + Len(x) /\ Len(old.bytes) \in Nat /\ Len(x) \in Nat
    BY <1>1, <1>6, ConcatProperties
  <2> QED
    BY <1>2, <1>4, <1>6, <2>1
<1>8. LogsMore(logs', logs, 0)
  <2> DEFINE ls == logs'
  <2>1. /\ DOMAIN ls = DOMAIN logs /\ \A k \in DOMAIN logs : k # logfile => ls[k] = logs[k]
        /\ ls[logfile].bytes = logs[logfile].bytes \o x /\ logs[logfile].synced <= ls[logfile].synced
        /\ ls[logfile].synced \in 0 .. Len(ls[logfile].bytes)
    BY <1>4, <1>5, <1>7 DEF old
  <2> HIDE DEF ls
  <2>2. LogsMore(ls, logs, 0)
    BY <1>1, <2>1, LogsMoreOne
  <2> QED
    BY <2>2 DEF ls
<1> QED
  BY <1>1, <1>4, <1>5, <1>8 DEF old, x

\* a sync,
LEMMA SyncMore ==
    ASSUME LogsInv, logfile \in DOMAIN logs,
           logs' = [logs EXCEPT ![logfile].synced = Len(logs[logfile].bytes)]
    PROVE  /\ LogsMore(logs', logs, 0) /\ DOMAIN logs' = DOMAIN logs
           /\ logs'[logfile].bytes = logs[logfile].bytes
           /\ LastingIn(logs)[logfile] \subseteq SurvivingIn(logs')[logfile]
<1> DEFINE old == logs[logfile]
           new == [old EXCEPT !.synced = Len(old.bytes)]
           x == <<>>
<1>1. x \in Seq(BytesOf(LogParts))
  OBVIOUS
<1>2. old \in LogFiles /\ old.synced <= Len(old.bytes)
  BY DEF LogsInv
<1>3. logs' = [logs EXCEPT ![logfile] = new]
  OBVIOUS
<1>4. old.bytes \o x = old.bytes
  BY <1>2 DEF LogFiles
<1> HIDE DEF old, x
<1>5. new.bytes = old.bytes /\ new.synced = Len(old.bytes)
  BY <1>2 DEF LogFiles
<1> HIDE DEF new
<1>6. DOMAIN logs' = DOMAIN logs /\ logs'[logfile] = new /\ \A k \in DOMAIN logs : k # logfile => logs'[k] = logs[k]
  BY <1>3 DEF LogsInv
<1>7. Len(old.bytes) \in Nat /\ SubSeq(old.bytes, 1, Len(old.bytes)) = old.bytes
  BY <1>2, WholeSeq DEF LogFiles
<1>8. LogsMore(logs', logs, 0)
  <2> DEFINE ls == logs'
  <2>1. /\ DOMAIN ls = DOMAIN logs /\ \A k \in DOMAIN logs : k # logfile => ls[k] = logs[k]
        /\ ls[logfile].bytes = logs[logfile].bytes \o x /\ logs[logfile].synced <= ls[logfile].synced
        /\ ls[logfile].synced \in 0 .. Len(ls[logfile].bytes)
    BY <1>2, <1>4, <1>5, <1>6, <1>7 DEF old
  <2> HIDE DEF ls
  <2>2. LogsMore(ls, logs, 0)
    BY <1>1, <2>1, LogsMoreOne
  <2> QED
    BY <2>2 DEF ls
<1>9. LastingIn(logs)[logfile] \subseteq SurvivingIn(logs')[logfile]
  BY <1>5, <1>6, <1>7 DEF LastingIn, SurvivingIn, old
<1> QED
  BY <1>5, <1>6, <1>8, <1>9 DEF old

\* and a new log.
LEMMA CreateMore ==
    ASSUME NEW n, n \notin DOMAIN logs, logs' = Created(n, [bytes |-> <<>>, synced |-> 0], logs)
    PROVE  /\ LogsMore(logs', logs, 0) /\ DOMAIN logs' = {n} \cup DOMAIN logs
           /\ logs'[n].bytes = <<>>
<1>1. /\ DOMAIN logs' = {n} \cup DOMAIN logs /\ logs'[n] = [bytes |-> <<>>, synced |-> 0]
      /\ \A k \in DOMAIN logs : logs'[k] = logs[k]
  BY DEF Created, Over
<1>2. LogsMore(logs', logs, 0)
  BY <1>1 DEF LogsMore, LastingIn, SurvivingIn
<1> QED
  BY <1>1, <1>2

\* Old logs go.
LEMMA RestrictMore ==
    ASSUME NEW low, logs' = Restrict(logs, { n \in DOMAIN logs : n >= low })
    PROVE  /\ LogsMore(logs', logs, low) /\ DOMAIN logs' = { n \in DOMAIN logs : n >= low }
           /\ \A n \in DOMAIN logs' : logs'[n] = logs[n]
<1>1. DOMAIN logs' = { n \in DOMAIN logs : n >= low } /\ \A n \in DOMAIN logs' : logs'[n] = logs[n]
  BY DEF Restrict
<1> QED
  BY <1>1 DEF LogsMore, LastingIn, SurvivingIn

\* The synced tables that both have have all their records in us.
TablesMore(us, ts) == \A n \in DOMAIN ts \cap DOMAIN us : ts[n].synced => ts[n].recs \subseteq us[n].recs

LEMMA RecsOfMore ==
    ASSUME NEW us, NEW ts, TablesMore(us, ts), NEW files, Held(ts, files), Held(us, files)
    PROVE  RecsOf(ts, files) \subseteq RecsOf(us, files)
  BY DEF TablesMore, RecsOf, Held

LEMMA TablesMoreSame == ASSUME NEW ts PROVE TablesMore(ts, ts)
  BY DEF TablesMore

\* What recovery finds is then not less.
LEMMA FoundMore ==
    ASSUME NEW us, NEW ts, NEW v, RecsOf(ts, v.files) \subseteq RecsOf(us, v.files),
           NEW new, NEW old, LogsMore(new, old, v.log)
    PROVE  /\ FoundAt(ts, v, LastingIn(old)) \subseteq FoundAt(us, v, LastingIn(new))
           /\ FoundAt(ts, v, SurvivingIn(old)) \subseteq FoundAt(us, v, SurvivingIn(new))
<1>1. /\ DOMAIN LastingIn(old) = DOMAIN old /\ DOMAIN LastingIn(new) = DOMAIN new
      /\ DOMAIN SurvivingIn(old) = DOMAIN old /\ DOMAIN SurvivingIn(new) = DOMAIN new
  BY DEF LastingIn, SurvivingIn
<1> QED
  BY <1>1 DEF FoundAt, LogsMore

\* Nothing that a version of the MANIFEST needs becomes less.
CutsMore(us, ts, ls2, ls, m2) ==
  \A k \in m2.synced .. Len(m2.edits) :
    /\ RecsOf(ts, VersionAt(m2, k).files) \subseteq RecsOf(us, VersionAt(m2, k).files)
    /\ LogsMore(ls2, ls, VersionAt(m2, k).log)

LEMMA DiskMore ==
    ASSUME NEW m \in Manifests, NEW m2 \in Manifests, m2.edits = m.edits, m.synced <= m2.synced,
           NEW kp, NEW sf, NEW ts, NEW us, NEW ls, NEW ls2, CutsMore(us, ts, ls2, ls, m2),
           DiskKeeps(kp, sf, ts, ls, m)
    PROVE  DiskKeeps(kp, sf, us, ls2, m2)
<1> DEFINE n == Len(m.edits)
<1>1. m.edits \in Seq(EditRecords) /\ n \in Nat /\ m.synced \in Nat /\ m2.synced \in Nat /\ m2.synced <= n
  BY DEF Manifests
<1>2. VersionAt(m, n) = Replayed(m.edits) /\ \A k : VersionAt(m2, k) = VersionAt(m, k)
  BY <1>1, WholeSeq DEF VersionAt
<1>3. ASSUME NEW k \in m2.synced .. n
      PROVE  LET v == VersionAt(m, k)
             IN  /\ FoundAt(ts, v, LastingIn(ls)) \subseteq FoundAt(us, v, LastingIn(ls2))
                 /\ FoundAt(ts, v, SurvivingIn(ls)) \subseteq FoundAt(us, v, SurvivingIn(ls2))
  BY <1>2, FoundMore DEF CutsMore
<1>4. n \in m2.synced .. n /\ \A k \in m2.synced .. n : k \in m.synced .. n
  BY <1>1
<1>5. ~Corrupt(m2.edits) => kp \subseteq WritesIn(FoundAt(us, Replayed(m2.edits), LastingIn(ls2)))
  <2> SUFFICES ASSUME ~Corrupt(m.edits)
               PROVE  kp \subseteq WritesIn(FoundAt(us, Replayed(m.edits), LastingIn(ls2)))
    OBVIOUS
  <2>1. kp \subseteq WritesIn(FoundAt(ts, Replayed(m.edits), LastingIn(ls)))
    BY DEF DiskKeeps
  <2>2. FoundAt(ts, Replayed(m.edits), LastingIn(ls)) \subseteq FoundAt(us, Replayed(m.edits), LastingIn(ls2))
    BY <1>2, <1>3, <1>4
  <2> QED
    BY <2>1, <2>2, WritesInMore
<1>6. ASSUME NEW k \in m2.synced .. n, ~Corrupt(SubSeq(m.edits, 1, k))
      PROVE  sf \subseteq WritesIn(FoundAt(us, VersionAt(m, k), SurvivingIn(ls2)))
  <2>1. sf \subseteq WritesIn(FoundAt(ts, VersionAt(m, k), SurvivingIn(ls)))
    BY <1>4, <1>6 DEF DiskKeeps
  <2>2. FoundAt(ts, VersionAt(m, k), SurvivingIn(ls)) \subseteq FoundAt(us, VersionAt(m, k), SurvivingIn(ls2))
    BY <1>3
  <2> QED
    BY <2>1, <2>2, WritesInMore
<1> QED
  BY <1>2, <1>5, <1>6 DEF DiskKeeps

-----------------------------------------------------------------------------
(* What steps leave alone. *)

\* Logs and tables that only grow.
LEMMA CutsMoreAll ==
    ASSUME NEW m, NEW us, NEW ts, NEW ls2, NEW ls, DOMAIN ls \subseteq Nat,
           LogsMore(ls2, ls, 0), TablesMore(us, ts), Recoverable(ts, m), Recoverable(us, m)
    PROVE  CutsMore(us, ts, ls2, ls, m)
<1> SUFFICES ASSUME NEW k \in m.synced .. Len(m.edits)
             PROVE  /\ RecsOf(ts, VersionAt(m, k).files) \subseteq RecsOf(us, VersionAt(m, k).files)
                    /\ LogsMore(ls2, ls, VersionAt(m, k).log)
  BY DEF CutsMore
<1>1. Held(ts, VersionAt(m, k).files) /\ Held(us, VersionAt(m, k).files)
  BY DEF Recoverable, VersionAt
<1> QED
  BY <1>1, RecsOfMore, LogsMoreAll

\* The disk keeps what it kept, when files only grow.
LEMMA KeptStays ==
    ASSUME StoreInv, FilesInv, KeptInv, FilesInv', UNCHANGED <<kept, safe>>,
           manifests'[current'] = manifests[current],
           TablesMore(tables', tables), LogsMore(logs', logs, 0)
    PROVE  KeptInv'
<1> DEFINE m == manifests[current]
           us == tables'
           ls2 == logs'
<1>1. m \in Manifests /\ DOMAIN logs \subseteq Nat /\ m.synced <= m.synced
  BY DEF StoreInv, ManifestsInv, LogsInv, Manifests
<1>2. Recoverable(tables, m) /\ Recoverable(us, m)
  BY DEF FilesInv, DiskInv
<1>3. TablesMore(us, tables) /\ LogsMore(ls2, logs, 0) /\ DiskKeeps(kept, safe, tables, logs, m)
  BY DEF KeptInv
<1> HIDE DEF m, us, ls2
<1>4. CutsMore(us, tables, ls2, logs, m)
  BY <1>1, <1>2, <1>3, CutsMoreAll
<1>5. DiskKeeps(kept, safe, us, ls2, m)
  BY <1>1, <1>3, <1>4, DiskMore
<1> QED
  BY <1>5 DEF KeptInv, m, us, ls2

\* So does the memory of an open store.
LEMMA MemStays ==
    ASSUME StoreInv, FilesInv, MemInv, BoundInv, FilesInv', StoreInv', phase = "up",
           UNCHANGED <<phase, kept, safe, mem, imm, logfile, version, manifest_file>>,
           manifests'[manifest_file] = manifests[manifest_file],
           TablesMore(tables', tables), LogsMore(logs', logs, 0)
    PROVE  MemInv'
<1> DEFINE m == manifests[manifest_file]
           v == Replayed(m.edits)
           us == tables'
           ls2 == logs'
<1>1. /\ m \in Manifests /\ Recoverable(tables, m) /\ Held(tables, version)
  BY UpIs
<1>2. m = (manifests[manifest_file])' /\ Recoverable(us, m) /\ Held(us, version)
  BY <1>1 DEF FilesInv, DiskInv, TablesInv
<1> HIDE DEF m, us
<1>3. Held(tables, v.files) /\ Held(us, v.files)
  BY <1>1, <1>2, RecoverableLast
<1> HIDE DEF v
<1>4. RecsOf(tables, v.files) \subseteq RecsOf(us, v.files) /\ RecsOf(tables, version) \subseteq RecsOf(us, version)
  BY <1>1, <1>2, <1>3, RecsOfMore DEF us
<1>5. /\ LastingIn(logs)[logfile] \subseteq LastingIn(ls2)[logfile]
      /\ SurvivingIn(logs)[logfile] \subseteq SurvivingIn(ls2)[logfile]
  <2>1. logfile \in DOMAIN logs /\ logfile >= 0
    BY DEF BoundInv, StoreInv, LogsInv
  <2> QED
    BY <2>1 DEF LogsMore
<1> HIDE DEF ls2
<1> DEFINE Near(g) == RecsOf(us, v.files) \cup (IF imm = Nothing THEN {} ELSE imm) \cup (mem \cap g[logfile])
<1>6. /\ NearAt(tables, v, LastingIn(logs)) \subseteq Near(LastingIn(ls2))
      /\ NearAt(tables, v, SurvivingIn(logs)) \subseteq Near(SurvivingIn(ls2))
  BY <1>4, <1>5 DEF NearAt
<1>7. InMemory \cup RecsOf(tables, version) \subseteq InMemory \cup RecsOf(us, version)
  BY <1>4
<1> HIDE DEF Near
<1>8. /\ kept \subseteq WritesIn(InMemory \cup RecsOf(us, version))
      /\ ~Corrupt(m.edits) => /\ kept \subseteq WritesIn(Near(LastingIn(ls2)))
                              /\ safe \subseteq WritesIn(Near(SurvivingIn(ls2)))
  <2>1. /\ kept \subseteq WritesIn(InMemory \cup RecsOf(tables, version))
        /\ ~Corrupt(m.edits) => /\ kept \subseteq WritesIn(NearAt(tables, v, LastingIn(logs)))
                                /\ safe \subseteq WritesIn(NearAt(tables, v, SurvivingIn(logs)))
    BY DEF MemInv, m, v
  <2> QED
    BY <2>1, <1>6, <1>7, WritesInMore
<1>9. InMemory' = InMemory /\ m' = m
  BY <1>2 DEF InMemory, m
<1>10. /\ Near(LastingIn(ls2)) = NearAt(tables, Replayed(m.edits), LastingIn(logs))'
       /\ Near(SurvivingIn(ls2)) = NearAt(tables, Replayed(m.edits), SurvivingIn(logs))'
  BY <1>9 DEF NearAt, Near, v, us, ls2
<1>11. /\ kept' \subseteq WritesIn(InMemory' \cup RecsOf(tables', version'))
       /\ ~Corrupt(m'.edits) => /\ kept' \subseteq WritesIn(NearAt(tables, Replayed(m.edits), LastingIn(logs))')
                                /\ safe' \subseteq WritesIn(NearAt(tables, Replayed(m.edits), SurvivingIn(logs))')
  BY <1>8, <1>9, <1>10 DEF us
<1> QED
  BY <1>11 DEF MemInv, m

\* What the background does with the logs.
BgBound ==
  /\ bg'.stage \in {"manifest", "sync"} => log_number <= bg'.edit.log /\ bg'.edit.log <= logfile
  /\ bg'.stage = "sync" => bg.stage = "sync" /\ bg'.edit = bg.edit

LEMMA BoundStays ==
    ASSUME StoreInv, BoundInv, BgBound, phase = "up",
           UNCHANGED <<phase, logfile, log_number, manifest_file>>,
           manifests'[manifest_file] = manifests[manifest_file],
           DOMAIN logs' = DOMAIN logs, next_file' = next_file \/ next_file' = next_file + 1
    PROVE  BoundInv'
<1> DEFINE m == manifests[manifest_file]
<1>1. /\ logfile \in DOMAIN logs
      /\ \A n \in DOMAIN logs : n < next_file
      /\ \A k \in m.synced .. Len(m.edits) : VersionAt(m, k).log <= logfile
      /\ log_number <= Replayed(m.edits).log
      /\ bg.stage = "sync" => m.edits # <<>> /\ m.edits[Len(m.edits)] = bg.edit
  BY DEF BoundInv
<1>2. m = (manifests[manifest_file])'
  OBVIOUS
<1>3. \A n \in DOMAIN logs' : n < next_file'
  <2>1. next_file \in Nat /\ DOMAIN logs \subseteq Nat
    BY DEF StoreInv, NumbersInv, LogsInv
  <2> QED
    BY <2>1, <1>1
<1> HIDE DEF m
<1> QED
  BY <1>1, <1>2, <1>3 DEF BoundInv, BgBound, VersionAt

\* A step of an open store that changes neither the MANIFEST nor the memtables.
LEMMA UpStays ==
    ASSUME StoreInv, FilesInv, LastInv, StoreInv', FilesInv', phase = "up",
           UNCHANGED <<phase, kept, safe, mem, imm, logfile, version, log_number, manifest_file, current, manifests>>,
           next_file' = next_file \/ next_file' = next_file + 1,
           TablesMore(tables', tables), LogsMore(logs', logs, 0), DOMAIN logs' = DOMAIN logs,
           EditKeeps', InputsInv', BgBound, JobKept', OffsetInv'
    PROVE  LastInv'
<1>1. KeptInv'
  BY KeptStays DEF LastInv
<1>2. MemInv'
  BY MemStays DEF LastInv
<1>3. BoundInv'
  BY BoundStays DEF LastInv
<1>4. NewLogInv'
  BY DEF NewLogInv
<1> QED
  BY <1>1, <1>2, <1>3, <1>4 DEF LastInv

\* What the threads that write have, when the background works, and the other way round.
LEMMA JobStays ==
    ASSUME JobKept, BoundInv, phase = "up", UNCHANGED <<logfile, broken>>, job' = job \/ job'.stage = "none",
           LogsMore(logs', logs, 0), DOMAIN logs \subseteq Nat
    PROVE  JobKept'
<1>1. logfile \in DOMAIN logs /\ logfile >= 0
  BY DEF BoundInv
<1>2. /\ LastingIn(logs)[logfile] \subseteq LastingIn(logs')[logfile]
      /\ SurvivingIn(logs)[logfile] \subseteq SurvivingIn(logs')[logfile]
  BY <1>1 DEF LogsMore
<1> QED
  BY <1>2 DEF JobKept

LEMMA OffsetStays ==
    ASSUME OffsetInv, UNCHANGED <<phase, logfile, broken, block_offset, logs>>
    PROVE  OffsetInv'
  BY DEF OffsetInv

LEMMA EditStays ==
    ASSUME EditKeeps, UNCHANGED <<bg, tables, imm, logfile, log_number>>
    PROVE  EditKeeps'
  BY DEF EditKeeps

LEMMA EditEnds ==
    ASSUME bg'.stage \in {"idle", "merge"}
    PROVE  EditKeeps' /\ BgBound
  BY DEF EditKeeps, BgBound

LEMMA InputsStay ==
    ASSUME InputsInv, phase = "up", UNCHANGED <<phase, version>>, bg'.in \subseteq bg.in
    PROVE  InputsInv'
  BY DEF InputsInv

LEMMA BoundIs ==
    ASSUME BoundInv, phase = "up", UNCHANGED bg
    PROVE  BgBound
  BY DEF BoundInv, BgBound

-----------------------------------------------------------------------------
(* The writers. *)

\* No writer that asks for sync is in a group whose first does not.
LEMMA GroupSyncs ==
    ASSUME TypeOK, writers # <<>>
    PROVE  /\ BatchGroup \in Seq(Writes)
           /\ (\E w \in Range(BatchGroup) : w \in Syncs) => Head(BatchGroup) \in Syncs
<1> DEFINE size == BatchSize[Head(writers)]
           limit == IF size <= SmallGroup THEN size + SmallGroup ELSE LargeGroup
           Small(k) == BatchSize[writers[k]] > 0 => DataSize(SubSeq(writers, 1, k)) <= limit
           Joins(k) == (writers[k] \in Syncs => Head(writers) \in Syncs) /\ Small(k)
           K == { k \in DOMAIN writers : \A j \in 2 .. k : Joins(j) }
           c == Cardinality(K)
<1>1. BatchGroup = SubSeq(writers, 1, c)
  BY DEF BatchGroup
<1>2. /\ Len(writers) \in Nat /\ DOMAIN writers = 1 .. Len(writers) /\ Len(writers) >= 1
      /\ writers \in Seq(Writes) /\ Head(writers) = writers[1]
  BY DEF TypeOK
<1> HIDE DEF Small
<1>3. c \in K
  <2> HIDE DEF Joins
  <2>1. 1 \in K /\ K \in SUBSET (1 .. Len(writers))
    BY <1>2
  <2>2. \A k \in K : \A j \in 1 .. k : j \in K
    <3> SUFFICES ASSUME NEW k \in K, NEW j \in 1 .. k PROVE j \in K
      OBVIOUS
    <3>1. k \in 1 .. Len(writers) /\ \A i \in 2 .. k : Joins(i)
      BY <1>2
    <3>2. j \in 1 .. Len(writers) /\ \A i \in 2 .. j : i \in 2 .. k
      BY <1>2, <3>1
    <3> QED
      BY <1>2, <3>1, <3>2
  <2> HIDE DEF K
  <2> QED
    BY <1>2, <2>1, <2>2, DownwardSize
<1>4. c \in 1 .. Len(writers) /\ \A j \in 2 .. c : writers[j] \in Syncs => Head(writers) \in Syncs
  <2> HIDE DEF c
  <2> QED
    BY <1>2, <1>3
<1> HIDE DEF c
<1>5. /\ BatchGroup \in Seq(Writes) /\ Len(BatchGroup) = c
      /\ \A i \in 1 .. c : BatchGroup[i] = writers[i]
      /\ Range(BatchGroup) = { writers[i] : i \in 1 .. c }
  BY <1>1, <1>2, <1>4, Prefix
<1>6. Head(BatchGroup) = writers[1]
  BY <1>4, <1>5
<1>7. ASSUME NEW i \in 1 .. c, writers[i] \in Syncs
      PROVE  Head(writers) \in Syncs
  <2>1. i = 1 \/ i \in 2 .. c
    BY <1>4
  <2> QED
    BY <2>1, <1>2, <1>4, <1>7
<1> QED
  BY <1>2, <1>5, <1>6, <1>7

\* What a group starts with.
LEMMA StartGroupKept ==
    ASSUME QueueInv, NEW w \in Writes, Leads(w), StartGroup(w)
    PROVE  JobKept'
<1>1. /\ BatchGroup \in Seq(Writes)
      /\ (\E x \in Range(BatchGroup) : x \in Syncs) => Head(BatchGroup) \in Syncs
  BY GroupSyncs DEF QueueInv, Leads
<1>2. /\ job'.stage = "append" /\ job'.ws = BatchGroup /\ job'.rec.ws = WithData(BatchGroup)
  BY DEF StartGroup
<1> DEFINE G == BatchGroup
           D == WithData(BatchGroup)
<1>3. D \in Seq(Range(G))
  <2>1. G \in Seq(Range(G))
    <3> HIDE DEF G
    <3>1. G \in Seq(Writes)
      BY <1>1 DEF G
    <3> QED
      BY <3>1 DEF Range
  <2> HIDE DEF G
  <2> QED
    BY <2>1, WithDataSeq DEF G
<1>4. Range(D) \subseteq Range(G)
  <2> HIDE DEF D, G
  <2> DEFINE R == Range(G)
  <2> HIDE DEF R
  <2>1. D \in Seq(R)
    BY <1>3 DEF R
  <2>2. Range(D) \subseteq R
    BY <2>1 DEF Range
  <2> QED
    BY <2>2 DEF R
<1> QED
  BY <1>1, <1>2, <1>4 DEF JobKept

\* The writers, without a new memtable.
LEMMA CallsLast ==
    ASSUME QueueInv, StoreInv, FilesInv, LastInv, StoreInv', FilesInv', NEW w \in Writes,
           Write(w) \/ RefuseWrite(w) \/ WaitForRoom(w) \/ WriteToMem(w) \/ NoNewLog(w)
    PROVE  LastInv'
<1> DEFINE Stay == UNCHANGED <<phase, kept, safe, broken, mem, imm, logfile, block_offset, version, log_number,
                               manifest_file, next_file, current, manifests, tables, logs, bg>>
<1>1. Stay /\ phase = "up" /\ (job' = job \/ job'.stage = "none" \/ (Leads(w) /\ StartGroup(w)))
  <2>1. CASE Write(w)
    BY <2>1 DEF Write, memVars, versionVars, bgVars, diskVars, history
  <2>2. CASE RefuseWrite(w)
    BY <2>2, FinishStore, LeadsIdle DEF RefuseWrite, memVars, versionVars, bgVars, diskVars, history
  <2>3. CASE WaitForRoom(w)
    BY <2>3, LeadsIdle DEF WaitForRoom, memVars, versionVars, bgVars, diskVars, history
  <2>4. CASE WriteToMem(w)
    BY <2>4, LeadsIdle DEF WriteToMem, memVars, versionVars, bgVars, diskVars, history
  <2>5. CASE NoNewLog(w)
    BY <2>5, FinishStore, LeadsIdle DEF NoNewLog, memVars, versionVars, bgVars, diskVars, history
  <2> QED
    BY <2>1, <2>2, <2>3, <2>4, <2>5
<1>2. LogsMore(logs', logs, 0) /\ TablesMore(tables', tables)
  BY <1>1, LogsMoreSame, TablesMoreSame
<1>3. DOMAIN logs \subseteq Nat
  BY DEF StoreInv, LogsInv
<1>4. KeptInv /\ BoundInv /\ MemInv /\ NewLogInv /\ OffsetInv /\ JobKept /\ EditKeeps /\ InputsInv
  BY DEF LastInv
<1>5. JobKept'
  BY <1>1, <1>2, <1>3, <1>4, JobStays, StartGroupKept
<1>6. OffsetInv' /\ EditKeeps' /\ InputsInv' /\ BgBound
  BY <1>1, <1>4, OffsetStays, EditStays, InputsStay, BoundIs
<1> QED
  BY <1>1, <1>2, <1>5, <1>6, UpStays

-----------------------------------------------------------------------------

\* The number of the log that a version names.
LEMMA VersionLog ==
    ASSUME NEW m \in Manifests, NEW k \in m.synced .. Len(m.edits)
    PROVE  VersionAt(m, k) \in Versions /\ VersionAt(m, k).log \in Nat
<1> DEFINE s == m.edits
           t == SubSeq(s, 1, k)
<1>1. s \in Seq(EditRecords) /\ k \in 0 .. Len(s)
  BY DEF Manifests
<1> HIDE DEF s
<1>2. t \in Seq(EditRecords)
  BY <1>1, PrefixSeq
<1> HIDE DEF t
<1>3. Replayed(t) \in Versions
  BY <1>2, ReplayedIs
<1> QED
  BY <1>3 DEF VersionAt, Versions, s, t

\* The memtable is full: what it holds is still found near the MANIFEST.
LEMMA SwitchLast ==
    ASSUME QueueInv, StoreInv, FilesInv, FreshInv, LastInv, StoreInv', FilesInv', NEW w \in Writes, SwitchMem(w)
    PROVE  LastInv'
<1> DEFINE m == manifests[manifest_file]
<1>1. /\ phase = "up" /\ job.stage = "none" /\ imm = Nothing
      /\ logs' = Created(next_file, [bytes |-> <<>>, synced |-> 0], logs)
      /\ logfile' = next_file /\ next_file' = next_file + 1 /\ block_offset' = 0
      /\ imm' = mem /\ mem' = {}
      /\ Finish(<<w>>, "ok") \/ StartGroup(w)
      /\ Leads(w)
      /\ UNCHANGED <<phase, version, tables, manifests, manifest_file, current, log_number, bg, kept, safe, broken>>
  BY LeadsIdle DEF SwitchMem, CanSwitch, history
<1>2. KeptInv /\ BoundInv /\ MemInv /\ NewLogInv /\ OffsetInv /\ JobKept /\ EditKeeps /\ InputsInv
  BY DEF LastInv
<1>3. /\ next_file \in Nat /\ logfile \in Nat /\ log_number \in Nat /\ DOMAIN logs \subseteq Nat
  BY DEF StoreInv, NumbersInv, LogsInv
<1>4. next_file \notin DOMAIN logs /\ logfile \in DOMAIN logs /\ logfile < next_file
  BY <1>1, <1>2, <1>3 DEF BoundInv
<1>5. /\ LogsMore(logs', logs, 0) /\ DOMAIN logs' = {next_file} \cup DOMAIN logs
      /\ logs'[next_file].bytes = <<>>
  BY <1>1, <1>4, CreateMore
<1>6. TablesMore(tables', tables)
  BY <1>1, TablesMoreSame
<1>7. KeptInv'
  BY <1>1, <1>2, <1>5, <1>6, KeptStays
<1>8. m \in Manifests
  BY <1>1, UpIs
<1>9. BoundInv'
  <2>1. \A n \in DOMAIN logs' : n < next_file'
    BY <1>1, <1>2, <1>3, <1>5 DEF BoundInv
  <2>2. \A k \in m.synced .. Len(m.edits) : VersionAt(m, k).log <= logfile'
    <3> SUFFICES ASSUME NEW k \in m.synced .. Len(m.edits) PROVE VersionAt(m, k).log <= logfile'
      OBVIOUS
    <3>1. VersionAt(m, k).log \in Nat /\ VersionAt(m, k).log <= logfile
      BY <1>1, <1>2, <1>8, VersionLog DEF BoundInv
    <3> QED
      BY <3>1, <1>1, <1>3, <1>4
  <2>3. bg.stage \in {"manifest", "sync"} => log_number <= bg.edit.log /\ bg.edit.log <= logfile'
    <3> SUFFICES ASSUME bg.stage \in {"manifest", "sync"}
                 PROVE  log_number <= bg.edit.log /\ bg.edit.log <= logfile'
      OBVIOUS
    <3>1. bg.edit.log \in Nat
      BY DEF StoreInv, BgInv, Edits
    <3>2. log_number <= bg.edit.log /\ bg.edit.log <= logfile
      BY <1>1, <1>2 DEF BoundInv
    <3> QED
      BY <3>1, <3>2, <1>1, <1>3, <1>4
  <2>4. bg.stage = "sync" => m.edits # <<>> /\ m.edits[Len(m.edits)] = bg.edit
    BY <1>1, <1>2 DEF BoundInv
  <2>5. log_number <= Replayed(m.edits).log
    BY <1>1, <1>2 DEF BoundInv
  <2>6. (manifests[manifest_file])' = m
    BY <1>1
  <2> HIDE DEF m
  <2> QED
    BY <2>1, <2>2, <2>3, <2>4, <2>5, <2>6, <1>1, <1>5 DEF BoundInv, VersionAt
<1>10. mem # Nothing
  <2>1. mem \subseteq Records
    BY DEF FreshInv, RecordsInv, InMemory
  <2>2. mem \cap Records = mem
    BY <2>1
  <2> QED
    BY <2>2, LevelStoreAssumption
<1>11. MemInv'
  <2> DEFINE v == Replayed(m.edits)
  <2>1. /\ kept \subseteq WritesIn(InMemory \cup RecsOf(tables, version))
        /\ ~Corrupt(m.edits) => /\ kept \subseteq WritesIn(NearAt(tables, v, LastingIn(logs)))
                                /\ safe \subseteq WritesIn(NearAt(tables, v, SurvivingIn(logs)))
    BY <1>1, <1>2 DEF MemInv
  <2>2. InMemory' = mem /\ InMemory = mem
    BY <1>1, <1>10 DEF InMemory
  <2> DEFINE Near == RecsOf(tables, v.files) \cup mem
  <2>3. NearAt(tables, v, LastingIn(logs)) \subseteq Near /\ NearAt(tables, v, SurvivingIn(logs)) \subseteq Near
    BY <1>1 DEF NearAt
  <2>4. (manifests[manifest_file])' = m
    BY <1>1
  <2>5. /\ Near \subseteq NearAt(tables, Replayed(m.edits), LastingIn(logs))'
        /\ Near \subseteq NearAt(tables, Replayed(m.edits), SurvivingIn(logs))'
    <3>1. RecsOf(tables', Replayed(m'.edits).files) = RecsOf(tables, v.files)
      BY <1>1
    <3>2. (IF imm' = Nothing THEN {} ELSE imm') = mem
      BY <1>1, <1>10
    <3> QED
      BY <3>1, <3>2 DEF NearAt
  <2> HIDE DEF Near
  <2>6. /\ kept \subseteq WritesIn(InMemory' \cup RecsOf(tables', version'))
        /\ ~Corrupt(m.edits) => /\ kept \subseteq WritesIn(NearAt(tables, Replayed(m.edits), LastingIn(logs))')
                                /\ safe \subseteq WritesIn(NearAt(tables, Replayed(m.edits), SurvivingIn(logs))')
    <3>1. kept \subseteq WritesIn(InMemory' \cup RecsOf(tables', version'))
      BY <2>1, <2>2, <1>1
    <3> DEFINE A == NearAt(tables, v, LastingIn(logs))
               B == NearAt(tables, v, SurvivingIn(logs))
               C == NearAt(tables, Replayed(m.edits), LastingIn(logs))'
               D == NearAt(tables, Replayed(m.edits), SurvivingIn(logs))'
    <3>2. A \subseteq C /\ B \subseteq D
      BY <2>3, <2>5
    <3> HIDE DEF A, B, C, D
    <3>3. WritesIn(A) \subseteq WritesIn(C) /\ WritesIn(B) \subseteq WritesIn(D)
      BY <3>2, WritesInMore
    <3>4. ~Corrupt(m.edits) => kept \subseteq WritesIn(A) /\ safe \subseteq WritesIn(B)
      BY <2>1 DEF A, B
    <3>5. ~Corrupt(m.edits) => kept \subseteq WritesIn(C) /\ safe \subseteq WritesIn(D)
      BY <3>3, <3>4
    <3> QED
      BY <3>1, <3>5 DEF C, D
  <2>7. m' = m
    BY <1>1
  <2>8. /\ kept' \subseteq WritesIn(InMemory' \cup RecsOf(tables', version'))
        /\ ~Corrupt(m'.edits) => /\ kept' \subseteq WritesIn(NearAt(tables, Replayed(m.edits), LastingIn(logs))')
                                 /\ safe' \subseteq WritesIn(NearAt(tables, Replayed(m.edits), SurvivingIn(logs))')
    BY <2>6, <2>7, <1>1
  <2> QED
    BY <2>8 DEF MemInv, m
<1>12. NewLogInv' /\ InputsInv'
  BY <1>1, <1>2 DEF NewLogInv, InputsInv
<1>13. OffsetInv'
  <2>1. EndsWhole(<<>>, LogParts) /\ AtOffset(<<>>, 0)
    BY EmptyEnds, PartsValid DEF LogParts
  <2> QED
    BY <2>1, <1>1, <1>5 DEF OffsetInv
<1>14. JobKept'
  BY <1>1, FinishStore, StartGroupKept DEF JobKept
<1>15. EditKeeps'
  BY <1>1, <1>2 DEF EditKeeps
<1> QED
  BY <1>7, <1>9, <1>11, <1>12, <1>13, <1>14, <1>15 DEF LastInv

-----------------------------------------------------------------------------

\* What a log of a version has is found.
LEMMA FoundInLog ==
    ASSUME NEW ts, NEW v, NEW g, NEW n \in DOMAIN g, n >= v.log
    PROVE  g[n] \subseteq FoundAt(ts, v, g)
  BY DEF FoundAt

\* The first writer: its record is in the log, and then in the memtable.
LEMMA AppendLast ==
    ASSUME QueueInv, StoreInv, FilesInv, FreshInv, LastInv, StoreInv', FilesInv',
           AppendRecord \/ AppendFails \/ SyncLog \/ SyncFails
    PROVE  LastInv'
<1> DEFINE Stay == UNCHANGED <<phase, kept, safe, mem, imm, logfile, version, log_number, manifest_file, next_file,
                               current, manifests, tables, bg>>
<1>1. job = [stage |-> job.stage, ws |-> job.ws, rec |-> job.rec]
  BY DEF QueueInv, JobInv
<1>2. ASSUME NEW stage, job' = [job EXCEPT !.stage = stage]
      PROVE  job'.stage = stage /\ job'.rec = job.rec /\ job'.ws = job.ws
  BY <1>1, <1>2
<1>3. KeptInv /\ BoundInv /\ MemInv /\ NewLogInv /\ OffsetInv /\ JobKept /\ EditKeeps /\ InputsInv
  BY DEF LastInv
<1>4. Stay /\ phase = "up" /\ job.stage # "none"
  <2>1. CASE AppendRecord
    BY <2>1 DEF AppendRecord, versionVars, bgVars, history
  <2>2. CASE AppendFails
    BY <2>2 DEF AppendFails, versionVars, bgVars
  <2>3. CASE SyncLog
    BY <2>3 DEF SyncLog, memVars, versionVars, bgVars, history
  <2>4. CASE SyncFails
    BY <2>4 DEF SyncFails, memVars, versionVars, bgVars, diskVars, history
  <2> QED
    BY <2>1, <2>2, <2>3, <2>4
<1>5. logfile \in DOMAIN logs /\ logfile >= 0 /\ LogsInv
  BY <1>3, <1>4 DEF BoundInv, StoreInv, LogsInv
<1>6. job.rec \in Records /\ block_offset \in 0 .. BlockSize
  BY <1>4 DEF StoreInv, NumbersInv, RecordInv
<1>7. EditKeeps' /\ InputsInv' /\ BgBound /\ TablesMore(tables', tables)
  BY <1>3, <1>4, EditStays, InputsStay, BoundIs, TablesMoreSame
<1>8. /\ (\E w \in Range(job.ws) : w \in Syncs) => Head(job.ws) \in Syncs
      /\ Range(job.rec.ws) \subseteq Range(job.ws)
  BY <1>3, <1>4 DEF JobKept
<1>9. LogsMore(logs', logs, 0) /\ DOMAIN logs' = DOMAIN logs /\ JobKept' /\ OffsetInv'
  <2>1. CASE AppendRecord
    <3> DEFINE added == AddRecord(job.rec, DataSize(job.rec.ws), block_offset)
               stage == IF Head(job.ws) \in Syncs THEN "sync" ELSE "insert"
               file == logs[logfile].bytes
               g == file \o added.bytes
    <3>1. /\ logs' = [logs EXCEPT ![logfile].bytes = @ \o added.bytes] /\ block_offset' = added.offset
          /\ job' = [job EXCEPT !.stage = stage] /\ UNCHANGED broken
      BY <2>1 DEF AppendRecord, history
    <3>2. logfile \notin broken =>
            /\ EndsWhole(g, LogParts) /\ AtOffset(g, added.offset)
            /\ \A ext \in Seq(BytesOf(LogParts)) : job.rec \in Readable(g \o ext)
      <4> SUFFICES ASSUME logfile \notin broken
                   PROVE  /\ EndsWhole(g, LogParts) /\ AtOffset(g, added.offset)
                          /\ \A ext \in Seq(BytesOf(LogParts)) : job.rec \in Readable(g \o ext)
        OBVIOUS
      <4>1. EndsWhole(file, LogParts) /\ AtOffset(file, block_offset)
        BY <1>3, <1>4 DEF OffsetInv
      <4>2. DataSize(job.rec.ws) = Size[job.rec] /\ Size \in [Records -> Nat]
        BY <1>6, SizeIs
      <4> HIDE DEF file
      <4> QED
        BY <4>1, <4>2, <1>6, AddedIsRead DEF LogParts
    <3> HIDE DEF added, stage
    <3>3. /\ LogsMore(logs', logs, 0) /\ DOMAIN logs' = DOMAIN logs
          /\ logs'[logfile].bytes = g
      BY <3>1, <1>5, <1>6, AppendMore DEF added
    <3>4. job'.stage = stage /\ job'.rec = job.rec /\ job'.ws = job.ws
      BY <3>1, <1>2
    <3> HIDE DEF g
    <3>5. logfile \notin broken => job.rec \in LastingIn(logs')[logfile]
      BY <3>2, <3>3, <1>5, <1>6 DEF LastingIn, Lasting
    <3>6. stage = "insert" => Head(job.ws) \notin Syncs
      BY DEF stage
    <3>7. JobKept'
      BY <3>1, <3>4, <3>5, <3>6, <1>4, <1>8 DEF JobKept
    <3>8. OffsetInv'
      BY <3>1, <3>2, <3>3, <1>4 DEF OffsetInv
    <3> QED
      BY <3>3, <3>7, <3>8
  <2>2. CASE AppendFails
    <3>1. PICK added \in FailedAdds(job.rec, DataSize(job.rec.ws), block_offset) :
            logs' = [logs EXCEPT ![logfile].bytes = @ \o added.bytes]
      BY <2>2 DEF AppendFails
    <3>2. LogsMore(logs', logs, 0) /\ DOMAIN logs' = DOMAIN logs
      BY <3>1, <1>5, <1>6, AppendMore
    <3>3. job' = [job EXCEPT !.stage = "failed"] /\ broken' = broken \cup {logfile}
      BY <2>2 DEF AppendFails
    <3>4. job'.stage = "failed" /\ job'.rec = job.rec /\ job'.ws = job.ws
      BY <3>3, <1>2
    <3>5. JobKept'
      BY <3>4, <1>8 DEF JobKept
    <3>6. OffsetInv'
      BY <3>3, <1>4 DEF OffsetInv
    <3> QED
      BY <3>2, <3>5, <3>6
  <2>3. CASE SyncLog
    <3>1. /\ logs' = [logs EXCEPT ![logfile].synced = Len(logs[logfile].bytes)]
          /\ job.stage = "sync" /\ job' = [job EXCEPT !.stage = "insert"] /\ UNCHANGED <<broken, block_offset>>
      BY <2>3 DEF SyncLog, memVars, history
    <3>2. /\ LogsMore(logs', logs, 0) /\ DOMAIN logs' = DOMAIN logs
          /\ logs'[logfile].bytes = logs[logfile].bytes
          /\ LastingIn(logs)[logfile] \subseteq SurvivingIn(logs')[logfile]
      BY <3>1, <1>5, SyncMore
    <3>3. job'.stage = "insert" /\ job'.rec = job.rec /\ job'.ws = job.ws
      BY <3>1, <1>2
    <3>4. logfile \notin broken => /\ job.rec \in LastingIn(logs')[logfile]
                                   /\ job.rec \in SurvivingIn(logs')[logfile]
      <4>1. LastingIn(logs)[logfile] \subseteq LastingIn(logs')[logfile]
        BY <3>2, <1>5 DEF LogsMore
      <4> QED
        BY <3>1, <3>2, <4>1, <1>3 DEF JobKept
    <3>5. JobKept'
      BY <3>1, <3>3, <3>4, <1>4, <1>8 DEF JobKept
    <3>6. OffsetInv'
      BY <3>1, <3>2, <1>3, <1>4 DEF OffsetInv
    <3> QED
      BY <3>2, <3>5, <3>6
  <2>4. CASE SyncFails
    <3>1. UNCHANGED <<logs, broken, block_offset>> /\ job' = [job EXCEPT !.stage = "sync_error"]
      BY <2>4 DEF SyncFails, memVars, diskVars, history
    <3>2. job'.stage = "sync_error" /\ job'.rec = job.rec /\ job'.ws = job.ws
      BY <3>1, <1>2
    <3>3. LogsMore(logs', logs, 0)
      BY <3>1, LogsMoreSame
    <3>4. JobKept'
      BY <3>2, <1>8 DEF JobKept
    <3>5. OffsetInv'
      BY <3>1, <1>3, <1>4, OffsetStays
    <3> QED
      BY <3>1, <3>3, <3>4, <3>5
  <2> QED
    BY <2>1, <2>2, <2>3, <2>4
<1> QED
  BY <1>4, <1>7, <1>9, UpStays

\* The last version that a MANIFEST may be read to.
LEMMA LastCut ==
    ASSUME NEW m \in Manifests
    PROVE  /\ Len(m.edits) \in m.synced .. Len(m.edits) /\ VersionAt(m, Len(m.edits)) = Replayed(m.edits)
           /\ m.edits \in Seq(EditRecords) /\ Len(m.edits) \in Nat
<1>1. m.edits \in Seq(EditRecords) /\ Len(m.edits) \in Nat /\ m.synced \in Nat /\ m.synced <= Len(m.edits)
  BY DEF Manifests
<1>2. SubSeq(m.edits, 1, Len(m.edits)) = m.edits
  BY <1>1, WholeSeq
<1>3. VersionAt(m, Len(m.edits)) = Replayed(m.edits)
  BY <1>2 DEF VersionAt
<1>4. Len(m.edits) \in m.synced .. Len(m.edits)
  BY <1>1
<1> QED
  BY <1>1, <1>3, <1>4

\* The call ends: what it acknowledges is in the log and in the memtable.
LEMMA EndWriteLast ==
    ASSUME QueueInv, StoreInv, FilesInv, FreshInv, LastInv, StoreInv', FilesInv', EndWrite
    PROVE  LastInv'
<1> DEFINE m == manifests[manifest_file]
           v == Replayed(m.edits)
           acked == Range(job.rec.ws)
           K == IF logfile \notin broken THEN acked ELSE {}
           S == IF logfile \notin broken THEN acked \cap Syncs ELSE {}
           G == LastingIn(logs)
           H == SurvivingIn(logs)
<1>1. /\ phase = "up"
      /\ UNCHANGED <<phase, broken, imm, logfile, version, log_number, manifest_file, next_file, current,
                     manifests, tables, logs, block_offset, bg>>
  BY DEF EndWrite, diskVars
<1>2. KeptInv /\ BoundInv /\ MemInv /\ NewLogInv /\ OffsetInv /\ JobKept /\ EditKeeps /\ InputsInv
  BY DEF LastInv
<1>3. EditKeeps' /\ InputsInv' /\ BgBound /\ OffsetInv'
  BY <1>1, <1>2, EditStays, InputsStay, BoundIs, OffsetStays
<1>4. JobKept'
  BY FinishStore DEF EndWrite, JobKept
<1>5. LogsMore(logs', logs, 0) /\ TablesMore(tables', tables)
  BY <1>1, LogsMoreSame, TablesMoreSame
<1>6. CASE job.stage # "insert"
  <2>1. UNCHANGED <<mem, kept, safe>>
    BY <1>6 DEF EndWrite
  <2> QED
    BY <2>1, <1>1, <1>3, <1>4, <1>5, UpStays
<1>7. CASE job.stage = "insert"
  <2>1. mem' = mem \cup {job.rec} /\ kept' = kept \cup K /\ safe' = safe \cup S
    BY <1>7 DEF EndWrite
  <2>2. K # {} => job.rec \in G[logfile]
    BY <1>2, <1>7 DEF JobKept
  <2>3. S # {} => job.rec \in H[logfile]
    <3> SUFFICES ASSUME S # {} PROVE job.rec \in H[logfile]
      OBVIOUS
    <3>1. logfile \notin broken /\ acked \cap Syncs # {}
      OBVIOUS
    <3>2. acked \subseteq Range(job.ws) /\ ((\E w \in Range(job.ws) : w \in Syncs) => Head(job.ws) \in Syncs)
      BY <1>2, <1>7 DEF JobKept
    <3>3. Head(job.ws) \in Syncs
      BY <3>1, <3>2
    <3> QED
      BY <3>1, <3>3, <1>2, <1>7 DEF JobKept
  <2>4. S \subseteq K /\ \A T : job.rec \in T => K \subseteq WritesIn(T) /\ S \subseteq WritesIn(T)
    BY DEF WritesIn
  <2> HIDE DEF K, S
  <2>5. logfile \in DOMAIN logs /\ \A k \in m.synced .. Len(m.edits) : VersionAt(m, k).log <= logfile
    BY <1>1, <1>2 DEF BoundInv
  <2>6. m \in Manifests /\ current = manifest_file
    BY <1>1, UpIs
  <2>7. \A k \in m.synced .. Len(m.edits) : /\ G[logfile] \subseteq FoundAt(tables, VersionAt(m, k), G)
                                            /\ H[logfile] \subseteq FoundAt(tables, VersionAt(m, k), H)
    <3> SUFFICES ASSUME NEW k \in m.synced .. Len(m.edits)
                 PROVE  /\ G[logfile] \subseteq FoundAt(tables, VersionAt(m, k), G)
                        /\ H[logfile] \subseteq FoundAt(tables, VersionAt(m, k), H)
      OBVIOUS
    <3>1. logfile \in DOMAIN G /\ logfile \in DOMAIN H
      BY <2>5 DEF LastingIn, SurvivingIn
    <3>2. VersionAt(m, k).log \in Nat /\ VersionAt(m, k).log <= logfile /\ logfile \in Nat
      BY <2>5, <2>6, VersionLog DEF StoreInv, NumbersInv
    <3>3. logfile >= VersionAt(m, k).log
      BY <3>2
    <3> HIDE DEF G, H, m
    <3> QED
      BY <3>1, <3>3, FoundInLog
  <2>8. KeptInv'
    <3>1. DiskKeeps(kept, safe, tables, logs, m) /\ safe \subseteq kept
      BY <1>2, <2>6 DEF KeptInv
    <3> HIDE DEF m
    <3>2. ~Corrupt(m.edits) => kept \cup K \subseteq WritesIn(FoundAt(tables, Replayed(m.edits), G))
      <4> DEFINE F == FoundAt(tables, Replayed(m.edits), G)
      <4>1. K # {} => job.rec \in F
        BY <2>2, <2>6, <2>7, LastCut
      <4>2. ~Corrupt(m.edits) => kept \subseteq WritesIn(F)
        BY <3>1 DEF DiskKeeps
      <4> HIDE DEF F
      <4>3. K \subseteq WritesIn(F)
        BY <2>4, <4>1
      <4>4. ~Corrupt(m.edits) => kept \cup K \subseteq WritesIn(F)
        BY <4>2, <4>3
      <4> QED
        BY <4>4 DEF F
    <3>3. ASSUME NEW k \in m.synced .. Len(m.edits), ~Corrupt(SubSeq(m.edits, 1, k))
          PROVE  safe \cup S \subseteq WritesIn(FoundAt(tables, VersionAt(m, k), H))
      <4> DEFINE F == FoundAt(tables, VersionAt(m, k), H)
      <4>1. S # {} => job.rec \in F
        BY <2>3, <2>7
      <4>2. safe \subseteq WritesIn(F)
        BY <3>1, <3>3 DEF DiskKeeps
      <4> HIDE DEF F
      <4>3. S \subseteq WritesIn(F)
        BY <2>4, <4>1
      <4>4. safe \cup S \subseteq WritesIn(F)
        BY <4>2, <4>3
      <4> QED
        BY <4>4 DEF F
    <3>4. DiskKeeps(kept \cup K, safe \cup S, tables, logs, m)
      BY <3>2, <3>3 DEF DiskKeeps
    <3>5. safe \cup S \subseteq kept \cup K
      BY <3>1, <2>4
    <3> QED
      BY <3>4, <3>5, <2>1, <2>6, <1>1 DEF KeptInv, m
  <2>9. MemInv'
    <3>1. /\ kept \subseteq WritesIn(InMemory \cup RecsOf(tables, version))
          /\ ~Corrupt(m.edits) => /\ kept \subseteq WritesIn(NearAt(tables, v, G))
                                  /\ safe \subseteq WritesIn(NearAt(tables, v, H))
      BY <1>1, <1>2 DEF MemInv
    <3> DEFINE Near(g) == RecsOf(tables, v.files) \cup (IF imm = Nothing THEN {} ELSE imm) \cup (mem' \cap g[logfile])
    <3>2. NearAt(tables, v, G) \subseteq Near(G) /\ NearAt(tables, v, H) \subseteq Near(H)
      BY <2>1 DEF NearAt
    <3>3. InMemory' = InMemory \cup {job.rec}
      BY <2>1, <1>1 DEF InMemory
    <3>4. (K # {} => job.rec \in Near(G)) /\ (S # {} => job.rec \in Near(H))
      BY <2>1, <2>2, <2>3
    <3>5. (manifests[manifest_file])' = m
      BY <1>1
    <3> DEFINE A == InMemory' \cup RecsOf(tables, version)
               B == Near(G)
               C == Near(H)
    <3> HIDE DEF Near
    <3>6. /\ kept \cup K \subseteq WritesIn(A)
          /\ ~Corrupt(m.edits) => kept \cup K \subseteq WritesIn(B) /\ safe \cup S \subseteq WritesIn(C)
      <4>1. job.rec \in A /\ InMemory \cup RecsOf(tables, version) \subseteq A
        BY <3>3
      <4>2. K \subseteq WritesIn(A) /\ K \subseteq WritesIn(B) /\ S \subseteq WritesIn(C)
        <5> HIDE DEF A, B, C
        <5>1. S \subseteq K
          BY <2>4
        <5> QED
          BY <5>1, <4>1, <3>4, <2>4 DEF B, C
      <4>3. kept \subseteq WritesIn(A)
        BY <3>1, <4>1, WritesInMore
      <4>4. ~Corrupt(m.edits) => kept \subseteq WritesIn(B) /\ safe \subseteq WritesIn(C)
        BY <3>1, <3>2, WritesInMore
      <4> HIDE DEF A, B, C
      <4> QED
        BY <4>2, <4>3, <4>4
    <3>7. B = NearAt(tables, Replayed(m.edits), G)' /\ C = NearAt(tables, Replayed(m.edits), H)'
      BY <3>5, <1>1 DEF NearAt, Near
    <3>8. A = (InMemory \cup RecsOf(tables, version))'
      BY <1>1
    <3>9. /\ kept' \subseteq WritesIn(InMemory \cup RecsOf(tables, version))'
          /\ ~Corrupt(m.edits)' => /\ kept' \subseteq WritesIn(NearAt(tables, Replayed(m.edits), G))'
                                   /\ safe' \subseteq WritesIn(NearAt(tables, Replayed(m.edits), H))'
      <4> HIDE DEF A, B, C
      <4> QED
        BY <3>5, <3>6, <3>7, <3>8, <2>1
    <3> QED
      BY <3>9 DEF MemInv
  <2>10. BoundInv'
    BY <1>1, <1>2, <1>3, BoundStays
  <2>11. NewLogInv'
    BY <1>1 DEF NewLogInv
  <2> QED
    BY <2>8, <2>9, <2>10, <2>11, <1>3, <1>4 DEF LastInv
<1> QED
  BY <1>6, <1>7

-----------------------------------------------------------------------------
(* The background thread. *)

\* A step of it that is over leaves no edit.
LEMMA EndedIs ==
    ASSUME BgInv, NEW files, NEW old, NEW err, EndBackground(files, old, err) \/ EndImm(old, err)
    PROVE  bg'.stage \in {"idle", "merge"} /\ bg'.in \subseteq bg.in
<1>1. CASE EndBackground(files, old, err) \/ bg.out = 0
  <2>1. bg' = IdleBg
    BY <1>1 DEF EndBackground, EndImm
  <2> QED
    BY <2>1 DEF IdleBg
<1>2. CASE ~EndBackground(files, old, err) /\ bg.out # 0
  <2>1. bg' = [bg EXCEPT !.stage = "merge", !.kind = "merge", !.table = 0, !.edit = Nothing]
    BY <1>2 DEF EndImm
  <2>2. bg'.stage = "merge" /\ bg'.in = bg.in
    BY <2>1 DEF BgInv
  <2> QED
    BY <2>2
<1> QED
  BY <1>1, <1>2

\* A step of it that leaves the MANIFEST and the version.
LEMMA WorkLast ==
    ASSUME StoreInv, FilesInv, LastInv, StoreInv', FilesInv', phase = "up",
           UNCHANGED <<phase, kept, safe, mem, imm, logfile, version, log_number, manifest_file, current, manifests,
                       job, broken, block_offset, logs>>,
           next_file' = next_file \/ next_file' = next_file + 1,
           TablesMore(tables', tables), EditKeeps', BgBound, bg'.in \subseteq version
    PROVE  LastInv'
<1>1. LogsMore(logs', logs, 0) /\ DOMAIN logs \subseteq Nat
  BY LogsMoreSame DEF StoreInv, LogsInv
<1>2. BoundInv /\ OffsetInv /\ JobKept
  BY DEF LastInv
<1>3. JobKept' /\ OffsetInv'
  BY <1>1, <1>2, JobStays, OffsetStays
<1>4. InputsInv'
  BY DEF InputsInv
<1> QED
  BY <1>1, <1>3, <1>4, UpStays

\* The log of the MANIFEST is not later than the current.
LEMMA LogBound ==
    ASSUME StoreInv, FilesInv, BoundInv, phase = "up"
    PROVE  log_number <= logfile /\ log_number \in Nat /\ logfile \in Nat
<1> DEFINE m == manifests[manifest_file]
<1>1. m \in Manifests
  BY UpIs
<1>2. Len(m.edits) \in m.synced .. Len(m.edits) /\ VersionAt(m, Len(m.edits)) = Replayed(m.edits)
  BY <1>1, LastCut
<1>3. /\ \A k \in m.synced .. Len(m.edits) : VersionAt(m, k).log <= logfile
      /\ log_number <= Replayed(m.edits).log
  BY DEF BoundInv
<1>4. VersionAt(m, Len(m.edits)).log \in Nat
  BY <1>1, <1>2, VersionLog
<1>5. log_number \in Nat /\ logfile \in Nat
  BY DEF StoreInv, NumbersInv
<1> HIDE DEF m
<1>6. Replayed(m.edits).log \in Nat /\ Replayed(m.edits).log <= logfile
  BY <1>2, <1>3, <1>4
<1> QED
  BY <1>3, <1>5, <1>6

\* Nothing to do, and the tables that are written.
LEMMA TableLast ==
    ASSUME QueueInv, StoreInv, FilesInv, FreshInv, LastInv, StoreInv', FilesInv',
           NothingToDo \/ StartTable \/ FinishTable \/ TableFails
    PROVE  LastInv'
<1> DEFINE Stay == UNCHANGED <<phase, kept, safe, mem, imm, logfile, version, log_number, manifest_file, current,
                               manifests, job, broken, block_offset, logs>>
<1>1. BgInv /\ EditKeeps /\ BoundInv /\ InputsInv
  BY DEF StoreInv, LastInv
<1>2. CASE NothingToDo
  <2>1. Stay /\ phase = "up" /\ UNCHANGED <<tables, next_file>> /\ EndBackground(version, imm, bg_error)
    BY <1>2 DEF NothingToDo, callVars, memVars, versionVars, diskVars, history
  <2>2. bg'.stage \in {"idle", "merge"} /\ bg'.in \subseteq bg.in
    BY <1>1, <2>1, EndedIs
  <2>3. TablesMore(tables', tables) /\ EditKeeps' /\ BgBound /\ bg'.in \subseteq version
    BY <1>1, <2>1, <2>2, TablesMoreSame, EditEnds DEF InputsInv
  <2> QED
    BY <2>1, <2>3, WorkLast
<1>3. CASE StartTable
  <2>1. /\ Stay /\ phase = "up" /\ next_file' = next_file + 1
        /\ tables' = IF imm = {} THEN tables ELSE NewTable(next_file)
        /\ bg' = [bg EXCEPT !.stage = "table", !.kind = "imm", !.table = next_file]
    BY <1>3 DEF StartTable, callVars, memVars, history
  <2>2. bg'.stage = "table" /\ bg'.kind = "imm" /\ bg'.in = bg.in
    BY <1>1, <2>1 DEF BgInv
  <2>3. TablesMore(tables', tables)
    <3>1. CASE imm = {}
      BY <2>1, <3>1, TablesMoreSame
    <3>2. CASE imm # {}
      <4>1. tables' = NewTable(next_file) /\ next_file \notin DOMAIN tables
        BY <2>1, <3>2, UpIs
      <4>2. \A k \in DOMAIN tables : tables'[k] = tables[k]
        BY <4>1, NewTableLess
      <4> QED
        BY <4>2 DEF TablesMore
    <3> QED
      BY <3>1, <3>2
  <2>4. EditKeeps' /\ BgBound /\ bg'.in \subseteq version
    BY <1>1, <2>1, <2>2 DEF EditKeeps, BgBound, InputsInv
  <2> QED
    BY <2>1, <2>3, <2>4, WorkLast
<1>4. CASE FinishTable
  <2> DEFINE level == IF version = {} THEN 1 ELSE 0
             add == IF imm = {} THEN {} ELSE {[level |-> level, number |-> bg.table]}
             edit == EditOf(add, {}, logfile)
  <2>1. /\ Stay /\ phase = "up" /\ bg.stage = "table" /\ next_file' = next_file
        /\ tables' = IF bg.table \in DOMAIN tables
                     THEN [tables EXCEPT ![bg.table] = [recs |-> imm, synced |-> TRUE]]
                     ELSE tables
        /\ bg' = [bg EXCEPT !.stage = "manifest", !.edit = edit]
    BY <1>4 DEF FinishTable, callVars, memVars, versionVars, history
  <2>2. edit.add = add /\ edit.del = {} /\ edit.log = logfile
    BY DEF EditOf
  <2>3. imm # {} => Numbers(add) = {bg.table}
    <3> DEFINE file == [level |-> level, number |-> bg.table]
    <3>1. file.number = bg.table /\ (imm # {} => add = {file})
      OBVIOUS
    <3> HIDE DEF file, add
    <3> QED
      BY <3>1 DEF Numbers
  <2>4. imm = {} => Numbers(add) = {}
    BY DEF Numbers
  <2> HIDE DEF edit, add
  <2>5. bg'.stage = "manifest" /\ bg'.edit = edit /\ bg'.in = bg.in /\ bg'.kind = "imm"
    <3>1. bg'.stage = "manifest" /\ bg'.edit = edit /\ bg'.in = bg.in /\ bg'.kind = bg.kind
      BY <1>1, <2>1 DEF BgInv
    <3> QED
      BY <3>1, <1>1, <2>1 DEF EditKeeps
  <2>6. imm # Nothing /\ (imm # {} => bg.table \in DOMAIN tables) /\ (bg.table \in DOMAIN tables => ~tables[bg.table].synced)
    BY <2>1 DEF FilesInv, TableInv
  <2>7. bg.table \in DOMAIN tables => /\ DOMAIN tables' = DOMAIN tables /\ tables'[bg.table].recs = imm
                                      /\ \A k \in DOMAIN tables : k # bg.table => tables'[k] = tables[k]
    <3> DEFINE t == [recs |-> imm, synced |-> TRUE]
    <3>1. t.recs = imm /\ (bg.table \in DOMAIN tables => tables' = [tables EXCEPT ![bg.table] = t])
      BY <2>1
    <3> HIDE DEF t
    <3> QED
      BY <3>1
  <2>8. TablesMore(tables', tables)
    <3>1. CASE bg.table \in DOMAIN tables
      BY <2>6, <2>7, <3>1 DEF TablesMore
    <3>2. CASE bg.table \notin DOMAIN tables
      BY <2>1, <3>2, TablesMoreSame
    <3> QED
      BY <3>1, <3>2
  <2>9. imm \subseteq RecsOf(tables', add)
    <3>1. CASE imm = {}
      BY <3>1
    <3>2. CASE imm # {}
      <4>1. bg.table \in Numbers(add) \cap DOMAIN tables' /\ tables'[bg.table].recs = imm
        BY <3>2, <2>3, <2>6, <2>7
      <4> QED
        BY <4>1 DEF RecsOf
    <3> QED
      BY <3>1, <3>2
  <2>10. EditKeeps'
    BY <2>1, <2>2, <2>5, <2>6, <2>9 DEF EditKeeps
  <2>11. BgBound
    BY <1>1, <2>1, <2>2, <2>5, LogBound DEF BgBound
  <2>12. bg'.in \subseteq version
    BY <1>1, <2>1, <2>5 DEF InputsInv
  <2> QED
    BY <2>1, <2>8, <2>10, <2>11, <2>12, WorkLast
<1>5. CASE TableFails
  <2> DEFINE S == DOMAIN tables \ {bg.table}
  <2>1. /\ Stay /\ phase = "up" /\ next_file' = next_file
        /\ tables' = Restrict(tables, S)
        /\ EndImm(imm, TRUE)
    BY <1>5 DEF TableFails, memVars, versionVars, history
  <2>2. bg'.stage \in {"idle", "merge"} /\ bg'.in \subseteq bg.in
    BY <1>1, <2>1, EndedIs
  <2>3. DOMAIN tables' = S /\ \A k \in S : tables'[k] = tables[k]
    BY <2>1, RestrictTables
  <2>4. TablesMore(tables', tables)
    BY <2>3 DEF TablesMore
  <2>5. EditKeeps' /\ BgBound /\ bg'.in \subseteq version
    BY <1>1, <2>1, <2>2, EditEnds DEF InputsInv
  <2> QED
    BY <2>1, <2>4, <2>5, WorkLast
<1> QED
  BY <1>2, <1>3, <1>4, <1>5

\* The compaction: what its inputs hold is in its table.
LEMMA MergeLast ==
    ASSUME QueueInv, StoreInv, FilesInv, FreshInv, LastInv, StoreInv', FilesInv',
           StartMove \/ StartMerge \/ FinishMerge \/ MergeFails
    PROVE  LastInv'
<1> DEFINE Stay == UNCHANGED <<phase, kept, safe, mem, imm, logfile, version, log_number, manifest_file, current,
                               manifests, job, broken, block_offset, logs>>
<1>1. BgInv /\ EditKeeps /\ BoundInv /\ InputsInv
  BY DEF StoreInv, LastInv
<1>2. CASE StartMove
  <2> DEFINE add == { [f EXCEPT !.level = 1] : f \in version }
             edit == EditOf(add, version, log_number)
  <2>1. /\ Stay /\ phase = "up" /\ UNCHANGED <<tables, next_file>>
        /\ bg' = [bg EXCEPT !.stage = "manifest", !.kind = "move", !.edit = edit]
    BY <1>2 DEF StartMove, MayCompact, callVars, memVars, versionVars, diskVars, history
  <2>2. edit.add = add /\ edit.del = version /\ edit.log = log_number
    BY DEF EditOf
  <2>3. Numbers(version) \subseteq Numbers(add)
    <3> SUFFICES ASSUME NEW f \in version PROVE f.number \in Numbers(add)
      BY DEF Numbers
    <3>1. f \in Files
      BY DEF StoreInv, NumbersInv
    <3>2. [f EXCEPT !.level = 1].number = f.number
      BY <3>1 DEF Files
    <3>3. [f EXCEPT !.level = 1] \in add
      OBVIOUS
    <3> HIDE DEF add
    <3> QED
      BY <3>2, <3>3 DEF Numbers
  <2> HIDE DEF edit, add
  <2>4. bg'.stage = "manifest" /\ bg'.edit = edit /\ bg'.in = bg.in /\ bg'.kind = "move"
    BY <1>1, <2>1 DEF BgInv
  <2>5. RecsOf(tables', version) \subseteq RecsOf(tables', add)
    BY <2>3 DEF RecsOf
  <2>6. EditKeeps'
    BY <2>1, <2>2, <2>4, <2>5 DEF EditKeeps
  <2>7. BgBound
    BY <1>1, <2>1, <2>2, <2>4, LogBound DEF BgBound
  <2>8. bg'.in \subseteq version /\ TablesMore(tables', tables)
    BY <1>1, <2>1, <2>4, TablesMoreSame DEF InputsInv
  <2> QED
    BY <2>1, <2>6, <2>7, <2>8, WorkLast
<1>3. CASE StartMerge
  <2>1. /\ Stay /\ phase = "up" /\ next_file' = next_file + 1
        /\ tables' = NewTable(next_file)
        /\ bg' = [bg EXCEPT !.stage = "merge", !.kind = "merge", !.in = version, !.out = next_file]
    BY <1>3 DEF StartMerge, MayCompact, callVars, memVars, history
  <2>2. bg'.stage = "merge" /\ bg'.in = version
    BY <1>1, <2>1 DEF BgInv
  <2>3. \A k \in DOMAIN tables : tables'[k] = tables[k]
    BY <2>1, UpIs, NewTableLess
  <2>4. TablesMore(tables', tables) /\ EditKeeps' /\ BgBound /\ bg'.in \subseteq version
    BY <2>2, <2>3, EditEnds DEF TablesMore
  <2> QED
    BY <2>1, <2>4, WorkLast
<1>4. CASE FinishMerge
  <2> DEFINE add == {[level |-> 1, number |-> bg.out]}
             edit == EditOf(add, bg.in, log_number)
  <2>1. /\ Stay /\ phase = "up" /\ bg.stage = "merge" /\ next_file' = next_file
        /\ tables' = IF bg.out \in DOMAIN tables
                     THEN [tables EXCEPT ![bg.out] = [recs |-> RecordsIn(bg.in), synced |-> TRUE]]
                     ELSE tables
        /\ bg' = [bg EXCEPT !.stage = "manifest", !.edit = edit]
    BY <1>4 DEF FinishMerge, callVars, memVars, versionVars, history
  <2>2. edit.add = add /\ edit.del = bg.in /\ edit.log = log_number /\ Numbers(add) = {bg.out}
    BY DEF EditOf, Numbers
  <2> HIDE DEF edit, add
  <2>3. bg.out \in DOMAIN tables /\ bg.out # 0 /\ bg.kind = "merge" /\ ~tables[bg.out].synced
    BY <2>1 DEF FilesInv, OutInv, FreshInv, OutFresh
  <2>4. bg'.stage = "manifest" /\ bg'.edit = edit /\ bg'.in = bg.in /\ bg'.kind = "merge"
    BY <1>1, <2>1, <2>3 DEF BgInv
  <2>5. /\ DOMAIN tables' = DOMAIN tables /\ tables'[bg.out].recs = RecordsIn(bg.in)
        /\ \A k \in DOMAIN tables : k # bg.out => tables'[k] = tables[k]
    <3> DEFINE t == [recs |-> RecordsIn(bg.in), synced |-> TRUE]
    <3>1. t.recs = RecordsIn(bg.in) /\ tables' = [tables EXCEPT ![bg.out] = t]
      BY <2>1, <2>3
    <3> HIDE DEF t
    <3> QED
      BY <3>1, <2>3
  <2>6. TablesMore(tables', tables)
    BY <2>3, <2>5 DEF TablesMore
  <2>7. bg.in \subseteq version
    BY <1>1, <2>1 DEF InputsInv
  <2>8. bg.out \notin Numbers(bg.in)
    <3>1. Held(tables, version)
      BY <2>1, UpIs
    <3>2. Numbers(bg.in) \subseteq Numbers(version)
      BY <2>7 DEF Numbers
    <3> QED
      BY <3>1, <3>2, <2>3 DEF Held
  <2>9. RecsOf(tables', bg.in) \subseteq RecsOf(tables', add)
    <3>1. RecsOf(tables', bg.in) \subseteq RecordsIn(bg.in)
      BY <2>5, <2>8 DEF RecsOf, RecordsIn
    <3>2. RecordsIn(bg.in) \subseteq RecsOf(tables', add)
      <4>1. bg.out \in Numbers(add) \cap DOMAIN tables'
        BY <2>2, <2>3, <2>5
      <4> QED
        BY <4>1, <2>5 DEF RecsOf
    <3> QED
      BY <3>1, <3>2
  <2>10. EditKeeps'
    BY <2>1, <2>2, <2>4, <2>9 DEF EditKeeps
  <2>11. BgBound
    BY <1>1, <2>1, <2>2, <2>4, LogBound DEF BgBound
  <2> QED
    BY <2>1, <2>4, <2>6, <2>7, <2>10, <2>11, WorkLast
<1>5. CASE MergeFails
  <2>1. Stay /\ phase = "up" /\ UNCHANGED <<tables, next_file>> /\ EndBackground(version, imm, TRUE)
    BY <1>5 DEF MergeFails, AbandonMerge, DeleteObsoleteFiles, memVars, versionVars, history
  <2>2. bg'.stage \in {"idle", "merge"} /\ bg'.in \subseteq bg.in
    BY <1>1, <2>1, EndedIs
  <2>3. TablesMore(tables', tables) /\ EditKeeps' /\ BgBound /\ bg'.in \subseteq version
    BY <1>1, <2>1, <2>2, TablesMoreSame, EditEnds DEF InputsInv
  <2> QED
    BY <2>1, <2>3, WorkLast
<1> QED
  BY <1>2, <1>3, <1>4, <1>5

-----------------------------------------------------------------------------
(* The MANIFEST. *)

\* The versions of a MANIFEST with a record more.
OneMore(m2, m, e) ==
  LET n == Len(m.edits)
  IN  /\ n \in Nat /\ Len(m2.edits) = n + 1 /\ m2.edits[n + 1] = e /\ m2.edits # <<>>
      /\ Replayed(m2.edits) = ApplyEdit(Replayed(m.edits), e)
      /\ VersionAt(m2, n + 1) = ApplyEdit(Replayed(m.edits), e) /\ SubSeq(m2.edits, 1, n + 1) = m2.edits
      /\ \A k \in m.synced .. n : /\ SubSeq(m2.edits, 1, k) = SubSeq(m.edits, 1, k)
                                  /\ VersionAt(m2, k) = VersionAt(m, k)
      /\ ~Corrupt(m2.edits) => ~Corrupt(m.edits)
      /\ \A k \in m.synced .. n + 1 : k \in m.synced .. n \/ k = n + 1

LEMMA AppendVersions ==
    ASSUME NEW m \in Manifests, NEW e \in EditRecords, NEW m2,
           m2 = [edits |-> Append(m.edits, e), synced |-> m.synced]
    PROVE  OneMore(m2, m, e)
<1> DEFINE s == m.edits
           more == Append(s, e)
           n == Len(s)
<1>1. s \in Seq(EditRecords) /\ n \in Nat /\ m.synced \in Nat /\ m.synced <= n
  BY DEF Manifests
<1>2. more \in Seq(EditRecords) /\ Len(more) = n + 1 /\ more[n + 1] = e /\ \A i \in 1 .. n : more[i] = s[i]
  BY <1>1
<1>3. Replayed(more) = ApplyEdit(Replayed(s), e)
  <2> HIDE DEF s
  <2> QED
    BY <1>1, ReplayedAppend
<1>4. \A k \in m.synced .. n : SubSeq(more, 1, k) = SubSeq(s, 1, k)
  <2> SUFFICES ASSUME NEW k \in m.synced .. n PROVE SubSeq(more, 1, k) = SubSeq(s, 1, k)
    OBVIOUS
  <2>1. k \in 0 .. Len(s)
    BY <1>1
  <2> HIDE DEF s
  <2> QED
    BY <1>1, <2>1, PrefixOfAppend
<1> HIDE DEF more
<1>5. SubSeq(more, 1, n + 1) = more
  BY <1>2, WholeSeq
<1>6. ~Corrupt(more) => ~Corrupt(s)
  <2> SUFFICES ASSUME Corrupt(s) PROVE Corrupt(more)
    OBVIOUS
  <2> HIDE DEF s
  <2>1. PICK i \in 1 .. Len(s) - 1 : s[i] = Nothing
    BY DEF Corrupt
  <2>2. i \in 1 .. Len(more) - 1 /\ more[i] = Nothing
    BY <2>1, <1>1, <1>2
  <2> QED
    BY <2>2 DEF Corrupt
<1>7. m2.edits = more /\ more # <<>>
  BY <1>1, <1>2 DEF more
<1>8. \A k \in m.synced .. n + 1 : k \in m.synced .. n \/ k = n + 1
  BY <1>1
<1>9. VersionAt(m2, n + 1) = ApplyEdit(Replayed(s), e) /\ \A k \in m.synced .. n : VersionAt(m2, k) = VersionAt(m, k)
  BY <1>3, <1>4, <1>5, <1>7 DEF VersionAt
<1> HIDE DEF s
<1> QED
  BY <1>1, <1>2, <1>3, <1>4, <1>5, <1>6, <1>7, <1>8, <1>9 DEF OneMore, s

\* What an edit makes of a version has all its records.
LEMMA EditFiles ==
    ASSUME EditKeeps, bg.stage \in {"manifest", "sync"}, bg.edit \in Edits, NEW v
    PROVE  LET w == ApplyEdit(v, bg.edit)
           IN  /\ w.log = bg.edit.log /\ w.files = (v.files \ bg.edit.del) \cup bg.edit.add
               /\ RecsOf(tables, bg.edit.add) \subseteq RecsOf(tables, w.files)
               /\ RecsOf(tables, v.files) \subseteq RecsOf(tables, w.files)
<1> DEFINE w == ApplyEdit(v, bg.edit)
           e == bg.edit
<1>1. e # Nothing
  BY LevelStoreAssumption
<1>2. w.log = e.log /\ w.files = (v.files \ e.del) \cup e.add
  BY <1>1 DEF ApplyEdit
<1> HIDE DEF w
<1>3. RecsOf(tables, e.add) \subseteq RecsOf(tables, w.files)
  BY <1>2 DEF RecsOf, Numbers
<1>4. RecsOf(tables, v.files) \subseteq RecsOf(tables, e.del) \cup RecsOf(tables, w.files)
  BY <1>2 DEF RecsOf, Numbers
<1>5. RecsOf(tables, e.del) \subseteq RecsOf(tables, e.add)
  <2>1. e.del = {} => RecsOf(tables, e.del) = {}
    BY DEF RecsOf, Numbers
  <2> QED
    BY <2>1 DEF EditKeeps
<1> QED
  BY <1>2, <1>3, <1>4, <1>5 DEF w

\* The version with the edit is one that recovery may start with.
LEMMA EditFound ==
    ASSUME StoreInv, FilesInv, LastInv, phase = "up", bg.stage \in {"manifest", "sync"},
           ~Corrupt(manifests[manifest_file].edits)
    PROVE  LET w == ApplyEdit(Replayed(manifests[manifest_file].edits), bg.edit)
           IN  /\ kept \subseteq WritesIn(FoundAt(tables, w, LastingIn(logs)))
               /\ safe \subseteq WritesIn(FoundAt(tables, w, SurvivingIn(logs)))
<1> DEFINE m == manifests[manifest_file]
           v == Replayed(m.edits)
           w == ApplyEdit(v, bg.edit)
           G == LastingIn(logs)
           H == SurvivingIn(logs)
<1>1. bg.edit \in Edits /\ EditKeeps /\ KeptInv /\ MemInv /\ BoundInv
  BY DEF StoreInv, BgInv, LastInv
<1>2. /\ w.log = bg.edit.log /\ w.files = (v.files \ bg.edit.del) \cup bg.edit.add
      /\ RecsOf(tables, bg.edit.add) \subseteq RecsOf(tables, w.files)
      /\ RecsOf(tables, v.files) \subseteq RecsOf(tables, w.files)
  BY <1>1, EditFiles
<1>3. m \in Manifests /\ current = manifest_file
  BY UpIs
<1>4. DOMAIN G = DOMAIN logs /\ DOMAIN H = DOMAIN logs
  BY DEF LastingIn, SurvivingIn
<1>5. CASE bg.kind = "imm"
  <2>1. imm # Nothing /\ imm \subseteq RecsOf(tables, bg.edit.add) /\ bg.edit.log = logfile
    BY <1>1, <1>5 DEF EditKeeps
  <2>2. kept \subseteq WritesIn(NearAt(tables, v, G)) /\ safe \subseteq WritesIn(NearAt(tables, v, H))
    BY <1>1 DEF MemInv
  <2>3. logfile \in DOMAIN logs /\ logfile >= w.log
    BY <1>1, <1>2, <2>1 DEF BoundInv, StoreInv, NumbersInv
  <2> HIDE DEF v, w, G, H
  <2>4. G[logfile] \subseteq FoundAt(tables, w, G) /\ H[logfile] \subseteq FoundAt(tables, w, H)
    BY <1>4, <2>3, FoundInLog
  <2>5. NearAt(tables, v, G) \subseteq FoundAt(tables, w, G) /\ NearAt(tables, v, H) \subseteq FoundAt(tables, w, H)
    <3>1. RecsOf(tables, w.files) \subseteq FoundAt(tables, w, G) /\ RecsOf(tables, w.files) \subseteq FoundAt(tables, w, H)
      BY DEF FoundAt
    <3> QED
      BY <3>1, <2>1, <2>4, <1>2 DEF NearAt
  <2>6. /\ WritesIn(NearAt(tables, v, G)) \subseteq WritesIn(FoundAt(tables, w, G))
        /\ WritesIn(NearAt(tables, v, H)) \subseteq WritesIn(FoundAt(tables, w, H))
    BY <2>5, WritesInMore
  <2>7. kept \subseteq WritesIn(FoundAt(tables, w, G)) /\ safe \subseteq WritesIn(FoundAt(tables, w, H))
    BY <2>2, <2>6
  <2> QED
    BY <2>7 DEF v, w, G, H
<1>6. CASE bg.kind # "imm"
  <2>1. bg.edit.log = log_number /\ log_number <= v.log
    BY <1>1, <1>6 DEF EditKeeps, BoundInv
  <2>2. v.log \in Nat /\ log_number \in Nat /\ DOMAIN logs \subseteq Nat /\ VersionAt(m, Len(m.edits)) = v
        /\ Len(m.edits) \in m.synced .. Len(m.edits) /\ SubSeq(m.edits, 1, Len(m.edits)) = m.edits
    <3>1. /\ Len(m.edits) \in m.synced .. Len(m.edits) /\ VersionAt(m, Len(m.edits)) = v
          /\ m.edits \in Seq(EditRecords)
      BY <1>3, LastCut
    <3>2. VersionAt(m, Len(m.edits)).log \in Nat
      BY <1>3, <3>1, VersionLog
    <3>3. SubSeq(m.edits, 1, Len(m.edits)) = m.edits
      BY <3>1, WholeSeq
    <3>4. log_number \in Nat /\ DOMAIN logs \subseteq Nat
      BY DEF StoreInv, NumbersInv, LogsInv
    <3> QED
      BY <3>1, <3>2, <3>3, <3>4
  <2>3. \A n \in DOMAIN logs : n >= v.log => n >= w.log
    BY <1>2, <2>1, <2>2
  <2>4. kept \subseteq WritesIn(FoundAt(tables, v, G)) /\ safe \subseteq WritesIn(FoundAt(tables, v, H))
    BY <1>1, <1>3, <2>2 DEF KeptInv, DiskKeeps
  <2> HIDE DEF v, w, G, H
  <2>5. FoundAt(tables, v, G) \subseteq FoundAt(tables, w, G) /\ FoundAt(tables, v, H) \subseteq FoundAt(tables, w, H)
    BY <1>2, <1>4, <2>3 DEF FoundAt
  <2>6. /\ WritesIn(FoundAt(tables, v, G)) \subseteq WritesIn(FoundAt(tables, w, G))
        /\ WritesIn(FoundAt(tables, v, H)) \subseteq WritesIn(FoundAt(tables, w, H))
    BY <2>5, WritesInMore
  <2>7. kept \subseteq WritesIn(FoundAt(tables, w, G)) /\ safe \subseteq WritesIn(FoundAt(tables, w, H))
    BY <2>4, <2>6
  <2> QED
    BY <2>7 DEF v, w, G, H
<1> QED
  BY <1>5, <1>6

\* A record more: the edit, or one that is torn.
LEMMA MoreManifest ==
    ASSUME StoreInv, FilesInv, LastInv, phase = "up", bg.stage \in {"manifest", "sync"},
           NEW e \in {Nothing, bg.edit},
           manifests'[manifest_file] = [edits  |-> Append(manifests[manifest_file].edits, e),
                                        synced |-> manifests[manifest_file].synced],
           UNCHANGED <<phase, kept, safe, mem, imm, logfile, version, log_number, manifest_file, current, next_file,
                       tables, logs>>,
           bg'.stage \in {"idle", "merge"} \/ (bg'.stage = "sync" /\ bg'.edit = bg.edit /\ e = bg.edit),
           EditKeeps', InputsInv', JobKept', OffsetInv'
    PROVE  LastInv'
<1> DEFINE m == manifests[manifest_file]
           m2 == [edits |-> Append(m.edits, e), synced |-> m.synced]
           v == Replayed(m.edits)
           w == ApplyEdit(v, e)
           n == Len(m.edits)
           G == LastingIn(logs)
           H == SurvivingIn(logs)
<1>1. bg.edit \in Edits /\ EditKeeps /\ KeptInv /\ MemInv /\ BoundInv
  BY DEF StoreInv, BgInv, LastInv
<1>2. m \in Manifests /\ current = manifest_file /\ e \in EditRecords
  BY <1>1, UpIs DEF EditRecords
<1>3. /\ manifests'[manifest_file] = m2 /\ m2.synced = m.synced
      /\ m2 = [edits |-> Append(m.edits, e), synced |-> m.synced]
  OBVIOUS
<1> HIDE DEF m2
<1>4. /\ n \in Nat /\ Len(m2.edits) = n + 1 /\ m2.edits[n + 1] = e /\ m2.edits # <<>>
      /\ Replayed(m2.edits) = w
      /\ VersionAt(m2, n + 1) = w /\ SubSeq(m2.edits, 1, n + 1) = m2.edits
      /\ \A k \in m.synced .. n : /\ SubSeq(m2.edits, 1, k) = SubSeq(m.edits, 1, k)
                                  /\ VersionAt(m2, k) = VersionAt(m, k)
      /\ ~Corrupt(m2.edits) => ~Corrupt(m.edits)
      /\ \A k \in m.synced .. n + 1 : k \in m.synced .. n \/ k = n + 1
  <2>1. OneMore(m2, m, e)
    BY <1>2, <1>3, AppendVersions
  <2> QED
    BY <2>1 DEF OneMore
<1>5. n \in m.synced .. n /\ VersionAt(m, n) = v /\ SubSeq(m.edits, 1, n) = m.edits
  BY <1>2, LastCut, WholeSeq
<1>6. e = Nothing => w = v
  BY DEF ApplyEdit
<1>7. e # Nothing => w.log = bg.edit.log
  BY <1>1, EditFiles
<1>8. RecsOf(tables, v.files) \subseteq RecsOf(tables, w.files)
  BY <1>1, <1>6, EditFiles
<1>9. ~Corrupt(m2.edits) => /\ kept \subseteq WritesIn(FoundAt(tables, w, G))
                            /\ safe \subseteq WritesIn(FoundAt(tables, w, H))
  <2>1. CASE e = Nothing
    <3>1. ~Corrupt(m.edits) => /\ kept \subseteq WritesIn(FoundAt(tables, v, G))
                               /\ safe \subseteq WritesIn(FoundAt(tables, v, H))
      BY <1>1, <1>2, <1>5 DEF KeptInv, DiskKeeps
    <3> QED
      BY <3>1, <2>1, <1>4, <1>6
  <2>2. CASE e # Nothing
    BY <2>2, <1>4, EditFound
  <2> QED
    BY <2>1, <2>2
<1> HIDE DEF w
<1>10. KeptInv'
  <2>1. DiskKeeps(kept, safe, tables, logs, m) /\ safe \subseteq kept
    BY <1>1, <1>2 DEF KeptInv
  <2>2. ASSUME NEW k \in m.synced .. n + 1, ~Corrupt(SubSeq(m2.edits, 1, k))
        PROVE  safe \subseteq WritesIn(FoundAt(tables, VersionAt(m2, k), H))
    <3>1. CASE k \in m.synced .. n
      BY <3>1, <2>1, <2>2, <1>4 DEF DiskKeeps
    <3>2. CASE k = n + 1
      BY <3>2, <2>2, <1>4, <1>9
    <3> QED
      BY <3>1, <3>2, <1>4
  <2>3. DiskKeeps(kept, safe, tables, logs, m2)
    BY <2>2, <1>3, <1>4, <1>9 DEF DiskKeeps
  <2> QED
    BY <2>1, <2>3, <1>2, <1>3 DEF KeptInv
<1>11. MemInv'
  <2> DEFINE Near(g) == RecsOf(tables, w.files) \cup (IF imm = Nothing THEN {} ELSE imm) \cup (mem \cap g[logfile])
  <2>1. /\ kept \subseteq WritesIn(InMemory \cup RecsOf(tables, version))
        /\ ~Corrupt(m.edits) => /\ kept \subseteq WritesIn(NearAt(tables, v, G))
                                /\ safe \subseteq WritesIn(NearAt(tables, v, H))
    BY <1>1 DEF MemInv
  <2>2. NearAt(tables, v, G) \subseteq Near(G) /\ NearAt(tables, v, H) \subseteq Near(H)
    BY <1>8 DEF NearAt
  <2>3. ~Corrupt(m2.edits) => kept \subseteq WritesIn(Near(G)) /\ safe \subseteq WritesIn(Near(H))
    <3> HIDE DEF Near
    <3>1. /\ WritesIn(NearAt(tables, v, G)) \subseteq WritesIn(Near(G))
          /\ WritesIn(NearAt(tables, v, H)) \subseteq WritesIn(Near(H))
      BY <2>2, WritesInMore
    <3> QED
      BY <3>1, <2>1, <1>4
  <2>4. InMemory' = InMemory
    BY DEF InMemory
  <2>5. /\ Near(G) = NearAt(tables, Replayed(m.edits), G)'
        /\ Near(H) = NearAt(tables, Replayed(m.edits), H)'
    BY <1>3, <1>4 DEF NearAt
  <2> HIDE DEF Near
  <2>6. /\ kept' \subseteq WritesIn(InMemory \cup RecsOf(tables, version))'
        /\ ~Corrupt(m.edits)' => /\ kept' \subseteq WritesIn(NearAt(tables, Replayed(m.edits), G))'
                                 /\ safe' \subseteq WritesIn(NearAt(tables, Replayed(m.edits), H))'
    BY <2>1, <2>3, <2>4, <2>5, <1>3
  <2> QED
    BY <2>6 DEF MemInv
<1>12. BoundInv'
  <2>1. /\ logfile \in DOMAIN logs /\ \A k \in DOMAIN logs : k < next_file
        /\ \A k \in m.synced .. n : VersionAt(m, k).log <= logfile
        /\ log_number <= v.log
        /\ log_number <= bg.edit.log /\ bg.edit.log <= logfile
    BY <1>1 DEF BoundInv
  <2>2. w.log <= logfile /\ log_number <= w.log
    BY <2>1, <1>5, <1>6, <1>7
  <2>3. \A k \in m.synced .. n + 1 : VersionAt(m2, k).log <= logfile
    BY <2>1, <2>2, <1>4
  <2>4. bg'.stage \in {"manifest", "sync"} => bg'.stage = "sync" /\ bg'.edit = bg.edit /\ e = bg.edit
    OBVIOUS
  <2> HIDE DEF m, n, v
  <2> QED
    BY <2>1, <2>2, <2>3, <2>4, <1>3, <1>4 DEF BoundInv, VersionAt
<1>13. NewLogInv'
  BY DEF NewLogInv
<1> QED
  BY <1>10, <1>11, <1>12, <1>13 DEF LastInv

\* The edit is written to the MANIFEST, or that fails.
LEMMA ManifestLast ==
    ASSUME QueueInv, StoreInv, FilesInv, FreshInv, LastInv, StoreInv', FilesInv', WriteManifest \/ ManifestFails
    PROVE  LastInv'
<1> DEFINE m == manifests[manifest_file]
<1>1. /\ phase = "up" /\ bg.stage \in {"manifest", "sync"}
      /\ BgInv /\ ManifestsInv /\ EditKeeps /\ InputsInv /\ JobKept /\ OffsetInv /\ BoundInv
  BY DEF WriteManifest, ManifestFails, StoreInv, LastInv
<1>2. /\ UNCHANGED <<phase, tables, current, manifest_file, mem, imm, logs, job, version, logfile, log_number,
                     next_file, kept, safe, broken, block_offset>>
      /\ \/ manifests' = manifests /\ bg'.stage # "sync"
         \/ \E e \in {Nothing, bg.edit} : /\ manifests' = [manifests EXCEPT ![manifest_file].edits = Append(@, e)]
                                          /\ bg'.stage = "sync" => e = bg.edit
      /\ bg'.in \subseteq bg.in /\ EditKeeps'
      /\ bg'.stage \in {"idle", "merge"} \/ (bg'.stage = "sync" /\ bg'.edit = bg.edit)
  <2>1. CASE WriteManifest
    <3>1. /\ UNCHANGED <<phase, tables, current, manifest_file, mem, imm, logs, job, version, logfile, log_number,
                         next_file, kept, safe, broken, block_offset>>
          /\ manifests' = [manifests EXCEPT ![manifest_file].edits = Append(@, bg.edit)]
          /\ bg' = [bg EXCEPT !.stage = "sync"] /\ bg.stage = "manifest"
      BY <2>1 DEF WriteManifest, callVars, memVars, versionVars, history
    <3>2. bg'.stage = "sync" /\ bg'.edit = bg.edit /\ bg'.in = bg.in /\ bg'.kind = bg.kind
      BY <1>1, <3>1 DEF BgInv
    <3>3. EditKeeps'
      BY <1>1, <3>1, <3>2 DEF EditKeeps
    <3> QED
      BY <3>1, <3>2, <3>3
  <2>2. CASE ManifestFails
    <3>1. UNCHANGED <<phase, tables, current, manifest_file, mem, imm, logs, job, version, logfile, log_number,
                      next_file, kept, safe, broken, block_offset>>
      BY <2>2 DEF ManifestFails, AbandonMerge, DeleteObsoleteFiles, memVars, versionVars, history
    <3>2. manifests' = manifests
          \/ \E e \in {Nothing, bg.edit} : manifests' = [manifests EXCEPT ![manifest_file].edits = Append(@, e)]
      BY <2>2 DEF ManifestFails
    <3>3. EndImm(imm, TRUE) \/ EndBackground(version, imm, TRUE)
      BY <2>2 DEF ManifestFails, AbandonMerge
    <3>4. bg'.stage \in {"idle", "merge"} /\ bg'.in \subseteq bg.in
      BY <1>1, <3>3, EndedIs
    <3> QED
      BY <3>1, <3>2, <3>4, EditEnds
  <2> QED
    BY <2>1, <2>2
<1>3. InputsInv'
  BY <1>1, <1>2, InputsStay
<1>4. LogsMore(logs', logs, 0) /\ TablesMore(tables', tables) /\ DOMAIN logs \subseteq Nat
  BY <1>2, LogsMoreSame, TablesMoreSame DEF StoreInv, LogsInv
<1>5. JobKept' /\ OffsetInv'
  BY <1>1, <1>2, <1>4, JobStays, OffsetStays
<1>6. CASE manifests' = manifests /\ bg'.stage # "sync"
  <2>1. BgBound
    BY <1>2, <1>6 DEF BgBound
  <2> QED
    BY <2>1, <1>1, <1>2, <1>3, <1>4, <1>5, <1>6, UpStays
<1>7. CASE \E e \in {Nothing, bg.edit} : /\ manifests' = [manifests EXCEPT ![manifest_file].edits = Append(@, e)]
                                         /\ bg'.stage = "sync" => e = bg.edit
  <2>1. PICK e \in {Nothing, bg.edit} : /\ manifests' = [manifests EXCEPT ![manifest_file].edits = Append(@, e)]
                                        /\ bg'.stage = "sync" => e = bg.edit
    BY <1>7
  <2> DEFINE more == [edits |-> Append(m.edits, e), synced |-> m.synced]
  <2>2. manifest_file \in DOMAIN manifests /\ e \in EditRecords
    BY <1>1, UpIs DEF EditRecords, StoreInv, BgInv
  <2>3. more \in Manifests /\ manifests' = [manifests EXCEPT ![manifest_file] = more]
    BY <1>1, <2>1, <2>2, AppendedManifest
  <2> HIDE DEF more
  <2>4. manifests'[manifest_file] = more
    BY <2>2, <2>3
  <2> QED
    BY <2>1, <2>4, <1>1, <1>2, <1>3, <1>5, MoreManifest DEF more
<1> QED
  BY <1>2, <1>6, <1>7

-----------------------------------------------------------------------------
(* The new version. *)

\* What DeleteObsoleteFiles leaves.
LEMMA DeleteMore ==
    ASSUME NEW ms, NEW files, NEW held, NEW log, NEW pending, NEW err,
           DeleteObsoleteFiles(ms, files, held, log, pending, err)
    PROVE  /\ TablesMore(tables', tables) /\ LogsMore(logs', logs, log)
           /\ \A n \in DOMAIN logs' : n \in DOMAIN logs /\ logs'[n] = logs[n]
           /\ \A n \in DOMAIN logs : n >= log => n \in DOMAIN logs'
<1>1. CASE err
  BY <1>1, TablesMoreSame, LogsMoreSame DEF DeleteObsoleteFiles
<1>2. CASE ~err
  <2> DEFINE S == DOMAIN tables \cap (pending \cup Numbers(files \cup held))
  <2>1. tables' = Restrict(tables, S) /\ logs' = Restrict(logs, { n \in DOMAIN logs : n >= log })
    BY <1>2 DEF DeleteObsoleteFiles
  <2>2. S \subseteq DOMAIN tables
    OBVIOUS
  <2> HIDE DEF S
  <2>3. DOMAIN tables' = S /\ \A n \in S : tables'[n] = tables[n]
    BY <2>1, <2>2, RestrictTables
  <2>4. TablesMore(tables', tables)
    BY <2>3 DEF TablesMore
  <2> QED
    BY <2>1, <2>4, RestrictMore
<1> QED
  BY <1>1, <1>2

\* The version that a MANIFEST ends with has its last edit.
LEMMA LastEdit ==
    ASSUME NEW m \in Manifests, NEW e \in Edits, m.edits # <<>>, m.edits[Len(m.edits)] = e
    PROVE  Replayed(m.edits).log = e.log /\ e.add \subseteq Replayed(m.edits).files
<1> DEFINE s == m.edits
           n == Len(s)
<1>1. s \in Seq(EditRecords) /\ n \in Nat /\ n # 0
  BY DEF Manifests
<1> HIDE DEF s
<1>2. PICK v : /\ v \in [0 .. n -> Versions] /\ v[0] = NoVersion
               /\ \A k \in 1 .. n : v[k] = ApplyEdit(v[k - 1], s[k])
               /\ Replayed(s) = v[n]
  BY <1>1, ReplayedIs
<1>3. Replayed(s) = ApplyEdit(v[n - 1], s[n])
  BY <1>1, <1>2
<1>4. s[n] = e /\ e # Nothing
  BY LevelStoreAssumption DEF s
<1> QED
  BY <1>3, <1>4 DEF ApplyEdit, s

\* The MANIFEST is synced: the logs before that of the edit are not needed any more.
LEMMA InstallLast ==
    ASSUME QueueInv, StoreInv, FilesInv, FreshInv, LastInv, StoreInv', FilesInv', InstallVersion
    PROVE  LastInv'
<1> DEFINE m == manifests[manifest_file]
           n == Len(m.edits)
           m2 == [edits |-> m.edits, synced |-> n]
           ms == [manifests EXCEPT ![manifest_file].synced = n]
           v == Replayed(m.edits)
           e == bg.edit
           us == tables'
           ls2 == logs'
           G == LastingIn(logs)
           H == SurvivingIn(logs)
<1>1. /\ phase = "up" /\ bg.stage = "sync" /\ log_number' = e.log
      /\ version' = (version \ e.del) \cup e.add
      /\ UNCHANGED <<phase, job, mem, logfile, block_offset, next_file, manifest_file, current, kept, safe, broken>>
  <2>1. UNCHANGED <<phase, writers, asleep, job, mem, logfile, block_offset, next_file, manifest_file,
                    last_sequence, reader, bg_error, current, history, errors, crashes>>
    BY DEF InstallVersion
  <2> QED
    BY <2>1 DEF InstallVersion, history
<1>2. BgInv /\ EditKeeps /\ KeptInv /\ MemInv /\ BoundInv /\ InputsInv /\ JobKept /\ OffsetInv /\ e \in Edits
  BY <1>1 DEF StoreInv, BgInv, LastInv
<1>3. /\ m \in Manifests /\ current = manifest_file /\ manifest_file \in DOMAIN manifests
      /\ Held(tables, version) /\ Recoverable(tables, m) /\ manifest_file \in Nat
  BY <1>1, UpIs DEF StoreInv, NumbersInv
<1>4. m2 \in Manifests /\ ms = [manifests EXCEPT ![manifest_file] = m2]
  BY <1>3, SyncedManifest DEF StoreInv
<1>5. ms[manifest_file] = m2 /\ ms \in [DOMAIN ms -> Manifests] /\ manifest_file \in DOMAIN ms
  <2> HIDE DEF ms, m2
  <2> QED
    BY <1>3, <1>4, ChangedManifest DEF StoreInv
<1>6. m2.edits = m.edits /\ m2.synced = n /\ m.synced <= n /\ n \in Nat
  BY <1>3 DEF Manifests
<1>7. v.log = e.log /\ e.add \subseteq v.files
  BY <1>1, <1>2, <1>3, LastEdit DEF BoundInv
<1>8. e.log \in Nat /\ e.log <= logfile /\ logfile \in DOMAIN logs /\ logfile \in Nat
  BY <1>1, <1>2 DEF Edits, BoundInv, StoreInv, NumbersInv
<1> HIDE DEF ms, m2
<1>9. /\ manifests'[manifest_file] = m2
      /\ TablesMore(us, tables) /\ LogsMore(ls2, logs, e.log)
      /\ \A k \in DOMAIN ls2 : k \in DOMAIN logs /\ ls2[k] = logs[k]
      /\ \A k \in DOMAIN logs : k >= e.log => k \in DOMAIN ls2
  <2>1. CASE tables' = tables /\ logs' = logs /\ manifests' = ms
    BY <1>5, <2>1, TablesMoreSame, LogsMoreSame
  <2>2. ASSUME NEW files, NEW held, NEW pending, NEW err,
               DeleteObsoleteFiles(ms, files, held, e.log, pending, err)
        PROVE  /\ manifests'[manifest_file] = m2
               /\ TablesMore(us, tables) /\ LogsMore(ls2, logs, e.log)
               /\ \A k \in DOMAIN ls2 : k \in DOMAIN logs /\ ls2[k] = logs[k]
               /\ \A k \in DOMAIN logs : k >= e.log => k \in DOMAIN ls2
    <3>1. manifests'[manifest_file] = m2
      BY <2>2, <1>3, <1>5, DeleteStore DEF StoreInv
    <3> QED
      BY <2>2, <3>1, DeleteMore
  <2>3. CASE bg.kind = "imm"
    <3>1. DeleteObsoleteFiles(ms, version', reader \cup bg.in, e.log, pending_outputs, bg_error)
      BY <1>1, <2>3 DEF InstallVersion, ms
    <3> QED
      BY <2>2, <3>1
  <2>4. CASE bg.kind = "move"
    BY <2>1, <2>4 DEF InstallVersion, ms
  <2>5. CASE bg.kind = "merge"
    <3>1. DeleteObsoleteFiles(ms, version', reader, e.log, pending_outputs', bg_error)
      BY <1>1, <2>5 DEF InstallVersion, ms
    <3> QED
      BY <2>2, <3>1
  <2> QED
    BY <2>3, <2>4, <2>5 DEF InstallVersion
<1>10. /\ logfile \in DOMAIN ls2 /\ ls2[logfile] = logs[logfile]
       /\ LastingIn(ls2)[logfile] = G[logfile] /\ SurvivingIn(ls2)[logfile] = H[logfile]
  <2>1. logfile \in DOMAIN ls2 /\ ls2[logfile] = logs[logfile]
    BY <1>8, <1>9
  <2> QED
    BY <2>1, <1>8 DEF LastingIn, SurvivingIn
<1>11. /\ imm' = (IF bg.kind = "imm" THEN Nothing ELSE imm)
       /\ bg'.stage \in {"idle", "merge"} /\ bg'.in \subseteq bg.in /\ (bg.kind # "imm" => bg'.in = {})
  <2>1. CASE bg.kind = "imm"
    <3>1. imm' = Nothing /\ EndImm(Nothing, bg_error)
      BY <2>1 DEF InstallVersion
    <3> QED
      BY <3>1, <2>1, <1>2, EndedIs
  <2>2. CASE bg.kind # "imm"
    <3>1. imm' = imm /\ EndBackground(version', imm, bg_error)
      BY <2>2 DEF InstallVersion
    <3>2. bg' = IdleBg
      BY <3>1 DEF EndBackground
    <3> QED
      BY <3>1, <3>2, <2>2 DEF IdleBg
  <2> QED
    BY <2>1, <2>2
<1>12. /\ Recoverable(us, m2) /\ Held(us, version') /\ Held(us, v.files) /\ Held(tables, v.files)
  <2>1. Recoverable(us, m2) /\ Held(us, version')
    BY <1>1, <1>3, <1>9 DEF FilesInv, DiskInv, TablesInv
  <2>2. Held(us, v.files)
    BY <2>1, <1>4, <1>6, RecoverableLast
  <2> QED
    BY <2>1, <2>2, <1>3, RecoverableLast
<1>13. RecsOf(tables, v.files) \subseteq RecsOf(us, v.files)
  BY <1>9, <1>12, RecsOfMore
<1>14. RecsOf(tables, version) \cup RecsOf(tables, e.add) \subseteq RecsOf(us, version')
  <2> DEFINE x == [files |-> version, log |-> 0, next |-> 0, last |-> 0]
             w == ApplyEdit(x, e)
  <2>1. /\ w.files = (x.files \ e.del) \cup e.add
        /\ RecsOf(tables, e.add) \subseteq RecsOf(tables, w.files)
        /\ RecsOf(tables, x.files) \subseteq RecsOf(tables, w.files)
    BY <1>1, <1>2, EditFiles
  <2>2. x.files = version
    OBVIOUS
  <2> HIDE DEF w, x
  <2>3. w.files = version'
    BY <2>1, <2>2, <1>1
  <2>4. Held(tables, version')
    <3>1. Held(tables, e.add)
      BY <1>1 DEF FilesInv, EditInv
    <3> QED
      BY <3>1, <1>1, <1>3 DEF Held, Numbers
  <2>5. RecsOf(tables, version') \subseteq RecsOf(us, version')
    BY <2>4, <1>9, <1>12, RecsOfMore
  <2> QED
    BY <2>1, <2>2, <2>3, <2>5
<1>15. bg.kind = "imm" => imm \subseteq RecsOf(tables, e.add) /\ e.del = {}
  BY <1>1, <1>2 DEF EditKeeps
<1>16. KeptInv'
  <2>1. DiskKeeps(kept, safe, tables, logs, m) /\ safe \subseteq kept
    BY <1>2, <1>3 DEF KeptInv
  <2>2. CutsMore(us, tables, ls2, logs, m2)
    <3> SUFFICES ASSUME NEW k \in m2.synced .. Len(m2.edits)
                 PROVE  /\ RecsOf(tables, VersionAt(m2, k).files) \subseteq RecsOf(us, VersionAt(m2, k).files)
                        /\ LogsMore(ls2, logs, VersionAt(m2, k).log)
      BY DEF CutsMore
    <3>1. k = n
      BY <1>6
    <3>2. VersionAt(m2, n) = v
      BY <1>3, <1>6, LastCut DEF VersionAt
    <3> QED
      BY <3>1, <3>2, <1>7, <1>9, <1>13
  <2> HIDE DEF m, ls2, us
  <2>3. DiskKeeps(kept, safe, us, ls2, m2)
    BY <2>1, <2>2, <1>3, <1>4, <1>6, DiskMore
  <2> QED
    BY <2>1, <2>3, <1>1, <1>3, <1>9 DEF KeptInv, us, ls2
<1>17. MemInv'
  <2> DEFINE Near(g) == RecsOf(us, v.files) \cup (IF imm' = Nothing THEN {} ELSE imm') \cup (mem \cap g[logfile])
             A == InMemory \cup RecsOf(tables, version)
             B == InMemory' \cup RecsOf(us, version')
  <2>1. /\ kept \subseteq WritesIn(A)
        /\ ~Corrupt(m.edits) => /\ kept \subseteq WritesIn(NearAt(tables, v, G))
                                /\ safe \subseteq WritesIn(NearAt(tables, v, H))
    BY <1>1, <1>2 DEF MemInv
  <2>2. A \subseteq B
    BY <1>1, <1>11, <1>14, <1>15 DEF InMemory
  <2>3. bg.kind = "imm" => imm \subseteq RecsOf(us, v.files)
    <3>1. RecsOf(tables, e.add) \subseteq RecsOf(tables, v.files)
      BY <1>7 DEF RecsOf, Numbers
    <3> QED
      BY <3>1, <1>13, <1>15
  <2>4. NearAt(tables, v, G) \subseteq Near(LastingIn(ls2)) /\ NearAt(tables, v, H) \subseteq Near(SurvivingIn(ls2))
    BY <1>10, <1>11, <1>13, <2>3 DEF NearAt
  <2>5. /\ kept \subseteq WritesIn(B)
        /\ ~Corrupt(m.edits) => kept \subseteq WritesIn(Near(LastingIn(ls2))) /\ safe \subseteq WritesIn(Near(SurvivingIn(ls2)))
    <3> HIDE DEF Near, A, B
    <3>1. /\ WritesIn(A) \subseteq WritesIn(B)
          /\ WritesIn(NearAt(tables, v, G)) \subseteq WritesIn(Near(LastingIn(ls2)))
          /\ WritesIn(NearAt(tables, v, H)) \subseteq WritesIn(Near(SurvivingIn(ls2)))
      BY <2>2, <2>4, WritesInMore
    <3> QED
      BY <3>1, <2>1
  <2>6. /\ Near(LastingIn(ls2)) = NearAt(tables, Replayed(m.edits), G)'
        /\ Near(SurvivingIn(ls2)) = NearAt(tables, Replayed(m.edits), H)'
        /\ (~Corrupt(m.edits))' = ~Corrupt(m.edits)
    BY <1>1, <1>6, <1>9 DEF NearAt
  <2>7. B = (InMemory \cup RecsOf(tables, version))'
    OBVIOUS
  <2> HIDE DEF Near, A, B
  <2>8. /\ kept' \subseteq WritesIn(InMemory \cup RecsOf(tables, version))'
        /\ ~Corrupt(m.edits)' => /\ kept' \subseteq WritesIn(NearAt(tables, Replayed(m.edits), G))'
                                 /\ safe' \subseteq WritesIn(NearAt(tables, Replayed(m.edits), H))'
    BY <2>5, <2>6, <2>7, <1>1
  <2> QED
    BY <2>8 DEF MemInv
<1>18. BoundInv'
  <2>1. \A k \in DOMAIN ls2 : k < next_file
    BY <1>1, <1>2, <1>9 DEF BoundInv
  <2>2. \A k \in m2.synced .. Len(m2.edits) : VersionAt(m2, k).log <= logfile
    <3>1. VersionAt(m2, n) = v
      BY <1>3, <1>6, LastCut DEF VersionAt
    <3>2. \A k \in m2.synced .. Len(m2.edits) : k = n
      BY <1>6
    <3> QED
      BY <3>1, <3>2, <1>7, <1>8
  <2>3. e.log <= Replayed(m2.edits).log
    BY <1>6, <1>7, <1>8
  <2> HIDE DEF m, n, v, e
  <2> QED
    BY <2>1, <2>2, <2>3, <1>1, <1>9, <1>10, <1>11 DEF BoundInv, VersionAt, e
<1>19. NewLogInv'
  BY <1>1 DEF NewLogInv
<1>20. InputsInv'
  BY <1>1, <1>2, <1>11, <1>15 DEF InputsInv
<1>21. OffsetInv'
  BY <1>1, <1>2, <1>10 DEF OffsetInv
<1>22. JobKept'
  BY <1>1, <1>2, <1>10 DEF JobKept
<1>23. EditKeeps'
  BY <1>11, EditEnds
<1> QED
  BY <1>16, <1>17, <1>18, <1>19, <1>20, <1>21, <1>22, <1>23 DEF LastInv

-----------------------------------------------------------------------------
(* Iterators and crashes. *)

LEMMA IteratorLast ==
    ASSUME QueueInv, StoreInv, FilesInv, LastInv, StoreInv', FilesInv', OpenIterator \/ CloseIterator
    PROVE  LastInv'
<1>1. /\ phase = "up"
      /\ UNCHANGED <<phase, kept, safe, broken, mem, imm, logfile, block_offset, version, log_number, job,
                     manifest_file, next_file, current, manifests, tables, logs, bg>>
  <2>1. CASE OpenIterator
    BY <2>1 DEF OpenIterator, callVars, memVars, versionVars, bgVars, diskVars, history
  <2>2. CASE CloseIterator
    BY <2>2 DEF CloseIterator, callVars, memVars, versionVars, bgVars, diskVars, history
  <2> QED
    BY <2>1, <2>2
<1>2. LogsMore(logs', logs, 0) /\ TablesMore(tables', tables)
  BY <1>1, LogsMoreSame, TablesMoreSame
<1>3. DOMAIN logs \subseteq Nat
  BY DEF StoreInv, LogsInv
<1>4. BoundInv /\ OffsetInv /\ JobKept /\ EditKeeps /\ InputsInv
  BY DEF LastInv
<1>5. JobKept'
  BY <1>1, <1>2, <1>3, <1>4, JobStays
<1>6. OffsetInv' /\ EditKeeps' /\ InputsInv' /\ BgBound
  BY <1>1, <1>4, OffsetStays, EditStays, InputsStay, BoundIs
<1> QED
  BY <1>1, <1>2, <1>5, <1>6, UpStays

\* A store that is not open has only its disk.
LEMMA DownLast ==
    ASSUME phase' \in {"down", "failed"}, block_offset' = 0, job'.stage = "none", bg' = IdleBg, KeptInv'
    PROVE  LastInv'
<1>1. bg'.stage = "idle"
  BY DEF IdleBg
<1> QED
  BY <1>1 DEF LastInv, BoundInv, MemInv, NewLogInv, OffsetInv, JobKept, EditKeeps, InputsInv

\* The process ends: files only grow.
LEMMA ProcessLast ==
    ASSUME QueueInv, StoreInv, FilesInv, FreshInv, LastInv, FilesInv', ProcessCrash
    PROVE  LastInv'
<1>1. /\ phase' = "down" /\ block_offset' = 0 /\ job' = IdleJob /\ bg' = IdleBg
      /\ UNCHANGED <<tables, manifests, current, kept, safe>>
  BY DEF ProcessCrash, LoseMemory
<1>2. LogsMore(logs', logs, 0)
  <2>1. CASE logs' = logs
    BY <2>1, LogsMoreSame
  <2>2. CASE logs' # logs
    <3>1. job.stage = "append"
      BY <2>2 DEF ProcessCrash
    <3>2. PICK added \in FailedAdds(job.rec, DataSize(job.rec.ws), block_offset) :
            logs' = [logs EXCEPT ![logfile].bytes = @ \o added.bytes]
      BY <2>2 DEF ProcessCrash
    <3>3. job.rec \in Records /\ block_offset \in 0 .. BlockSize /\ LogsInv
      BY <3>1 DEF StoreInv, RecordInv, NumbersInv
    <3>4. phase = "up"
      BY <3>1 DEF FreshInv, DownInv
    <3>5. logfile \in DOMAIN logs
      BY <3>4 DEF LastInv, BoundInv
    <3> QED
      BY <3>2, <3>3, <3>5, AppendMore
  <2> QED
    BY <2>1, <2>2
<1>3. TablesMore(tables', tables)
  BY <1>1, TablesMoreSame
<1>4. KeptInv'
  BY <1>1, <1>2, <1>3, KeptStays DEF LastInv
<1>5. job'.stage = "none"
  BY <1>1 DEF IdleJob
<1> QED
  BY <1>1, <1>4, <1>5, DownLast

\* Logs are cut: what was sure to survive is there to last.
LEMMA CutMore ==
    ASSUME LogsInv, NEW cut, \A n \in DOMAIN logs : cut[n] \in logs[n].synced .. Len(logs[n].bytes),
           logs' = [n \in DOMAIN logs |-> [bytes |-> SubSeq(logs[n].bytes, 1, cut[n]), synced |-> cut[n]]]
    PROVE  /\ DOMAIN logs' = DOMAIN logs
           /\ \A n \in DOMAIN logs : /\ SurvivingIn(logs)[n] \subseteq LastingIn(logs')[n]
                                     /\ SurvivingIn(logs)[n] \subseteq SurvivingIn(logs')[n]
<1> SUFFICES ASSUME NEW n \in DOMAIN logs
             PROVE  /\ SurvivingIn(logs)[n] \subseteq LastingIn(logs')[n]
                    /\ SurvivingIn(logs)[n] \subseteq SurvivingIn(logs')[n]
  OBVIOUS
<1> DEFINE a == logs[n].bytes
           c == logs[n].synced
           d == cut[n]
           b == SubSeq(a, 1, d)
           new == [bytes |-> b, synced |-> d]
<1>1. a \in Seq(BytesOf(LogParts)) /\ c \in Nat /\ c <= Len(a) /\ d \in c .. Len(a)
  BY DEF LogsInv, LogFiles
<1>2. logs'[n] = new
  OBVIOUS
<1>3. new.bytes = b /\ new.synced = d
  OBVIOUS
<1> HIDE DEF new
<1>4. SurvivingIn(logs)[n] = Lasting(SubSeq(a, 1, c))
  BY DEF SurvivingIn
<1>5. LastingIn(logs')[n] = Lasting(b) /\ SurvivingIn(logs')[n] = Lasting(SubSeq(b, 1, d))
  BY <1>2, <1>3 DEF LastingIn, SurvivingIn
<1> HIDE DEF a, c, d
<1>6. d \in 0 .. Len(a) /\ c \in 0 .. d /\ d \in 0 .. d
  BY <1>1
<1>7. SubSeq(b, 1, d) = b
  BY <1>1, <1>6, PrefixTwice
<1>8. Lasting(SubSeq(a, 1, c)) \subseteq Lasting(b)
  BY <1>1, <1>6, LastingPrefixes
<1> QED
  BY <1>4, <1>5, <1>7, <1>8

\* The machine goes down: what it may not lose is found, wherever the MANIFEST and
\* the logs end.
LEMMA MachineLast ==
    ASSUME QueueInv, StoreInv, FilesInv, FreshInv, LastInv, StoreInv', FilesInv', MachineCrash
    PROVE  LastInv'
<1> DEFINE m == manifests[current]
           us == tables'
           ls2 == logs'
<1>1. /\ phase' = "down" /\ block_offset' = 0 /\ job' = IdleJob /\ bg' = IdleBg
      /\ current' = current /\ safe' = safe /\ kept' = safe
  BY DEF MachineCrash, LoseMemory
<1>2. /\ m \in Manifests /\ current \in DOMAIN manifests /\ Recoverable(tables, m) /\ LogsInv
      /\ DiskKeeps(kept, safe, tables, logs, m)
  BY DEF StoreInv, ManifestsInv, FilesInv, DiskInv, LastInv, KeptInv
<1>3. PICK cut : /\ \A n \in DOMAIN manifests : cut[n] \in manifests[n].synced .. Len(manifests[n].edits)
                 /\ manifests' = [n \in DOMAIN manifests |-> [edits |-> SubSeq(manifests[n].edits, 1, cut[n]),
                                                              synced |-> cut[n]]]
  BY DEF MachineCrash
<1> DEFINE c == cut[current]
           m2 == [edits |-> SubSeq(m.edits, 1, c), synced |-> c]
           v == VersionAt(m, c)
<1>4. manifests'[current] = m2 /\ c \in m.synced .. Len(m.edits)
  BY <1>2, <1>3
<1>5. /\ DOMAIN ls2 = DOMAIN logs
      /\ \A n \in DOMAIN logs : /\ SurvivingIn(logs)[n] \subseteq LastingIn(ls2)[n]
                                /\ SurvivingIn(logs)[n] \subseteq SurvivingIn(ls2)[n]
  <2>1. PICK k : /\ \A n \in DOMAIN logs : k[n] \in logs[n].synced .. Len(logs[n].bytes)
                 /\ logs' = [n \in DOMAIN logs |-> [bytes |-> SubSeq(logs[n].bytes, 1, k[n]), synced |-> k[n]]]
    BY DEF MachineCrash
  <2> QED
    BY <1>2, <2>1, CutMore
<1>6. TablesMore(us, tables)
  <2> DEFINE S == { n \in DOMAIN tables : tables[n].synced }
  <2>1. us = Restrict(tables, S) /\ S \subseteq DOMAIN tables
    BY DEF MachineCrash
  <2> HIDE DEF S
  <2>2. DOMAIN us = S /\ \A n \in S : us[n] = tables[n]
    BY <2>1, RestrictTables
  <2> QED
    BY <2>2 DEF TablesMore
<1>7. m2.synced = c /\ m2.edits = SubSeq(m.edits, 1, c) /\ LessCut(m2, m) /\ c \in m2.synced .. Len(m2.edits)
  <2>1. LessCut(m2, m)
    <3> HIDE DEF m, c
    <3> QED
      BY <1>2, <1>4, ShorterCut
  <2>2. m.edits \in Seq(EditRecords) /\ m.synced \in Nat
    BY <1>2 DEF Manifests
  <2>3. Len(SubSeq(m.edits, 1, c)) = c /\ c \in Nat
    <3> HIDE DEF m, c
    <3> QED
      BY <1>4, <2>2
  <2> HIDE DEF m, c
  <2> QED
    BY <2>1, <2>3
<1>8. \A k \in m2.synced .. Len(m2.edits) : k = c
  <2>1. m.edits \in Seq(EditRecords) /\ m.synced \in Nat
    BY <1>2 DEF Manifests
  <2> HIDE DEF m, c
  <2>2. Len(SubSeq(m.edits, 1, c)) = c /\ c \in Nat
    BY <1>4, <2>1
  <2> QED
    BY <2>2, <1>7
<1> HIDE DEF m2
<1>9. SubSeq(m2.edits, 1, c) = SubSeq(m.edits, 1, c) /\ VersionAt(m2, c) = v /\ Replayed(m2.edits) = v
  BY <1>7 DEF LessCut, VersionAt
<1>10. Held(tables, v.files) /\ Held(us, v.files)
  <2>1. Recoverable(us, m2)
    BY <1>1, <1>4 DEF FilesInv, DiskInv
  <2>2. Held(us, VersionAt(m2, c).files) /\ Held(tables, VersionAt(m, c).files)
    BY <1>2, <1>4, <1>7, <2>1 DEF Recoverable, VersionAt
  <2> QED
    BY <1>9, <2>2
<1> HIDE DEF m, c, v, us, ls2
<1>11. RecsOf(tables, v.files) \subseteq RecsOf(us, v.files)
  BY <1>6, <1>10, RecsOfMore
<1>12. /\ FoundAt(tables, v, SurvivingIn(logs)) \subseteq FoundAt(us, v, LastingIn(ls2))
       /\ FoundAt(tables, v, SurvivingIn(logs)) \subseteq FoundAt(us, v, SurvivingIn(ls2))
  <2>1. /\ DOMAIN SurvivingIn(logs) = DOMAIN logs /\ DOMAIN LastingIn(ls2) = DOMAIN ls2
        /\ DOMAIN SurvivingIn(ls2) = DOMAIN ls2
    BY DEF LastingIn, SurvivingIn
  <2> QED
    BY <1>5, <1>11, <2>1 DEF FoundAt
<1>13. ~Corrupt(SubSeq(m.edits, 1, c)) => /\ safe \subseteq WritesIn(FoundAt(us, v, LastingIn(ls2)))
                                          /\ safe \subseteq WritesIn(FoundAt(us, v, SurvivingIn(ls2)))
  <2>1. ~Corrupt(SubSeq(m.edits, 1, c)) => safe \subseteq WritesIn(FoundAt(tables, v, SurvivingIn(logs)))
    BY <1>2, <1>4 DEF DiskKeeps, v
  <2> QED
    BY <2>1, <1>12, WritesInMore
<1>14. DiskKeeps(safe, safe, us, ls2, m2)
  BY <1>7, <1>8, <1>9, <1>13 DEF DiskKeeps
<1>15. KeptInv'
  BY <1>1, <1>4, <1>14 DEF KeptInv, us, ls2
<1>16. job'.stage = "none"
  BY <1>1 DEF IdleJob
<1> QED
  BY <1>1, <1>15, <1>16, DownLast

-----------------------------------------------------------------------------
(* Recovery. *)

\* A MANIFEST of one edit, whose tables hold all that was acknowledged.
LEMMA SingleKeeps ==
    ASSUME NEW e \in Edits, NEW kp, NEW sf, sf \subseteq kp, NEW ts, NEW ls, kp \subseteq WritesIn(RecsOf(ts, e.add))
    PROVE  DiskKeeps(kp, sf, ts, ls, [edits |-> <<e>>, synced |-> 1])
<1> DEFINE s == <<e>>
           m == [edits |-> s, synced |-> 1]
           v == Replayed(s)
<1>1. Len(s) = 1
  OBVIOUS
<1>2. v.files = e.add /\ SubSeq(s, 1, 1) = s
  BY SingleIs
<1>3. m.edits = s /\ m.synced = 1
  OBVIOUS
<1> HIDE DEF s, v, m
<1>7. \A k \in m.synced .. Len(m.edits) : k = 1
  <2>1. \A k \in 1 .. Len(s) : k = 1
    BY <1>1
  <2> QED
    BY <1>3, <2>1
<1>4. VersionAt(m, 1) = v /\ Replayed(m.edits) = v
  BY <1>2, <1>3 DEF VersionAt, v
<1>5. ASSUME NEW g
      PROVE  kp \subseteq WritesIn(FoundAt(ts, v, g))
  <2>1. RecsOf(ts, e.add) \subseteq FoundAt(ts, v, g)
    BY <1>2 DEF FoundAt
  <2> QED
    BY <2>1, WritesInMore
<1>6. DiskKeeps(kp, sf, ts, ls, m)
  <2>1. kp \subseteq WritesIn(FoundAt(ts, v, LastingIn(ls))) /\ sf \subseteq WritesIn(FoundAt(ts, v, SurvivingIn(ls)))
    BY <1>5
  <2> QED
    BY <2>1, <1>3, <1>4, <1>7 DEF DiskKeeps
<1> QED
  BY <1>6 DEF m, s

\* While the store is opened.
LEMMA OpeningLast ==
    ASSUME phase' \in {"opening", "installed"}, block_offset' = 0, job'.stage = "none", bg' = IdleBg,
           KeptInv', NewLogInv'
    PROVE  LastInv'
<1>1. bg'.stage = "idle"
  BY DEF IdleBg
<1> QED
  BY <1>1 DEF LastInv, BoundInv, MemInv, OffsetInv, JobKept, EditKeeps, InputsInv

\* The tables that recovery makes hold what the logs gave back, and with those of
\* the version of the MANIFEST all that was acknowledged.
LEMMA RecoverLast ==
    ASSUME QueueInv, StoreInv, FilesInv, FreshInv, LastInv, StoreInv', FilesInv', OpenRecover
    PROVE  LastInv'
<1> DEFINE old == manifests[current]
           v == Replayed(old.edits)
           r == RecoverLogs(v)
           files == v.files \cup { [level |-> 0, number |-> t] : t \in DOMAIN r.made }
           e == [add |-> files, del |-> {}, log |-> r.next, next |-> r.next + 1, last |-> r.last]
           m == [edits |-> <<e>>, synced |-> 1]
           us == tables'
           ls2 == logs'
<1>1. /\ old \in Manifests /\ current \in DOMAIN manifests /\ LogsInv
      /\ SoundCuts(tables, old) /\ ApartCuts(tables, logs, old)
      /\ DiskKeeps(kept, safe, tables, logs, old) /\ safe \subseteq kept
  BY DEF StoreInv, ManifestsInv, FreshInv, CutsInv, DownInv, OpenRecover, LastInv, KeptInv
<1>2. v \in Versions
  <2>1. old.edits \in Seq(EditRecords) /\ Nothing \in EditRecords
    BY <1>1 DEF Manifests, EditRecords
  <2> QED
    BY <2>1, ReplayedAppend
<1>3. /\ v.log <= v.next
      /\ \A k \in old.synced .. Len(old.edits) : \A n \in Numbers(VersionAt(old, k).files) : n < v.next
  <2> HIDE DEF old
  <2> QED
    BY <1>1, CutsLast
<1>4. \A n \in Numbers(v.files) : n < v.next
  <2>1. Recoverable(tables, old)
    BY DEF FilesInv, DiskInv
  <2> HIDE DEF old
  <2> QED
    BY <1>1, <2>1, RecoverableLast
<1>5. /\ us = Over(r.made, tables)
      /\ logs' = Created(r.next, [bytes |-> <<>>, synced |-> 0], logs)
      /\ manifests' = Created(v.next, m, manifests)
      /\ version' = files /\ logfile' = r.next /\ next_file' = r.next + 1 /\ log_number' = r.next
      /\ phase = "down" /\ phase' = "opening"
      /\ UNCHANGED <<job, block_offset, current, bg, kept, safe>>
      /\ ~Corrupt(old.edits)
  BY DEF OpenRecover, CannotOpen, callVars, bgVars, history
<1>6. /\ r.next \in Nat /\ v.next \in Nat /\ v.log \in Nat /\ r.last \in Nat
      /\ v.files \in SUBSET Files /\ DOMAIN r.made \in SUBSET Nat
  <2>1. r \in Recovered(v.next)
    BY <1>1, <1>2, RecoverLogsIs
  <2>2. r.made \in MadeTables
    BY <2>1 DEF Recovered
  <2> HIDE DEF r, v
  <2> QED
    BY <1>2, <2>1, <2>2, MadeIs DEF Recovered, Versions
<1>7. /\ \A t \in DOMAIN r.made : v.next < t
      /\ \A n \in DOMAIN logs : n < r.next /\ (v.log <= n => Readable(logs[n].bytes) \subseteq TableRecs(r.made))
  <2> HIDE DEF v
  <2> QED
    BY <1>1, <1>2, <1>3, RecoverLogsMake
<1>8. ~Corrupt(old.edits) => kept \subseteq WritesIn(FoundAt(tables, v, LastingIn(logs)))
  BY <1>1 DEF DiskKeeps
<1> HIDE DEF v, r, us
<1>9. /\ DOMAIN us = DOMAIN r.made \cup DOMAIN tables
      /\ \A n \in DOMAIN us : us[n] = IF n \in DOMAIN r.made THEN r.made[n] ELSE tables[n]
  BY <1>5 DEF Over
<1>10. ASSUME NEW F, \A n \in Numbers(F) : n < v.next, F \in SUBSET Files
       PROVE  RecsOf(tables, F) \subseteq RecsOf(us, F)
  <2>1. \A n \in Numbers(F) : n \in Nat /\ n < v.next
    BY <1>10 DEF Numbers, Files
  <2>2. \A t \in DOMAIN r.made : t \in Nat /\ v.next < t
    BY <1>6, <1>7
  <2>3. \A n \in Numbers(F) : n \notin DOMAIN r.made
    BY <2>1, <2>2, <1>6
  <2>4. \A n \in Numbers(F) \cap DOMAIN tables : n \in DOMAIN us /\ us[n] = tables[n]
    BY <2>3, <1>9
  <2> QED
    BY <2>4 DEF RecsOf
<1>11. kept \subseteq WritesIn(RecsOf(us, files))
  <2>1. RecsOf(tables, v.files) \subseteq RecsOf(us, files)
    <3>1. RecsOf(tables, v.files) \subseteq RecsOf(us, v.files)
      BY <1>4, <1>6, <1>10
    <3>2. RecsOf(us, v.files) \subseteq RecsOf(us, files)
      BY DEF RecsOf, Numbers
    <3> QED
      BY <3>1, <3>2
  <2>2. TableRecs(r.made) \subseteq RecsOf(us, files)
    <3> SUFFICES ASSUME NEW t \in DOMAIN r.made PROVE r.made[t].recs \subseteq RecsOf(us, files)
      BY DEF TableRecs
    <3>1. t \in DOMAIN us /\ us[t] = r.made[t]
      BY <1>9
    <3> DEFINE f == [level |-> 0, number |-> t]
    <3>2. f \in files /\ f.number = t
      OBVIOUS
    <3> HIDE DEF f, files
    <3>3. t \in Numbers(files)
      BY <3>2 DEF Numbers
    <3> QED
      BY <3>1, <3>3 DEF RecsOf
  <2>3. ASSUME NEW n \in DOMAIN logs, n >= v.log
        PROVE  LastingIn(logs)[n] \subseteq TableRecs(r.made)
    <3>1. logs[n].bytes \in Seq(BytesOf(LogParts)) /\ n \in Nat
      BY <1>1 DEF LogsInv, LogFiles
    <3>2. v.log <= n
      BY <3>1, <2>3, <1>6
    <3>3. Readable(logs[n].bytes) \subseteq TableRecs(r.made)
      BY <3>2, <1>7
    <3>4. Lasting(logs[n].bytes) \subseteq Readable(logs[n].bytes)
      BY <3>1, LastingReadable
    <3> QED
      BY <3>3, <3>4 DEF LastingIn
  <2> HIDE DEF files, old
  <2>4. FoundAt(tables, v, LastingIn(logs)) \subseteq RecsOf(us, files)
    <3>1. DOMAIN LastingIn(logs) = DOMAIN logs
      BY DEF LastingIn
    <3> QED
      BY <2>1, <2>2, <2>3, <3>1 DEF FoundAt
  <2> QED
    BY <1>5, <1>8, <2>4, WritesInMore
<1>12. files \in SUBSET Files
  BY <1>6 DEF Files
<1> HIDE DEF files
<1>13. e \in Edits /\ e.add = files
  BY <1>6, <1>12 DEF Edits
<1>14. manifests'[v.next] = m /\ (current # v.next => manifests'[current] = old)
  <2> HIDE DEF m
  <2> QED
    BY <1>1, <1>5 DEF Created, Over
<1> HIDE DEF e
<1>15. r.next \notin DOMAIN logs
  BY <1>6, <1>7
<1>16. LogsMore(ls2, logs, 0) /\ DOMAIN ls2 = {r.next} \cup DOMAIN logs /\ ls2[r.next].bytes = <<>>
  BY <1>5, <1>15, CreateMore
<1>17. DiskKeeps(kept, safe, us, ls2, manifests'[current])
  <2>1. CASE current = v.next
    <3>1. kept \subseteq WritesIn(RecsOf(us, e.add))
      BY <1>11, <1>13
    <3> HIDE DEF ls2
    <3>2. DiskKeeps(kept, safe, us, ls2, m)
      BY <1>1, <1>13, <3>1, SingleKeeps
    <3> QED
      BY <2>1, <1>14, <3>2
  <2>2. CASE current # v.next
    <3> HIDE DEF old, m, ls2
    <3>1. CutsMore(us, tables, ls2, logs, old)
      <4> SUFFICES ASSUME NEW k \in old.synced .. Len(old.edits)
                   PROVE  /\ RecsOf(tables, VersionAt(old, k).files) \subseteq RecsOf(us, VersionAt(old, k).files)
                          /\ LogsMore(ls2, logs, VersionAt(old, k).log)
        BY DEF CutsMore
      <4>1. VersionAt(old, k).files \in SUBSET Files
        BY <1>1, VersionLog DEF Versions
      <4>2. \A n \in Numbers(VersionAt(old, k).files) : n < v.next
        BY <1>3
      <4>3. DOMAIN logs \subseteq Nat
        BY <1>1 DEF LogsInv
      <4> QED
        BY <4>1, <4>2, <4>3, <1>10, <1>16, LogsMoreAll
    <3>2. old.synced <= old.synced
      BY <1>1 DEF Manifests
    <3>3. DiskKeeps(kept, safe, us, ls2, old)
      BY <1>1, <3>1, <3>2, DiskMore
    <3> QED
      BY <2>2, <1>14, <3>3
  <2> QED
    BY <2>1, <2>2
<1>18. KeptInv'
  BY <1>1, <1>5, <1>17 DEF KeptInv, us
<1>19. NewLogInv'
  <2>1. \A n \in DOMAIN ls2 : n <= r.next
    BY <1>6, <1>7, <1>16, <1>1 DEF LogsInv
  <2>2. r.next < r.next + 1
    BY <1>6
  <2>3. kept' \subseteq WritesIn(RecsOf(tables', version'))
    BY <1>5, <1>11 DEF us
  <2> HIDE DEF old, m
  <2>4. /\ logfile' = log_number' /\ logfile' \in DOMAIN logs' /\ \A n \in DOMAIN logs' : n <= logfile'
        /\ logfile' < next_file' /\ logs'[logfile'].bytes = <<>>
    BY <2>1, <2>2, <1>5, <1>16
  <2> QED
    BY <2>3, <2>4 DEF NewLogInv
<1>20. block_offset' = 0 /\ job'.stage = "none" /\ bg' = IdleBg
  BY <1>5 DEF LastInv, OffsetInv, FreshInv, DownInv, FilesInv, QuietInv
<1> QED
  BY <1>5, <1>18, <1>19, <1>20, OpeningLast

-----------------------------------------------------------------------------
(* The end of Open. *)

LEMMA OpenFailsLast ==
    ASSUME QueueInv, StoreInv, FilesInv, FreshInv, LastInv, OpenFails
    PROVE  LastInv'
<1>1. /\ phase = "down" /\ phase' = "failed"
      /\ UNCHANGED <<job, bg, block_offset, tables, logs, manifests, current, kept, safe>>
  BY DEF OpenFails, callVars, memVars, bgVars, diskVars, history
<1>2. KeptInv'
  BY <1>1 DEF LastInv, KeptInv
<1>3. block_offset' = 0 /\ job'.stage = "none" /\ bg' = IdleBg
  BY <1>1 DEF LastInv, OffsetInv, FreshInv, DownInv, FilesInv, QuietInv
<1> QED
  BY <1>1, <1>2, <1>3, DownLast

\* The MANIFEST that Open has written: its one edit has the tables of the version.
LEMMA OpenedIs ==
    ASSUME StoreInv, FreshInv, LastInv, phase \in {"opening", "installed"},
           NEW ts, NEW ls, kept \subseteq WritesIn(RecsOf(ts, version))
    PROVE  LET m == manifests[manifest_file]
           IN  /\ DiskKeeps(kept, safe, ts, ls, m)
               /\ m \in Manifests /\ m.synced = 1 /\ Len(m.edits) = 1
               /\ Replayed(m.edits).files = version /\ Replayed(m.edits).log = log_number
<1> DEFINE e == [add |-> version, del |-> {}, log |-> log_number, next |-> next_file, last |-> last_sequence]
           s == <<e>>
           m == [edits |-> s, synced |-> 1]
<1>1. manifests[manifest_file] = m
  BY DEF FreshInv, BegunInv
<1>2. e \in Edits /\ e.add = version /\ e.log = log_number
  BY DEF StoreInv, NumbersInv, Edits
<1>3. safe \subseteq kept
  BY DEF LastInv, KeptInv
<1>4. manifests[manifest_file] \in Manifests
  BY DEF StoreInv, ManifestsInv
<1> HIDE DEF e
<1>5. DiskKeeps(kept, safe, ts, ls, m)
  BY <1>2, <1>3, SingleKeeps
<1>6. Replayed(s).files = version /\ Replayed(s).log = log_number /\ Len(s) = 1
  BY <1>2, SingleIs
<1>7. m.edits = s /\ m.synced = 1
  OBVIOUS
<1> HIDE DEF m, s
<1> QED
  BY <1>1, <1>4, <1>5, <1>6, <1>7

\* It becomes current.
LEMMA OpenInstallLast ==
    ASSUME QueueInv, StoreInv, FilesInv, FreshInv, LastInv, OpenInstall
    PROVE  LastInv'
<1>1. /\ phase = "opening" /\ phase' = "installed" /\ current' = manifest_file
      /\ UNCHANGED <<job, bg, block_offset, logfile, log_number, next_file, version, tables, logs, manifests, kept, safe>>
  BY DEF OpenInstall, callVars, memVars, versionVars, bgVars, history
<1>2. kept \subseteq WritesIn(RecsOf(tables, version))
  BY <1>1 DEF LastInv, NewLogInv
<1>3. DiskKeeps(kept, safe, tables, logs, manifests[manifest_file])
  BY <1>1, <1>2, OpenedIs
<1>4. KeptInv'
  BY <1>1, <1>3 DEF LastInv, KeptInv
<1>5. NewLogInv'
  BY <1>1 DEF LastInv, NewLogInv
<1>6. block_offset' = 0 /\ job'.stage = "none" /\ bg' = IdleBg
  BY <1>1 DEF LastInv, OffsetInv, FreshInv, DownInv, FilesInv, QuietInv
<1> QED
  BY <1>1, <1>4, <1>5, <1>6, OpeningLast

\* And the logs that were replayed are deleted: nothing is found there only.
LEMMA OpenEndsLast ==
    ASSUME QueueInv, StoreInv, FilesInv, FreshInv, LastInv, StoreInv', FilesInv', OpenEnds
    PROVE  LastInv'
<1> DEFINE m == manifests[manifest_file]
           v == Replayed(m.edits)
           us == tables'
           ls2 == logs'
<1>1. /\ phase = "installed" /\ phase' = "up"
      /\ DeleteObsoleteFiles(manifests, version, {}, log_number, {}, FALSE)
      /\ UNCHANGED <<job, bg, block_offset, mem, imm, logfile, log_number, next_file, manifest_file, version,
                     current, kept, safe, broken>>
  BY DEF OpenEnds, callVars, memVars, versionVars, history
<1>2. /\ logfile = log_number /\ logfile \in DOMAIN logs /\ (\A n \in DOMAIN logs : n <= logfile)
      /\ logfile < next_file
      /\ logs[logfile].bytes = <<>>
      /\ kept \subseteq WritesIn(RecsOf(tables, version))
  BY <1>1 DEF LastInv, NewLogInv
<1>3. block_offset = 0 /\ job.stage = "none" /\ bg = IdleBg /\ InMemory = {}
  BY <1>1 DEF LastInv, OffsetInv, FreshInv, DownInv, FilesInv, QuietInv
<1>4. /\ logfile \in Nat /\ next_file \in Nat /\ DOMAIN logs \subseteq Nat /\ safe \subseteq kept
      /\ current = manifest_file /\ manifest_file \in DOMAIN manifests
      /\ manifest_file \in Nat /\ manifests \in [DOMAIN manifests -> Manifests] /\ LogsInv
  BY <1>1 DEF StoreInv, NumbersInv, LogsInv, ManifestsInv, LastInv, KeptInv
<1>5. manifests'[manifest_file] = m
  BY <1>1, <1>4, DeleteStore
<1>6. /\ TablesMore(us, tables)
      /\ \A n \in DOMAIN ls2 : n \in DOMAIN logs /\ ls2[n] = logs[n]
      /\ \A n \in DOMAIN logs : n >= log_number => n \in DOMAIN ls2
  BY <1>1, DeleteMore
<1>7. Held(tables, version) /\ Held(us, version)
  BY <1>1 DEF FilesInv, OpeningInv, TablesInv
<1>8. kept \subseteq WritesIn(RecsOf(us, version))
  <2> HIDE DEF us
  <2>1. RecsOf(tables, version) \subseteq RecsOf(us, version)
    BY <1>6, <1>7, RecsOfMore
  <2> QED
    BY <1>2, <2>1, WritesInMore
<1>9. /\ DiskKeeps(kept, safe, us, ls2, m)
      /\ m \in Manifests /\ m.synced = 1 /\ Len(m.edits) = 1 /\ v.files = version /\ v.log = log_number
  <2> HIDE DEF us, ls2
  <2> QED
    BY <1>1, <1>8, OpenedIs
<1>10. KeptInv'
  BY <1>1, <1>4, <1>5, <1>9 DEF KeptInv
<1>11. MemInv'
  <2>1. InMemory' = {}
    BY <1>1, <1>3 DEF InMemory
  <2>2. ASSUME NEW g PROVE RecsOf(us, version) \subseteq NearAt(us, v, g)
    BY <1>9 DEF NearAt
  <2> DEFINE A == NearAt(tables, Replayed(m.edits), LastingIn(logs))'
             B == NearAt(tables, Replayed(m.edits), SurvivingIn(logs))'
             C == RecsOf(us, version)
  <2>3. C \subseteq A /\ C \subseteq B
    <3>1. RecsOf(tables', Replayed(m'.edits).files) = C
      BY <1>1, <1>5, <1>9
    <3> QED
      BY <3>1 DEF NearAt
  <2> HIDE DEF A, B, C
  <2>4. WritesIn(C) \subseteq WritesIn(A) /\ WritesIn(C) \subseteq WritesIn(B)
    BY <2>3, WritesInMore
  <2>5. kept \subseteq WritesIn(C) /\ safe \subseteq WritesIn(A) /\ kept \subseteq WritesIn(A) /\ safe \subseteq WritesIn(B)
    BY <2>4, <1>4, <1>8 DEF C
  <2>6. InMemory' \cup RecsOf(tables', version') = C
    BY <2>1, <1>1 DEF C
  <2> QED
    BY <2>5, <2>6, <1>1 DEF MemInv, A, B
<1>12. BoundInv'
  <2>1. logfile \in DOMAIN ls2
    BY <1>2, <1>4, <1>6
  <2>2. \A n \in DOMAIN ls2 : n < next_file
    BY <1>2, <1>4, <1>6
  <2>3. \A k \in m.synced .. Len(m.edits) : k = Len(m.edits)
    <3>1. \A k \in 1 .. 1 : k = 1
      OBVIOUS
    <3> HIDE DEF m
    <3> QED
      BY <1>9, <3>1
  <2>4. VersionAt(m, Len(m.edits)) = v
    BY <1>9, LastCut
  <2>5. \A k \in m.synced .. Len(m.edits) : VersionAt(m, k).log <= logfile
    BY <2>3, <2>4, <1>2, <1>4, <1>9
  <2>6. log_number <= Replayed(m.edits).log
    BY <1>2, <1>4, <1>9
  <2>7. bg'.stage = "idle"
    BY <1>1, <1>3 DEF IdleBg
  <2>8. m' = m
    BY <1>1, <1>5
  <2> HIDE DEF m, v
  <2> QED
    BY <2>1, <2>2, <2>5, <2>6, <2>7, <2>8, <1>1 DEF BoundInv, m, VersionAt
<1>13. OffsetInv'
  <2>1. EndsWhole(<<>>, LogParts) /\ AtOffset(<<>>, 0)
    BY EmptyEnds, PartsValid DEF LogParts
  <2>2. logfile \in DOMAIN ls2
    BY <1>2, <1>4, <1>6
  <2> QED
    BY <2>1, <2>2, <1>1, <1>2, <1>3, <1>6 DEF OffsetInv
<1>14. NewLogInv' /\ JobKept'
  BY <1>1, <1>3 DEF NewLogInv, JobKept
<1>15. EditKeeps' /\ InputsInv'
  BY <1>1, <1>3 DEF EditKeeps, InputsInv, IdleBg
<1> QED
  BY <1>10, <1>11, <1>12, <1>13, <1>14, <1>15 DEF LastInv

-----------------------------------------------------------------------------
(* All steps. *)

\* At first nothing was acknowledged.
LEMMA InitLast == Init => LastInv
<1> SUFFICES ASSUME Init PROVE LastInv
  OBVIOUS
<1>1. /\ phase = "down" /\ block_offset = 0 /\ job.stage = "none" /\ bg.stage = "idle"
      /\ kept = {} /\ safe = {}
  BY DEF Init, IdleJob, IdleBg
<1>2. KeptInv
  BY <1>1 DEF KeptInv, DiskKeeps
<1> QED
  BY <1>1, <1>2 DEF LastInv, BoundInv, MemInv, NewLogInv, OffsetInv, JobKept, EditKeeps, InputsInv

\* No step loses a write.
LEMMA NextLast == QueueInv /\ StoreInv /\ FilesInv /\ FreshInv /\ LastInv /\ [Next]_vars => LastInv'
<1> SUFFICES ASSUME QueueInv, StoreInv, FilesInv, FreshInv, LastInv, [Next]_vars PROVE LastInv'
  OBVIOUS
<1>1. StoreInv' /\ FilesInv'
  BY NextStore, NextFiles
<1>2. ASSUME NEW w \in Writes, Write(w) \/ LeadWrite(w) PROVE LastInv'
  BY <1>1, <1>2, CallsLast, SwitchLast DEF LeadWrite
<1>3. CASE GoOnWriting
  BY <1>1, <1>3, AppendLast, EndWriteLast DEF GoOnWriting
<1>4. CASE Background
  BY <1>1, <1>4, TableLast, MergeLast, ManifestLast, InstallLast DEF Background
<1>5. CASE OpenIterator \/ CloseIterator
  BY <1>1, <1>5, IteratorLast
<1>6. CASE Open
  BY <1>1, <1>6, OpenFailsLast, RecoverLast, OpenInstallLast, OpenEndsLast DEF Open
<1>7. CASE ProcessCrash \/ MachineCrash
  BY <1>1, <1>7, ProcessLast, MachineLast
<1>8. CASE UNCHANGED vars
  <2>1. UNCHANGED <<phase, kept, safe, broken, mem, imm, logfile, block_offset, version, log_number, job,
                    manifest_file, next_file, current, manifests, tables, logs, bg>>
    BY <1>8 DEF vars, callVars, memVars, versionVars, bgVars, diskVars, history
  <2>2. KeptInv' /\ BoundInv' /\ NewLogInv'
    BY <2>1 DEF LastInv, KeptInv, BoundInv, NewLogInv
  <2>3. MemInv'
    BY <2>1 DEF LastInv, MemInv, NearAt, InMemory
  <2>4. OffsetInv' /\ JobKept' /\ EditKeeps' /\ InputsInv'
    BY <2>1 DEF LastInv, OffsetInv, JobKept, EditKeeps, InputsInv
  <2> QED
    BY <2>2, <2>3, <2>4 DEF LastInv
<1> QED
  BY <1>2, <1>3, <1>4, <1>5, <1>6, <1>7, <1>8 DEF Next

\* All five invariants hold of every state the store reaches.
LEMMA LastAlways == Spec => [](QueueInv /\ StoreInv /\ FilesInv /\ FreshInv /\ LastInv)
<1>1. Init => LastInv
  BY InitLast
<1>2. (QueueInv /\ StoreInv /\ FilesInv /\ FreshInv) /\ LastInv /\ [Next]_vars => LastInv'
  BY NextLast
<1> QED
  BY <1>1, <1>2, FreshAlways, PTL DEF Spec

\* A write that was acknowledged is read back when the store is open again, after
\* any crashes of the process, and of the machine when it asked for sync, whatever
\* I/O has failed, unless an earlier append to its log had.
THEOREM KeptCorrect == Spec => []NothingLost
<1>1. LastInv => NothingLost
  <2> SUFFICES ASSUME LastInv, phase = "up" PROVE kept \subseteq Visible
    BY DEF NothingLost
  <2>1. Contents = InMemory \cup RecsOf(tables, version)
    BY DEF Contents, InMemory, RecordsIn, RecsOf
  <2>2. kept \subseteq WritesIn(InMemory \cup RecsOf(tables, version))
    BY DEF LastInv, MemInv
  <2> QED
    BY <2>1, <2>2 DEF Visible, WritesIn
<1> QED
  BY <1>1, LastAlways, PTL

-----------------------------------------------------------------------------
(* What recovery reads *)

\* The records that the reader returns of each log.
ReadIn(ls) == [n \in DOMAIN ls |-> Readable(ls[n].bytes)]

\* What recovery finds now.
Recorded == FoundAt(tables, Replayed(manifests[current].edits), ReadIn(logs))

\* The records of a log are those the reader returns of it.
LEMMA LogRecordsRead ==
    ASSUME NEW n, Written(logs[n].bytes, LogParts)
    PROVE  Range(LogRecords(n)) = Readable(logs[n].bytes)
<1> DEFINE Q == Readable(logs[n].bytes)
           U == { t \in AnyParts : t[1].of \in Q }
           E == Seq(U)
           W == Seq(Q)
           rr == ReadRecords(logs[n].bytes)
           stop == {<<>>}
           m == [rs \in E |-> Len(rs)]
           next == [rs \in E |-> Tail(rs)]
<1>1. rr \in Seq(AnyParts)
  BY ReturnedParts DEF LogParts, AnyParts
<1>2. PICK f : /\ \A rs \in Seq(AnyParts) : f[rs] = BatchesOf(f, rs)
               /\ \A k : LogRecords(k) = f[ReadRecords(logs[k].bytes)]
  BY BatchesAre
<1>3. rr \in E /\ E \subseteq Seq(AnyParts)
  <2>1. \A i \in 1 .. Len(rr) : rr[i] \in AnyParts /\ rr[i][1].of \in Q
    BY <1>1 DEF Readable
  <2>2. Len(rr) \in Nat /\ rr = [i \in 1 .. Len(rr) |-> rr[i]]
    BY <1>1
  <2> HIDE DEF rr, Q
  <2>3. \A i \in 1 .. Len(rr) : rr[i] \in U
    BY <2>1
  <2>4. U \subseteq AnyParts
    OBVIOUS
  <2> HIDE DEF U
  <2> QED
    BY <2>2, <2>3, <2>4
<1> HIDE DEF rr
<1>4. \A t \in U : t[1].of \in Q
  OBVIOUS
<1> HIDE DEF U, Q
<1>5. ASSUME NEW rs \in E, rs \notin stop
      PROVE  Tail(rs) \in E /\ Len(Tail(rs)) < Len(rs) /\ (f[Tail(rs)] \in W => f[rs] \in W)
  <2>1. rs # <<>> /\ rs[1] \in U /\ Tail(rs) \in E /\ Len(Tail(rs)) < Len(rs)
    BY <1>5
  <2> DEFINE o == rs[1][1].of
  <2>2. o \in Q
    BY <2>1, <1>4
  <2>3. f[rs] = <<o>> \o f[Tail(rs)] \/ f[rs] = f[Tail(rs)]
    BY <1>2, <1>3, <2>1 DEF BatchesOf
  <2> HIDE DEF o
  <2>4. \A x \in W : <<o>> \o x \in W
    BY <2>2
  <2> HIDE DEF W, E
  <2> QED
    BY <2>1, <2>3, <2>4
<1>6. \A rs \in E : rs \in stop => f[rs] \in W
  <2>1. <<>> \in W
    OBVIOUS
  <2> HIDE DEF W, E
  <2>2. \A rs \in E : rs = <<>> => f[rs] = <<>>
    BY <1>2, <1>3 DEF BatchesOf
  <2> QED
    BY <2>1, <2>2
<1>7. m \in [E -> Nat]
  OBVIOUS
<1> HIDE DEF E, W
<1>8. \A rs \in E : rs \notin stop => next[rs] \in E /\ m[next[rs]] < m[rs] /\ (f[next[rs]] \in W => f[rs] \in W)
  BY <1>5
<1> HIDE DEF m, next, stop
<1>9. Keeps(E, W, m, stop, next, f)
  BY <1>6, <1>7, <1>8 DEF Keeps
<1>10. \A rs \in E : f[rs] \in W
  BY <1>9, RecursionStays
<1>11. LogRecords(n) \in Seq(Q)
  BY <1>2, <1>3, <1>10 DEF W, rr
<1>12. Range(LogRecords(n)) \subseteq Q
  BY <1>11 DEF Range
<1>13. Q \subseteq Range(LogRecords(n))
  <2>1. \A r \in Q : \E i \in 1 .. Len(LogRecords(n)) : LogRecords(n)[i] = r
    BY LogRecordsAll DEF Q
  <2>2. DOMAIN LogRecords(n) = 1 .. Len(LogRecords(n))
    BY <1>11
  <2> QED
    BY <2>1, <2>2 DEF Range
<1> QED
  BY <1>12, <1>13 DEF Q

\* They are of those the log has bytes of.
LEMMA ReadableAppended ==
    ASSUME LogsInv, NEW n \in DOMAIN logs
    PROVE  Readable(logs[n].bytes) \subseteq Appended(logs[n].bytes)
<1>1. Written(logs[n].bytes, LogParts)
  BY DEF LogsInv
<1>2. LogRecords(n) \in Seq(Appended(logs[n].bytes)) /\ Range(LogRecords(n)) = Readable(logs[n].bytes)
  BY <1>1, LogRecordsAppended, LogRecordsRead
<1> QED
  BY <1>2 DEF Range

\* What LevelStore calls OnDisk is what recovery finds, whole batches of readable logs only.
LEMMA OnDiskIs == LogsInv => OnDisk = Recorded
<1> SUFFICES ASSUME LogsInv PROVE OnDisk = Recorded
  OBVIOUS
<1> DEFINE v == Replayed(manifests[current].edits)
<1>1. \A n \in DOMAIN logs : Range(LogRecords(n)) = Readable(logs[n].bytes)
  BY LogRecordsRead DEF LogsInv
<1> HIDE DEF v
<1>2. OnDisk = RecsOf(tables, v.files) \cup UNION { Range(LogRecords(n)) : n \in { m \in DOMAIN logs : m >= v.log } }
  BY DEF OnDisk, RecordsIn, RecsOf, v
<1>3. Recorded = RecsOf(tables, v.files) \cup UNION { Readable(logs[n].bytes) : n \in { m \in DOMAIN logs : m >= v.log } }
  <2>1. DOMAIN ReadIn(logs) = DOMAIN logs /\ \A n \in DOMAIN logs : ReadIn(logs)[n] = Readable(logs[n].bytes)
    BY DEF ReadIn
  <2>2. Recorded = FoundAt(tables, v, ReadIn(logs))
    BY DEF Recorded, v
  <2>3. UNION { ReadIn(logs)[n] : n \in { m \in DOMAIN logs : m >= v.log } }
          = UNION { Readable(logs[n].bytes) : n \in { m \in DOMAIN logs : m >= v.log } }
    BY <2>1
  <2> QED
    BY <2>1, <2>2, <2>3 DEF FoundAt
<1>4. UNION { Range(LogRecords(n)) : n \in { m \in DOMAIN logs : m >= v.log } }
        = UNION { Readable(logs[n].bytes) : n \in { m \in DOMAIN logs : m >= v.log } }
  BY <1>1
<1> QED
  BY <1>2, <1>3, <1>4

-----------------------------------------------------------------------------
(* What is stored is seen, or its write has failed *)

\* The writes that returned an error, or whose process ended.
Dead == { w \in Writes : pc[w] \in {"error", "lost"} }

\* The writes of S are those of T, or dead.
Covered(S, T, D) == WritesIn(S) \subseteq WritesIn(T) \cup D

\* The records of the memtable that becomes a table, if there is one.
ImmRecs == IF imm = Nothing THEN {} ELSE imm

\* What an open store shows.
Shown == InMemory \cup RecsOf(tables, version)

\* A version that a crash may go back to, u, shows no more than v.
CutWithin(ts, ls, u, v, D) ==
  /\ RecsOf(ts, u.files) \subseteq RecsOf(ts, v.files)
  /\ \A n \in DOMAIN ls : u.log <= n /\ n < v.log => Covered(Appended(ls[n].bytes), RecsOf(ts, v.files), D)

\* Wherever the MANIFEST is cut, recovery finds nothing that it would not find in the whole.
CutSeen ==
  LET m == manifests[current]
  IN  ~Corrupt(m.edits) =>
        \A k \in m.synced .. Len(m.edits) : CutWithin(tables, logs, VersionAt(m, k), Replayed(m.edits), Dead)

\* The new version, before CURRENT names its MANIFEST, has what the old one has with its logs.
OpenSeen == phase = "opening" => RecsOf(tables, version) = Recorded

\* An open store shows all that is stored anywhere,
UpSeen == phase = "up" => Covered(Stored, Shown, Dead)

\* also the tables of the MANIFEST and the memtable that becomes one the old logs,
LogsSeen ==
  phase = "up" =>
    LET m == manifests[manifest_file]
        v == Replayed(m.edits)
    IN  ~Corrupt(m.edits) =>
          \A n \in DOMAIN logs : n < logfile => Covered(Appended(logs[n].bytes), RecsOf(tables, v.files) \cup ImmRecs, Dead)

\* the other memtable the current log, the newest,
LogSeen ==
  phase = "up" =>
    /\ \A n \in DOMAIN logs : n <= logfile
    /\ Covered(Appended(logs[logfile].bytes) \ InFlight, mem, Dead)

\* and memory and the version the tables of an edit.
EditSeen == bg.stage \in {"manifest", "sync"} => RecsOf(tables, bg.edit.add) \subseteq Shown

\* What is stored is shown, or its write has failed.
SeenInv == CutSeen /\ OpenSeen /\ UpSeen /\ LogsSeen /\ LogSeen /\ EditSeen

-----------------------------------------------------------------------------

\* Covered is monotone in what covers,
LEMMA CoveredMore ==
    ASSUME NEW S, NEW T, NEW D, NEW S2, NEW T2, NEW D2, S2 \subseteq S, T \subseteq T2, D \subseteq D2, Covered(S, T, D)
    PROVE  Covered(S2, T2, D2)
<1>1. WritesIn(S2) \subseteq WritesIn(S) /\ WritesIn(T) \subseteq WritesIn(T2)
  BY WritesInMore
<1> QED
  BY <1>1 DEF Covered

\* transitive, if the dead stay dead,
LEMMA CoveredThrough ==
    ASSUME NEW S, NEW T, NEW U, NEW D, NEW D2, D \subseteq D2, Covered(S, T, D), Covered(T, U, D2)
    PROVE  Covered(S, U, D2)
  BY DEF Covered

\* implied by inclusion,
LEMMA CoveredSub == ASSUME NEW S, NEW T, NEW D, S \subseteq T PROVE Covered(S, T, D)
  BY WritesInMore DEF Covered

\* and closed under union.
LEMMA CoveredCup ==
    ASSUME NEW S, NEW S2, NEW T, NEW D, Covered(S, T, D), Covered(S2, T, D)
    PROVE  Covered(S \cup S2, T, D)
  BY WritesInCup DEF Covered

\* Tables with what others have.
LEMMA SameRecs ==
    ASSUME NEW us, NEW ts, TablesLess(us, ts), TablesMore(us, ts), NEW files, Held(ts, files), Held(us, files)
    PROVE  RecsOf(us, files) = RecsOf(ts, files)
<1>1. RecsOf(us, files) \subseteq RecsOf(ts, files)
  BY RecsOfLess
<1>2. RecsOf(ts, files) \subseteq RecsOf(us, files)
  BY RecsOfMore
<1> QED
  BY <1>1, <1>2

\* Then the versions of a MANIFEST, cut or whole, have the same records in both.
LEMMA SameCuts ==
    ASSUME NEW us, NEW ts, TablesLess(us, ts), TablesMore(us, ts), NEW m \in Manifests,
           Recoverable(ts, m), Recoverable(us, m)
    PROVE  /\ \A k \in m.synced .. Len(m.edits) : RecsOf(us, VersionAt(m, k).files) = RecsOf(ts, VersionAt(m, k).files)
           /\ RecsOf(us, Replayed(m.edits).files) = RecsOf(ts, Replayed(m.edits).files)
<1>1. ASSUME NEW k \in m.synced .. Len(m.edits)
      PROVE  RecsOf(us, VersionAt(m, k).files) = RecsOf(ts, VersionAt(m, k).files)
  <2>1. Held(us, VersionAt(m, k).files) /\ Held(ts, VersionAt(m, k).files)
    BY DEF Recoverable, VersionAt
  <2> QED
    BY <2>1, SameRecs
<1>2. Held(us, Replayed(m.edits).files) /\ Held(ts, Replayed(m.edits).files)
  BY RecoverableLast
<1>3. RecsOf(us, Replayed(m.edits).files) = RecsOf(ts, Replayed(m.edits).files)
  BY <1>2, SameRecs
<1> QED
  BY <1>1, <1>3

-----------------------------------------------------------------------------
(* Steps that leave the MANIFEST, the version and the memtable that becomes a table. *)

\* Of logs other than the current one, bytes are not added.
OldLogs(new, old, lf) == \A n \in DOMAIN new : n # lf => n \in DOMAIN old /\ Appended(new[n].bytes) \subseteq Appended(old[n].bytes)

\* CutWithin stays as logs lose bytes, or only the current one gets some, and writes fail.
LEMMA CutsWithin ==
    ASSUME NEW ts, NEW us, NEW ls, NEW ls2, NEW u, NEW v, NEW D, NEW D2, NEW lf \in Nat,
           RecsOf(us, u.files) = RecsOf(ts, u.files), RecsOf(us, v.files) = RecsOf(ts, v.files),
           OldLogs(ls2, ls, lf), v.log \in Nat, v.log <= lf, DOMAIN ls2 \subseteq Nat, D \subseteq D2,
           CutWithin(ts, ls, u, v, D)
    PROVE  CutWithin(us, ls2, u, v, D2)
<1> SUFFICES ASSUME NEW n \in DOMAIN ls2, u.log <= n /\ n < v.log
             PROVE  Covered(Appended(ls2[n].bytes), RecsOf(us, v.files), D2)
  BY DEF CutWithin
<1>1. n \in DOMAIN ls /\ Appended(ls2[n].bytes) \subseteq Appended(ls[n].bytes)
  BY DEF OldLogs
<1>2. Covered(Appended(ls[n].bytes), RecsOf(ts, v.files), D)
  BY <1>1 DEF CutWithin
<1> QED
  BY <1>1, <1>2, CoveredMore

\* The log of the MANIFEST's version, of an open store.
LEMMA LastLog ==
    ASSUME StoreInv, FilesInv, BoundInv, phase = "up"
    PROVE  LET v == Replayed(manifests[manifest_file].edits) IN v.log \in Nat /\ v.log <= logfile /\ logfile \in Nat
<1> DEFINE m == manifests[manifest_file]
<1>1. m \in Manifests
  BY UpIs
<1>2. Len(m.edits) \in m.synced .. Len(m.edits) /\ VersionAt(m, Len(m.edits)) = Replayed(m.edits)
  BY <1>1, LastCut
<1>3. \A k \in m.synced .. Len(m.edits) : VersionAt(m, k).log <= logfile
  BY DEF BoundInv
<1>4. VersionAt(m, Len(m.edits)).log \in Nat
  BY <1>1, <1>2, VersionLog
<1>5. logfile \in Nat
  BY DEF StoreInv, NumbersInv
<1> HIDE DEF m
<1> QED
  BY <1>2, <1>3, <1>4, <1>5 DEF m

\* Such a step of an open store keeps SeenInv if what it adds to memory or to the log is covered.
LEMMA WorkSeen ==
    ASSUME StoreInv, FilesInv, BoundInv, SeenInv, StoreInv', FilesInv', phase = "up",
           UNCHANGED <<phase, manifests, current, manifest_file, version, logfile, imm>>,
           TablesLess(tables', tables), TablesMore(tables', tables),
           mem \subseteq mem', Dead \subseteq Dead', OldLogs(logs', logs, logfile),
           LogSeen', Covered(Stored', Stored \cup mem', Dead'), EditSeen'
    PROVE  SeenInv' /\ RecsOf(tables', version) = RecsOf(tables, version)
<1> DEFINE m == manifests[manifest_file]
           v == Replayed(m.edits)
<1>1. m \in Manifests /\ Recoverable(tables, m) /\ Held(tables, version) /\ current = manifest_file
  BY UpIs
<1>2. m = manifests'[manifest_file'] /\ Recoverable(tables', m) /\ Held(tables', version)
  <2>1. Recoverable(tables', manifests'[manifest_file']) /\ Held(tables', version')
    BY DEF FilesInv, DiskInv, TablesInv
  <2> QED
    BY <2>1
<1>3. RecsOf(tables', version) = RecsOf(tables, version)
  BY <1>1, <1>2, SameRecs
<1> HIDE DEF m
<1>4. /\ \A k \in m.synced .. Len(m.edits) : RecsOf(tables', VersionAt(m, k).files) = RecsOf(tables, VersionAt(m, k).files)
      /\ RecsOf(tables', v.files) = RecsOf(tables, v.files)
  BY <1>1, <1>2, SameCuts
<1>5. v.log \in Nat /\ v.log <= logfile /\ logfile \in Nat
  BY LastLog DEF m
<1>6. DOMAIN logs' \subseteq Nat
  BY DEF StoreInv, LogsInv
<1>7. CutSeen'
  <2>1. ~Corrupt(m.edits) => \A k \in m.synced .. Len(m.edits) : CutWithin(tables, logs, VersionAt(m, k), v, Dead)
    BY <1>1 DEF SeenInv, CutSeen, m
  <2>2. ~Corrupt(m.edits) => \A k \in m.synced .. Len(m.edits) : CutWithin(tables', logs', VersionAt(m, k), v, Dead')
    <3> HIDE DEF v
    <3> QED
      BY <1>4, <1>5, <1>6, <2>1, CutsWithin
  <2>3. manifests'[current'] = m
    BY <1>1 DEF m
  <2> QED
    BY <2>2, <2>3 DEF CutSeen
<1>8. OpenSeen'
  BY DEF OpenSeen
<1>9. UpSeen'
  <2>1. InMemory \subseteq InMemory' /\ mem' \subseteq InMemory'
    BY DEF InMemory
  <2>2. Shown \subseteq Shown' /\ mem' \subseteq Shown'
    BY <1>3, <2>1 DEF Shown
  <2>3. Covered(Stored, Shown, Dead)
    BY DEF SeenInv, UpSeen
  <2>4. Covered(Stored, Shown', Dead')
    BY <2>2, <2>3, CoveredMore
  <2>5. Covered(mem', Shown', Dead')
    BY <2>2, CoveredSub
  <2>6. Covered(Stored \cup mem', Shown', Dead')
    BY <2>4, <2>5, CoveredCup
  <2>7. Covered(Stored', Shown', Dead')
    BY <2>6, CoveredThrough
  <2> QED
    BY <2>7 DEF UpSeen
<1>10. LogsSeen'
  <2>1. ImmRecs' = ImmRecs
    BY DEF ImmRecs
  <2>2. ASSUME ~Corrupt(m.edits), NEW n \in DOMAIN logs', n < logfile
        PROVE  Covered(Appended(logs'[n].bytes), RecsOf(tables', v.files) \cup ImmRecs', Dead')
    <3>1. n \in DOMAIN logs /\ Appended(logs'[n].bytes) \subseteq Appended(logs[n].bytes)
      BY <1>5, <1>6, <2>2 DEF OldLogs
    <3>2. Covered(Appended(logs[n].bytes), RecsOf(tables, v.files) \cup ImmRecs, Dead)
      BY <2>2, <3>1 DEF SeenInv, LogsSeen, m
    <3>3. RecsOf(tables, v.files) \cup ImmRecs = RecsOf(tables', v.files) \cup ImmRecs'
      BY <1>4, <2>1
    <3> QED
      BY <3>1, <3>2, <3>3, CoveredMore
  <2> QED
    BY <1>2, <2>2 DEF LogsSeen, m
<1> QED
  BY <1>3, <1>7, <1>8, <1>9, <1>10 DEF SeenInv

\* A step that makes no record.
LEMMA StoredSub ==
    ASSUME InMemory' \cup TableRecs(tables') \subseteq InMemory \cup TableRecs(tables),
           LogsLess(logs', logs, {}) \/ (LogsLess(logs', logs, {job.rec}) /\ job.stage # "none"),
           InFlight \subseteq InFlight'
    PROVE  Stored' \subseteq Stored
<1>1. LogsFrom(logs', 0) \subseteq InFlight \cup LogsFrom(logs, 0)
  <2>1. CASE LogsLess(logs', logs, {})
    BY <2>1, LogsFromLess
  <2>2. CASE LogsLess(logs', logs, {job.rec}) /\ job.stage # "none"
    BY <2>2, LogsFromLess DEF InFlight
  <2> QED
    BY <2>1, <2>2
<1> QED
  BY <1>1 DEF Stored

\* The log keeps being covered by the memtable if what it gets is in flight.
LEMMA LogSeenStays ==
    ASSUME LogSeen, StoreInv, phase = "up", logfile' = logfile, OldLogs(logs', logs, logfile),
           Appended(logs'[logfile].bytes) \ InFlight' \subseteq Appended(logs[logfile].bytes) \ InFlight,
           mem \subseteq mem', Dead \subseteq Dead'
    PROVE  LogSeen'
<1>1. Covered(Appended(logs'[logfile].bytes) \ InFlight', mem', Dead')
  BY CoveredMore DEF LogSeen
<1>2. \A n \in DOMAIN logs' : n <= logfile
  <2>1. logfile <= logfile
    BY DEF StoreInv, NumbersInv
  <2> QED
    BY <2>1 DEF LogSeen, OldLogs
<1> QED
  BY <1>1, <1>2 DEF LogSeen

\* Logs that are left alone get no bytes.
LEMMA OldLogsSame == ASSUME NEW ls, NEW lf PROVE OldLogs(ls, ls, lf)
  BY DEF OldLogs

\* The writers of a group return: others keep their answers.
LEMMA FinishDead ==
    ASSUME QueueInv, NEW ws, Range(ws) \subseteq Range(writers), NEW answer, Finish(ws, answer)
    PROVE  Dead \subseteq Dead' /\ (answer = "error" => Range(ws) \subseteq Dead')
<1>1. \A w \in Writes : pc'[w] = IF w \in Range(ws) THEN answer ELSE pc[w]
  BY DEF Finish
<1>2. \A w \in Writes : w \in Range(writers) => pc[w] \in {"queued", "waiting", "leading"}
  BY DEF QueueInv, QueueOK
<1>3. Range(writers) \subseteq Writes
  <2>1. writers \in Seq(Writes)
    BY DEF QueueInv, TypeOK
  <2> QED
    BY <2>1 DEF Range
<1> QED
  BY <1>1, <1>2, <1>3 DEF Dead

\* Waking a writer ends no call.
LEMMA WokenDead == ASSUME pc' = Woken PROVE Dead' = Dead
<1>1. \A w \in Writes : pc'[w] = IF pc[w] = "waiting" THEN "queued" ELSE pc[w]
  BY DEF Woken
<1> QED
  BY <1>1 DEF Dead

\* The first writer is in the queue, and its group too.
LEMMA LeadQueued == ASSUME QueueInv, NEW w \in Writes, Leads(w) PROVE Range(<<w>>) \subseteq Range(writers)
<1>1. writers \in Seq(Writes) /\ writers # <<>> /\ Head(writers) = w
  BY DEF Leads, QueueInv, TypeOK
<1>2. Range(<<w>>) = {w}
  BY DEF Range
<1>3. w = writers[1] /\ 1 \in DOMAIN writers
  BY <1>1
<1> QED
  BY <1>2, <1>3 DEF Range

\* So is the group of a write under way.
LEMMA GroupQueued == ASSUME QueueInv, job.stage # "none" PROVE Range(job.ws) \subseteq Range(writers)
<1>1. writers \in Seq(Writes) /\ Len(job.ws) \in 1 .. Len(writers) /\ job.ws = SubSeq(writers, 1, Len(job.ws))
  BY DEF QueueInv, TypeOK, QueueOK
<1> DEFINE n == Len(job.ws)
           g == job.ws
<1>2. n \in 1 .. Len(writers) /\ Len(writers) \in Nat /\ g = SubSeq(writers, 1, n)
  BY <1>1
<1> HIDE DEF n, g
<1>3. DOMAIN g = 1 .. n /\ \A i \in 1 .. n : g[i] = writers[i] /\ i \in DOMAIN writers
  BY <1>1, <1>2
<1>4. Range(g) \subseteq Range(writers)
  BY <1>3 DEF Range
<1> QED
  BY <1>4 DEF g

-----------------------------------------------------------------------------
(* The calls. *)

\* A step that touches neither files nor memory, and what a job has in flight is as before or new.
LEMMA IdleSeen ==
    ASSUME StoreInv, FilesInv, LastInv, SeenInv, StoreInv', FilesInv', phase = "up",
           UNCHANGED <<phase, manifests, current, manifest_file, version, logfile, imm, mem, logs, tables, bg>>,
           Dead \subseteq Dead', InFlight \subseteq InFlight'
    PROVE  SeenInv' /\ Shown' = Shown
<1>1. TablesLess(tables', tables) /\ TablesMore(tables', tables) /\ OldLogs(logs', logs, logfile)
  BY TablesSame, TablesMoreSame, OldLogsSame
<1>2. LogSeen'
  BY <1>1, LogSeenStays DEF SeenInv
<1>3. Stored' \subseteq Stored
  <2>1. LogsLess(logs', logs, {})
    BY LogsSame
  <2>2. InMemory' \cup TableRecs(tables') \subseteq InMemory \cup TableRecs(tables)
    BY DEF InMemory
  <2> QED
    BY <2>1, <2>2, StoredSub
<1>4. Covered(Stored', Stored \cup mem', Dead')
  BY <1>3, CoveredSub
<1>5. Shown' = Shown
  BY DEF Shown, InMemory
<1>6. EditSeen'
  BY <1>5 DEF SeenInv, EditSeen
<1>7. BoundInv
  BY DEF LastInv
<1>8. mem \subseteq mem'
  OBVIOUS
<1>9. SeenInv'
  BY <1>1, <1>2, <1>4, <1>6, <1>7, <1>8, WorkSeen
<1> QED
  BY <1>5, <1>9

\* A call begins, waits, is refused, or goes on to the memtable; no new log.
LEMMA CallsSeen ==
    ASSUME QueueInv, StoreInv, FilesInv, LastInv, SeenInv, StoreInv', FilesInv', NEW w \in Writes,
           Write(w) \/ RefuseWrite(w) \/ WaitForRoom(w) \/ WriteToMem(w) \/ NoNewLog(w)
    PROVE  SeenInv' /\ Shown' = Shown
<1> DEFINE Stay == UNCHANGED <<phase, manifests, current, manifest_file, version, logfile, imm, mem, logs, tables, bg>>
           Call(answer) == pc' = [pc EXCEPT ![w] = answer]
<1>1. pc \in [Writes -> {"none", "new", "queued", "waiting", "leading", "ok", "error", "lost"}]
  BY DEF QueueInv, TypeOK
<1>2. ASSUME NEW answer, Call(answer), pc[w] \notin {"error", "lost"} PROVE Dead \subseteq Dead'
  BY <1>1, <1>2 DEF Dead
<1>3. ASSUME job.stage = "none" PROVE InFlight \subseteq InFlight'
  BY <1>3 DEF InFlight
<1>4. CASE Write(w)
  <2>1. Stay /\ phase = "up" /\ job' = job /\ Call("queued") /\ pc[w] = "new"
    BY <1>4 DEF Write, memVars, versionVars, bgVars, diskVars
  <2>2. InFlight' = InFlight /\ Dead \subseteq Dead'
    BY <2>1, <1>2 DEF InFlight
  <2> QED
    BY <2>1, <2>2, IdleSeen
<1>5. CASE RefuseWrite(w) \/ NoNewLog(w)
  <2>1. Stay /\ Leads(w) /\ Finish(<<w>>, "error")
    BY <1>5 DEF RefuseWrite, NoNewLog, memVars, versionVars, bgVars, diskVars
  <2>2. phase = "up" /\ InFlight \subseteq InFlight' /\ Dead \subseteq Dead'
    BY <2>1, <1>3, LeadsIdle, LeadQueued, FinishDead
  <2> QED
    BY <2>1, <2>2, IdleSeen
<1>6. CASE WaitForRoom(w) \/ WriteToMem(w)
  <2>1. Stay /\ Leads(w) /\ (Call("waiting") \/ Call("leading"))
    BY <1>6 DEF WaitForRoom, WriteToMem, StartGroup, memVars, versionVars, bgVars, diskVars
  <2>2. pc[w] = "queued"
    BY <2>1 DEF Leads
  <2>3. phase = "up" /\ InFlight \subseteq InFlight' /\ Dead \subseteq Dead'
    BY <2>1, <2>2, <1>2, <1>3, LeadsIdle
  <2> QED
    BY <2>1, <2>3, IdleSeen
<1> QED
  BY <1>4, <1>5, <1>6

\* The memtable is full.
LEMMA SwitchSeen ==
    ASSUME QueueInv, StoreInv, FilesInv, FreshInv, LastInv, SeenInv, StoreInv', FilesInv', NEW w \in Writes,
           SwitchMem(w)
    PROVE  SeenInv' /\ Shown' = Shown
<1> DEFINE m == manifests[manifest_file]
           v == Replayed(m.edits)
<1>1. /\ phase = "up" /\ job.stage = "none" /\ imm = Nothing
      /\ logs' = Created(next_file, [bytes |-> <<>>, synced |-> 0], logs)
      /\ logfile' = next_file
      /\ imm' = mem /\ mem' = {}
      /\ Finish(<<w>>, "ok") \/ StartGroup(w)
      /\ Leads(w)
      /\ UNCHANGED <<phase, version, tables, manifests, manifest_file, current, bg>>
  BY LeadsIdle DEF SwitchMem, CanSwitch
<1>2. BoundInv /\ CutSeen /\ UpSeen /\ LogsSeen /\ LogSeen /\ EditSeen
  BY DEF LastInv, SeenInv
<1>3. next_file \in Nat /\ logfile \in Nat /\ DOMAIN logs \subseteq Nat
  BY DEF StoreInv, NumbersInv, LogsInv
<1>4. next_file \notin DOMAIN logs /\ logfile \in DOMAIN logs /\ logfile < next_file
      /\ \A n \in DOMAIN logs : n < next_file
  BY <1>1, <1>2, <1>3 DEF BoundInv
<1>5. /\ DOMAIN logs' = {next_file} \cup DOMAIN logs /\ logs'[next_file].bytes = <<>>
      /\ \A n \in DOMAIN logs : logs'[n] = logs[n]
  <2> DEFINE f == [bytes |-> <<>>, synced |-> 0]
  <2>1. f.bytes = <<>> /\ logs' = [k \in {next_file} \cup DOMAIN logs |-> IF k = next_file THEN f ELSE logs[k]]
    BY <1>1 DEF Created, Over
  <2> HIDE DEF f
  <2> QED
    BY <2>1, <1>4
<1>6. mem # Nothing
  <2>1. mem \subseteq Records
    BY DEF FreshInv, RecordsInv, InMemory
  <2>2. mem \cap Records = mem
    BY <2>1
  <2> QED
    BY <2>2, LevelStoreAssumption
<1>7. InMemory' = InMemory /\ ImmRecs' = mem /\ ImmRecs = {} /\ Shown' = Shown
  BY <1>1, <1>6 DEF InMemory, ImmRecs, Shown
<1>8. Dead \subseteq Dead'
  <2>1. pc \in [Writes -> {"none", "new", "queued", "waiting", "leading", "ok", "error", "lost"}] /\ pc[w] = "queued"
    BY <1>1 DEF QueueInv, TypeOK, Leads
  <2>2. CASE Finish(<<w>>, "ok")
    BY <2>2, <1>1, LeadQueued, FinishDead
  <2>3. CASE StartGroup(w)
    BY <2>1, <2>3 DEF StartGroup, Dead
  <2> QED
    BY <1>1, <2>2, <2>3
<1>9. InFlight = {}
  BY <1>1 DEF InFlight
<1>10. Appended(logs'[next_file].bytes) = {}
  <2> DEFINE b == logs'[next_file].bytes
  <2>1. Len(b) = 0
    BY <1>5
  <2> HIDE DEF b
  <2>2. 1 .. Len(b) = {}
    BY <2>1
  <2> QED
    BY <2>2 DEF Appended, b
<1>11. LogSeen'
  <2>1. \A n \in DOMAIN logs' : n <= logfile'
    BY <1>1, <1>3, <1>4, <1>5
  <2>2. Covered(Appended(logs'[logfile'].bytes) \ InFlight', mem', Dead')
    BY <1>1, <1>10 DEF Covered, WritesIn
  <2> QED
    BY <2>1, <2>2 DEF LogSeen
<1>12. UpSeen'
  <2>1. InMemory' \cup TableRecs(tables') \subseteq InMemory \cup TableRecs(tables)
    BY <1>1, <1>7
  <2>2. LogsLess(logs', logs, {}) /\ InFlight \subseteq InFlight'
    BY <1>1, <1>9, CreateLess
  <2>3. Stored' \subseteq Stored
    BY <2>1, <2>2, StoredSub
  <2>4. Covered(Stored, Shown, Dead)
    BY <1>1, <1>2 DEF UpSeen
  <2>5. Covered(Stored', Shown', Dead')
    BY <1>7, <1>8, <2>3, <2>4, CoveredMore
  <2> QED
    BY <2>5 DEF UpSeen
<1>13. current = manifest_file
  BY <1>1, UpIs
<1>14. CutSeen'
  <2>1. v.log \in Nat /\ v.log <= logfile
    BY <1>1, <1>2, LastLog
  <2>2. ~Corrupt(m.edits) => \A k \in m.synced .. Len(m.edits) : CutWithin(tables, logs, VersionAt(m, k), v, Dead)
    BY <1>2, <1>13 DEF CutSeen
  <2>3. manifests'[current'] = m
    BY <1>1, <1>13
  <2> HIDE DEF m
  <2>4. ASSUME ~Corrupt(m.edits), NEW k \in m.synced .. Len(m.edits)
        PROVE  CutWithin(tables, logs', VersionAt(m, k), v, Dead')
    <3> DEFINE u == VersionAt(m, k)
    <3>1. CutWithin(tables, logs, u, v, Dead)
      BY <2>2, <2>4
    <3> HIDE DEF u, v
    <3> SUFFICES ASSUME NEW n \in DOMAIN logs', u.log <= n /\ n < v.log
                 PROVE  Covered(Appended(logs'[n].bytes), RecsOf(tables, v.files), Dead')
      BY <3>1 DEF CutWithin, u
    <3>2. n \in DOMAIN logs
      BY <2>1, <1>3, <1>4, <1>5
    <3>3. Covered(Appended(logs[n].bytes), RecsOf(tables, v.files), Dead) /\ logs'[n] = logs[n]
      BY <1>5, <3>1, <3>2 DEF CutWithin
    <3> QED
      BY <3>3, <1>8, CoveredMore
  <2> QED
    BY <1>1, <2>3, <2>4 DEF CutSeen
<1>15. LogsSeen'
  <2>1. (manifests[manifest_file])' = m
    BY <1>1
  <2>2. ASSUME ~Corrupt(m.edits), NEW n \in DOMAIN logs', n < logfile'
        PROVE  Covered(Appended(logs'[n].bytes), RecsOf(tables, v.files) \cup mem, Dead')
    <3>1. n \in DOMAIN logs /\ logs'[n] = logs[n] /\ n <= logfile
      BY <1>1, <1>2, <1>3, <1>4, <1>5, <2>2 DEF LogSeen
    <3>2. CASE n < logfile
      <4>1. Covered(Appended(logs[n].bytes), RecsOf(tables, v.files) \cup ImmRecs, Dead)
        BY <1>1, <1>2, <2>2, <3>1, <3>2 DEF LogsSeen
      <4>2. RecsOf(tables, v.files) \cup ImmRecs \subseteq RecsOf(tables, v.files) \cup mem
        BY <1>7
      <4> QED
        BY <3>1, <4>1, <4>2, <1>8, CoveredMore
    <3>3. CASE n = logfile
      <4>1. Covered(Appended(logs[n].bytes) \ InFlight, mem, Dead)
        BY <1>1, <1>2, <3>3 DEF LogSeen
      <4>2. Appended(logs'[n].bytes) \subseteq Appended(logs[n].bytes) \ InFlight
        BY <1>9, <3>1
      <4>3. mem \subseteq RecsOf(tables, v.files) \cup mem
        OBVIOUS
      <4> QED
        BY <4>1, <4>2, <4>3, <1>8, CoveredMore
    <3> QED
      BY <3>1, <3>2, <3>3, <1>3
  <2> HIDE DEF m
  <2> QED
    BY <1>1, <1>7, <2>1, <2>2 DEF LogsSeen
<1>16. EditSeen' /\ OpenSeen'
  BY <1>1, <1>2, <1>7 DEF EditSeen, OpenSeen
<1> QED
  BY <1>7, <1>11, <1>12, <1>14, <1>15, <1>16 DEF SeenInv

\* What the first writer does before the call ends.
LEMMA JobSeen ==
    ASSUME QueueInv, StoreInv, FilesInv, LastInv, SeenInv, StoreInv', FilesInv',
           AppendRecord \/ AppendFails \/ SyncLog \/ SyncFails
    PROVE  SeenInv' /\ Shown' = Shown
<1>1. /\ phase = "up" /\ job.stage # "none"
      /\ UNCHANGED <<phase, pc, tables, manifests, current, manifest_file, version, bg, logfile, mem, imm>>
  <2>1. CASE AppendRecord
    BY <2>1 DEF AppendRecord, versionVars, bgVars
  <2>2. CASE AppendFails
    BY <2>2 DEF AppendFails, versionVars, bgVars
  <2>3. CASE SyncLog
    BY <2>3 DEF SyncLog, memVars, versionVars, bgVars
  <2>4. CASE SyncFails
    BY <2>4 DEF SyncFails, memVars, versionVars, bgVars, diskVars
  <2> QED
    BY <2>1, <2>2, <2>3, <2>4
<1>2. job'.stage # "none" /\ job'.rec = job.rec
  <2>1. job = [stage |-> job.stage, ws |-> job.ws, rec |-> job.rec]
    BY DEF QueueInv, JobInv
  <2>2. PICK stage : stage # "none" /\ job' = [job EXCEPT !.stage = stage]
    <3>1. CASE AppendRecord
      <4> DEFINE stage == IF Head(job.ws) \in Syncs THEN "sync" ELSE "insert"
      <4>1. job' = [job EXCEPT !.stage = stage] /\ stage # "none"
        BY <3>1 DEF AppendRecord
      <4> HIDE DEF stage
      <4> QED
        BY <4>1
    <3>2. CASE AppendFails \/ SyncLog \/ SyncFails
      BY <3>2 DEF AppendFails, SyncLog, SyncFails
    <3> QED
      BY <3>1, <3>2
  <2> QED
    BY <2>1, <2>2
<1>3. /\ LogsLess(logs', logs, {}) \/ LogsLess(logs', logs, {job.rec})
      /\ OldLogs(logs', logs, logfile) /\ DOMAIN logs' = DOMAIN logs
  <2>1. job.rec \in Records /\ block_offset \in 0 .. BlockSize /\ LogsInv
    BY <1>1 DEF StoreInv, NumbersInv, RecordInv
  <2>2. CASE AppendRecord \/ AppendFails
    <3>1. PICK added : /\ \/ added = AddRecord(job.rec, DataSize(job.rec.ws), block_offset)
                          \/ added \in FailedAdds(job.rec, DataSize(job.rec.ws), block_offset)
                       /\ logs' = [logs EXCEPT ![logfile].bytes = @ \o added.bytes]
      BY <2>2 DEF AppendRecord, AppendFails
    <3>2. LogsLess(logs', logs, {job.rec})
      BY <2>1, <3>1, AppendLess
    <3>3. DOMAIN logs' = DOMAIN logs /\ \A n \in DOMAIN logs : n # logfile => logs'[n] = logs[n]
      BY <3>1
    <3> QED
      BY <3>2, <3>3 DEF OldLogs
  <2>3. CASE SyncLog
    <3>1. LogsLess(logs', logs, {})
      BY <2>1, <2>3, SyncLess DEF SyncLog
    <3>2. DOMAIN logs' = DOMAIN logs /\ \A n \in DOMAIN logs : n # logfile => logs'[n] = logs[n]
      BY <2>3 DEF SyncLog
    <3> QED
      BY <3>1, <3>2 DEF OldLogs
  <2>4. CASE SyncFails
    BY <2>4, LogsSame, OldLogsSame DEF SyncFails, diskVars
  <2> QED
    BY <2>2, <2>3, <2>4
<1>4. InFlight' = InFlight /\ InFlight = {job.rec} /\ Dead' = Dead
  BY <1>1, <1>2 DEF InFlight, Dead
<1>5. TablesLess(tables', tables) /\ TablesMore(tables', tables)
  BY <1>1, TablesSame, TablesMoreSame
<1>6. BoundInv /\ LogSeen /\ EditSeen
  BY DEF LastInv, SeenInv
<1>7. LogSeen'
  <2>1. logfile \in DOMAIN logs
    BY <1>1, <1>6 DEF BoundInv
  <2>2. Appended(logs'[logfile].bytes) \ InFlight' \subseteq Appended(logs[logfile].bytes) \ InFlight
    BY <1>3, <1>4, <2>1 DEF LogsLess
  <2>3. mem \subseteq mem' /\ Dead \subseteq Dead'
    BY <1>1, <1>4
  <2> QED
    BY <1>1, <1>3, <1>6, <2>2, <2>3, LogSeenStays
<1>8. Shown' = Shown
  BY <1>1 DEF Shown, InMemory
<1>9. EditSeen'
  BY <1>1, <1>6, <1>8 DEF EditSeen
<1>10. Covered(Stored', Stored \cup mem', Dead')
  <2>1. InMemory' \cup TableRecs(tables') \subseteq InMemory \cup TableRecs(tables)
    BY <1>1 DEF InMemory
  <2>2. Stored' \subseteq Stored
    BY <1>1, <1>3, <1>4, <2>1, StoredSub
  <2> QED
    BY <2>2, CoveredSub
<1>11. mem \subseteq mem' /\ Dead \subseteq Dead'
  BY <1>1, <1>4
<1>12. SeenInv'
  BY <1>1, <1>3, <1>5, <1>6, <1>7, <1>9, <1>10, <1>11, WorkSeen
<1> QED
  BY <1>8, <1>12

\* The call ends: its record is in the memtable, or its writers have failed.
LEMMA EndWriteSeen ==
    ASSUME QueueInv, StoreInv, FilesInv, LastInv, SeenInv, StoreInv', FilesInv', EndWrite
    PROVE  SeenInv' /\ Shown' = Shown \cup IF job.stage = "insert" THEN {job.rec} ELSE {}
<1> DEFINE more == IF job.stage = "insert" THEN {job.rec} ELSE {}
<1>1. /\ phase = "up" /\ job.stage # "none"
      /\ mem' = mem \cup more
      /\ UNCHANGED <<phase, tables, manifests, current, manifest_file, version, bg, logfile, imm, logs>>
  BY DEF EndWrite, diskVars
<1>2. job'.stage = "none" /\ InFlight' = {} /\ InFlight = {job.rec}
  BY <1>1, FinishStore DEF EndWrite, InFlight
<1>3. Dead \subseteq Dead' /\ (job.stage # "insert" => Range(job.ws) \subseteq Dead')
  <2>1. Range(job.ws) \subseteq Range(writers)
    BY <1>1, GroupQueued
  <2>2. job.stage = "insert" => Finish(job.ws, "ok")
    BY DEF EndWrite
  <2>3. job.stage # "insert" => Finish(job.ws, "error")
    BY DEF EndWrite
  <2> QED
    BY <2>1, <2>2, <2>3, FinishDead
<1>4. Covered({job.rec}, mem', Dead')
  <2>1. CASE job.stage = "insert"
    <3>1. {job.rec} \subseteq mem'
      BY <1>1, <2>1
    <3> QED
      BY <3>1, CoveredSub
  <2>2. CASE job.stage # "insert"
    <3>1. Range(job.rec.ws) \subseteq Range(job.ws)
      BY <1>1 DEF LastInv, JobKept
    <3> QED
      BY <1>3, <2>2, <3>1 DEF Covered, WritesIn
  <2> QED
    BY <2>1, <2>2
<1>5. TablesLess(tables', tables) /\ TablesMore(tables', tables) /\ OldLogs(logs', logs, logfile) /\ mem \subseteq mem'
  BY <1>1, TablesSame, TablesMoreSame, OldLogsSame
<1>6. BoundInv /\ LogSeen /\ EditSeen
  BY DEF LastInv, SeenInv
<1>7. LogSeen'
  <2> DEFINE A == Appended(logs[logfile].bytes)
  <2>1. Covered(A \ InFlight, mem, Dead) /\ \A n \in DOMAIN logs : n <= logfile
    BY <1>1, <1>6 DEF LogSeen
  <2>2. Covered(A \ InFlight, mem', Dead')
    <3> HIDE DEF A
    <3> QED
      BY <1>3, <1>5, <2>1, CoveredMore
  <2>3. Covered((A \ InFlight) \cup {job.rec}, mem', Dead')
    BY <1>4, <2>2, CoveredCup
  <2>4. A \subseteq (A \ InFlight) \cup {job.rec}
    BY <1>2
  <2>5. Covered(A, mem', Dead')
    <3>1. mem' \subseteq mem' /\ Dead' \subseteq Dead'
      OBVIOUS
    <3> HIDE DEF A
    <3> QED
      BY <2>3, <2>4, <3>1, CoveredMore
  <2>6. Appended(logs'[logfile'].bytes) \ InFlight' = A
    BY <1>1, <1>2
  <2> QED
    BY <1>1, <2>1, <2>5, <2>6 DEF LogSeen
<1>8. InMemory' = InMemory \cup more /\ Shown' = Shown \cup more
  BY <1>1 DEF InMemory, Shown
<1>9. EditSeen'
  BY <1>1, <1>6, <1>8 DEF EditSeen
<1>10. Covered(Stored', Stored \cup mem', Dead')
  <2>1. Stored' \subseteq (Stored \cup mem') \cup {job.rec}
    BY <1>1, <1>2, <1>8 DEF Stored
  <2> DEFINE T == Stored \cup mem'
  <2>2. Covered(T, T, Dead')
    BY CoveredSub
  <2>3. Covered({job.rec}, T, Dead')
    <3>1. mem' \subseteq T /\ {job.rec} \subseteq {job.rec} /\ Dead' \subseteq Dead'
      OBVIOUS
    <3> HIDE DEF T
    <3> QED
      BY <1>4, <3>1, CoveredMore
  <2> HIDE DEF T
  <2>4. Covered(T \cup {job.rec}, T, Dead')
    BY <2>2, <2>3, CoveredCup
  <2>5. Stored' \subseteq T \cup {job.rec} /\ T \subseteq T /\ Dead' \subseteq Dead'
    BY <2>1 DEF T
  <2>6. Covered(Stored', T, Dead')
    BY <2>4, <2>5, CoveredMore
  <2> QED
    BY <2>6 DEF T
<1>11. SeenInv'
  BY <1>1, <1>3, <1>5, <1>6, <1>7, <1>9, <1>10, WorkSeen
<1> QED
  BY <1>8, <1>11

\* Iterators.
LEMMA IteratorSeen ==
    ASSUME QueueInv, StoreInv, FilesInv, LastInv, SeenInv, StoreInv', FilesInv', OpenIterator \/ CloseIterator
    PROVE  SeenInv' /\ Shown' = Shown
<1>1. phase = "up" /\ UNCHANGED <<phase, manifests, current, manifest_file, version, logfile, imm, mem, logs, tables,
                                  bg, pc, job>>
  BY DEF OpenIterator, CloseIterator, callVars, memVars, versionVars, bgVars, diskVars
<1>2. Dead \subseteq Dead' /\ InFlight \subseteq InFlight'
  BY <1>1 DEF Dead, InFlight
<1> QED
  BY <1>1, <1>2, IdleSeen

-----------------------------------------------------------------------------
(* The background thread. *)

\* A step of it that leaves the MANIFEST alone.
LEMMA BackgroundSeen ==
    ASSUME StoreInv, FilesInv, LastInv, SeenInv, StoreInv', FilesInv', phase = "up",
           UNCHANGED <<phase, job, mem, imm, logs, manifests, current, manifest_file, version, logfile>>,
           pc' = pc \/ pc' = Woken,
           TableRecs(tables') \subseteq InMemory \cup TableRecs(tables),
           TablesLess(tables', tables), TablesMore(tables', tables),
           bg'.stage \in {"manifest", "sync"} => RecsOf(tables', bg'.edit.add) \subseteq InMemory \cup RecsOf(tables, version)
    PROVE  SeenInv' /\ Shown' = Shown
<1>1. Dead' = Dead
  BY WokenDead DEF Dead
<1>2. InMemory' = InMemory /\ InFlight' = InFlight
  BY DEF InMemory, InFlight
<1>3. BoundInv /\ LogSeen
  BY DEF LastInv, SeenInv
<1>4. OldLogs(logs', logs, logfile) /\ mem \subseteq mem' /\ Dead \subseteq Dead'
  BY <1>1, OldLogsSame
<1>5. LogSeen'
  BY <1>2, <1>3, <1>4, LogSeenStays
<1>6. Covered(Stored', Stored \cup mem', Dead')
  <2>1. LogsLess(logs', logs, {})
    BY LogsSame
  <2>2. Stored' \subseteq Stored
    BY <1>2, <2>1, StoredSub
  <2> QED
    BY <2>2, CoveredSub
<1>7. RecsOf(tables', version) = RecsOf(tables, version)
  <2>1. Held(tables, version)
    BY UpIs
  <2>2. Held(tables', version')
    BY DEF FilesInv, TablesInv
  <2> QED
    BY <2>1, <2>2, SameRecs
<1>8. Shown' = Shown
  BY <1>2, <1>7 DEF Shown
<1>9. EditSeen'
  BY <1>8 DEF EditSeen, Shown
<1>10. SeenInv'
  BY <1>3, <1>4, <1>5, <1>6, <1>9, WorkSeen
<1> QED
  BY <1>8, <1>10

\* A table is written: others are as before.
LEMMA WrittenSame ==
    ASSUME NEW n \in DOMAIN tables, ~tables[n].synced, NEW recs,
           tables' = [tables EXCEPT ![n] = [recs |-> recs, synced |-> TRUE]]
    PROVE  TablesLess(tables', tables) /\ TablesMore(tables', tables) /\ DOMAIN tables' = DOMAIN tables
           /\ tables'[n].recs = recs
<1> DEFINE t == [recs |-> recs, synced |-> TRUE]
<1>1. t.recs = recs /\ tables' = [tables EXCEPT ![n] = t]
  OBVIOUS
<1> HIDE DEF t
<1>2. DOMAIN tables' = DOMAIN tables /\ tables'[n] = t /\ \A k \in DOMAIN tables : k # n => tables'[k] = tables[k]
  BY <1>1
<1> QED
  BY <1>1, <1>2 DEF TablesLess, TablesMore

\* The table of a flush: its records are in memory, and shown already.
LEMMA TableSeen ==
    ASSUME QueueInv, StoreInv, FilesInv, FreshInv, LastInv, SeenInv, StoreInv', FilesInv',
           NothingToDo \/ StartTable \/ FinishTable \/ TableFails
    PROVE  SeenInv' /\ Shown' = Shown
<1> DEFINE Stay == UNCHANGED <<phase, job, mem, imm, logs, manifests, current, manifest_file, version, logfile>>
<1>1. BgInv
  BY DEF StoreInv
<1>2. CASE NothingToDo
  <2>1. Stay /\ phase = "up" /\ UNCHANGED tables /\ EndBackground(version, imm, bg_error) /\ pc' = Woken
    BY <1>2 DEF NothingToDo, EndBackground, memVars, versionVars, diskVars
  <2>2. bg'.stage \in {"idle", "merge"}
    BY <1>1, <2>1, EndedIs
  <2>3. TablesLess(tables', tables) /\ TablesMore(tables', tables) /\ TableRecs(tables') \subseteq TableRecs(tables)
    BY <2>1, TablesSame, TablesMoreSame
  <2> QED
    BY <2>1, <2>2, <2>3, BackgroundSeen
<1>3. CASE StartTable
  <2>1. /\ Stay /\ phase = "up" /\ pc' = pc
        /\ tables' = IF imm = {} THEN tables ELSE NewTable(next_file)
        /\ bg' = [bg EXCEPT !.stage = "table", !.kind = "imm", !.table = next_file]
    BY <1>3 DEF StartTable, callVars, memVars
  <2>2. bg'.stage = "table"
    BY <1>1, <2>1 DEF BgInv
  <2>3. /\ TableRecs(tables') \subseteq TableRecs(tables) /\ TablesLess(tables', tables) /\ TablesMore(tables', tables)
    <3>1. CASE imm = {}
      BY <2>1, <3>1, TablesSame, TablesMoreSame
    <3>2. CASE imm # {}
      <4>1. tables' = NewTable(next_file) /\ next_file \notin DOMAIN tables
        BY <2>1, <3>2, UpIs
      <4> QED
        BY <4>1, NewTableLess DEF TablesMore
    <3> QED
      BY <3>1, <3>2
  <2> QED
    BY <2>1, <2>2, <2>3, BackgroundSeen
<1>4. CASE FinishTable
  <2> DEFINE level == IF version = {} THEN 1 ELSE 0
             add == IF imm = {} THEN {} ELSE {[level |-> level, number |-> bg.table]}
             edit == EditOf(add, {}, logfile)
  <2>1. /\ Stay /\ phase = "up" /\ pc' = pc /\ bg.stage = "table"
        /\ tables' = IF bg.table \in DOMAIN tables
                     THEN [tables EXCEPT ![bg.table] = [recs |-> imm, synced |-> TRUE]]
                     ELSE tables
        /\ bg' = [bg EXCEPT !.stage = "manifest", !.edit = edit]
    BY <1>4 DEF FinishTable, callVars, memVars, versionVars
  <2>2. edit.add = add
    BY DEF EditOf
  <2>3. Numbers(add) \subseteq {bg.table} /\ (imm = {} => Numbers(add) = {})
    <3> DEFINE file == [level |-> level, number |-> bg.table]
    <3>1. file.number = bg.table /\ add = IF imm = {} THEN {} ELSE {file}
      OBVIOUS
    <3> HIDE DEF file, add
    <3> QED
      BY <3>1 DEF Numbers
  <2> HIDE DEF edit, add
  <2>4. bg'.edit.add = add
    <3>1. bg'.edit = edit
      BY <1>1, <2>1 DEF BgInv
    <3> QED
      BY <3>1, <2>2
  <2>5. imm # Nothing /\ (bg.table \in DOMAIN tables => ~tables[bg.table].synced) /\ (imm # {} => bg.table \in DOMAIN tables)
    BY <2>1 DEF FilesInv, TableInv
  <2>6. /\ TableRecs(tables') \subseteq imm \cup TableRecs(tables)
        /\ TablesLess(tables', tables) /\ TablesMore(tables', tables)
        /\ bg.table \in DOMAIN tables => tables'[bg.table].recs = imm
    <3>1. CASE bg.table \in DOMAIN tables
      BY <2>1, <2>5, <3>1, WrittenLess, WrittenSame
    <3>2. CASE bg.table \notin DOMAIN tables
      BY <2>1, <3>2, TablesSame, TablesMoreSame
    <3> QED
      BY <3>1, <3>2
  <2>7. imm \subseteq InMemory
    BY <2>5 DEF InMemory
  <2>8. RecsOf(tables', add) \subseteq imm
    BY <2>3, <2>5, <2>6 DEF RecsOf
  <2> QED
    BY <2>1, <2>4, <2>6, <2>7, <2>8, BackgroundSeen
<1>5. CASE TableFails
  <2> DEFINE S == DOMAIN tables \ {bg.table}
  <2>1. /\ Stay /\ phase = "up" /\ tables' = Restrict(tables, S) /\ EndImm(imm, TRUE)
    BY <1>5 DEF TableFails, memVars, versionVars
  <2>2. bg'.stage \in {"idle", "merge"} /\ pc' = Woken
    BY <1>1, <2>1, EndedIs DEF EndImm, EndBackground
  <2>3. /\ TableRecs(tables') \subseteq TableRecs(tables) /\ TablesLess(tables', tables)
        /\ DOMAIN tables' = S /\ \A k \in S : tables'[k] = tables[k]
    BY <2>1, RestrictTablesLess, RestrictTables
  <2>4. TablesMore(tables', tables)
    BY <2>3 DEF TablesMore
  <2> QED
    BY <2>1, <2>2, <2>3, <2>4, BackgroundSeen
<1> QED
  BY <1>2, <1>3, <1>4, <1>5

\* The tables of a compaction: their records are in tables of the version.
LEMMA MergeSeen ==
    ASSUME QueueInv, StoreInv, FilesInv, FreshInv, LastInv, SeenInv, StoreInv', FilesInv',
           StartMove \/ StartMerge \/ FinishMerge \/ MergeFails
    PROVE  SeenInv' /\ Shown' = Shown
<1> DEFINE Stay == UNCHANGED <<phase, job, mem, imm, logs, manifests, current, manifest_file, version, logfile>>
<1>1. BgInv /\ InputsInv
  BY DEF StoreInv, LastInv
<1>2. CASE StartMove
  <2> DEFINE add == { [f EXCEPT !.level = 1] : f \in version }
             edit == EditOf(add, version, log_number)
  <2>1. /\ Stay /\ phase = "up" /\ UNCHANGED <<tables, pc>>
        /\ bg' = [bg EXCEPT !.stage = "manifest", !.kind = "move", !.edit = edit]
    BY <1>2 DEF StartMove, MayCompact, callVars, memVars, versionVars, diskVars
  <2>2. edit.add = add
    BY DEF EditOf
  <2>3. Numbers(add) \subseteq Numbers(version)
    <3> SUFFICES ASSUME NEW g \in add PROVE g.number \in Numbers(version)
      BY DEF Numbers
    <3>1. PICK f \in version : g = [f EXCEPT !.level = 1]
      OBVIOUS
    <3>2. f \in Files
      BY DEF StoreInv, NumbersInv
    <3>3. g.number = f.number
      BY <3>1, <3>2 DEF Files
    <3> QED
      BY <3>3 DEF Numbers
  <2> HIDE DEF edit, add
  <2>4. bg'.edit.add = add
    <3>1. bg'.edit = edit
      BY <1>1, <2>1 DEF BgInv
    <3> QED
      BY <3>1, <2>2
  <2>5. RecsOf(tables', add) \subseteq RecsOf(tables, version)
    BY <2>1, <2>3 DEF RecsOf
  <2>6. TablesLess(tables', tables) /\ TablesMore(tables', tables) /\ TableRecs(tables') \subseteq TableRecs(tables)
    BY <2>1, TablesSame, TablesMoreSame
  <2> QED
    BY <2>1, <2>4, <2>5, <2>6, BackgroundSeen
<1>3. CASE StartMerge
  <2>1. /\ Stay /\ phase = "up" /\ pc' = pc
        /\ tables' = NewTable(next_file)
        /\ bg' = [bg EXCEPT !.stage = "merge", !.kind = "merge", !.in = version, !.out = next_file]
    BY <1>3 DEF StartMerge, MayCompact, callVars, memVars
  <2>2. bg'.stage = "merge"
    BY <1>1, <2>1 DEF BgInv
  <2>3. TableRecs(tables') \subseteq TableRecs(tables) /\ TablesLess(tables', tables) /\ TablesMore(tables', tables)
    BY <2>1, UpIs, NewTableLess DEF TablesMore
  <2> QED
    BY <2>1, <2>2, <2>3, BackgroundSeen
<1>4. CASE FinishMerge
  <2> DEFINE add == {[level |-> 1, number |-> bg.out]}
             edit == EditOf(add, bg.in, log_number)
  <2>1. /\ Stay /\ phase = "up" /\ pc' = pc /\ bg.stage = "merge"
        /\ tables' = IF bg.out \in DOMAIN tables
                     THEN [tables EXCEPT ![bg.out] = [recs |-> RecordsIn(bg.in), synced |-> TRUE]]
                     ELSE tables
        /\ bg' = [bg EXCEPT !.stage = "manifest", !.edit = edit]
    BY <1>4 DEF FinishMerge, callVars, memVars, versionVars
  <2>2. edit.add = add /\ Numbers(add) = {bg.out}
    BY DEF EditOf, Numbers
  <2> HIDE DEF edit, add
  <2>3. bg.out \in DOMAIN tables /\ ~tables[bg.out].synced
    BY <2>1 DEF FilesInv, OutInv, FreshInv, OutFresh
  <2>4. bg'.edit.add = add
    <3>1. bg'.edit = edit
      BY <1>1, <2>1 DEF BgInv
    <3> QED
      BY <3>1, <2>2
  <2>5. RecordsIn(bg.in) \subseteq RecsOf(tables, version)
    <3>1. bg.in \subseteq version
      BY <1>1, <2>1 DEF InputsInv
    <3> QED
      BY <3>1 DEF RecordsIn, RecsOf, Numbers
  <2>6. /\ TableRecs(tables') \subseteq RecordsIn(bg.in) \cup TableRecs(tables)
        /\ TablesLess(tables', tables) /\ TablesMore(tables', tables) /\ tables'[bg.out].recs = RecordsIn(bg.in)
    BY <2>1, <2>3, WrittenLess, WrittenSame
  <2>7. TableRecs(tables') \subseteq TableRecs(tables)
    BY <2>5, <2>6, RecsOfTables
  <2>8. RecsOf(tables', add) \subseteq RecsOf(tables, version)
    BY <2>2, <2>5, <2>6 DEF RecsOf
  <2> QED
    BY <2>1, <2>4, <2>6, <2>7, <2>8, BackgroundSeen
<1>5. CASE MergeFails
  <2>1. Stay /\ phase = "up" /\ UNCHANGED tables /\ EndBackground(version, imm, TRUE) /\ pc' = Woken
    BY <1>5 DEF MergeFails, AbandonMerge, DeleteObsoleteFiles, EndBackground, memVars, versionVars
  <2>2. bg'.stage \in {"idle", "merge"}
    BY <1>1, <2>1, EndedIs
  <2>3. TablesLess(tables', tables) /\ TablesMore(tables', tables) /\ TableRecs(tables') \subseteq TableRecs(tables)
    BY <2>1, TablesSame, TablesMoreSame
  <2> QED
    BY <2>1, <2>2, <2>3, BackgroundSeen
<1> QED
  BY <1>2, <1>3, <1>4, <1>5

\* What a step of the background that leaves files and versions alone keeps.
LEMMA ShownStays ==
    ASSUME SeenInv, phase = "up", pc' = pc \/ pc' = Woken,
           UNCHANGED <<phase, tables, job, mem, imm, logs, version, logfile>>
    PROVE  Dead' = Dead /\ Shown' = Shown /\ ImmRecs' = ImmRecs /\ OpenSeen' /\ UpSeen' /\ LogSeen'
<1>1. Dead' = Dead
  BY WokenDead DEF Dead
<1>2. InMemory' = InMemory /\ InFlight' = InFlight /\ ImmRecs' = ImmRecs
  BY DEF InMemory, InFlight, ImmRecs
<1>3. Shown' = Shown /\ Stored' = Stored
  BY <1>2 DEF Shown, Stored
<1>4. OpenSeen' /\ UpSeen'
  BY <1>1, <1>3 DEF SeenInv, OpenSeen, UpSeen
<1>5. LogSeen'
  BY <1>1, <1>2 DEF SeenInv, LogSeen
<1> QED
  BY <1>1, <1>2, <1>3, <1>4, <1>5

\* A record more: the edit, or one that is torn.
LEMMA MoreSeen ==
    ASSUME StoreInv, FilesInv, LastInv, SeenInv, phase = "up", bg.stage \in {"manifest", "sync"},
           NEW e \in {Nothing, bg.edit},
           manifests'[manifest_file] = [edits  |-> Append(manifests[manifest_file].edits, e),
                                        synced |-> manifests[manifest_file].synced],
           UNCHANGED <<phase, tables, job, mem, imm, logs, version, logfile, manifest_file, current>>,
           Dead' = Dead, ImmRecs' = ImmRecs
    PROVE  CutSeen' /\ LogsSeen'
<1> DEFINE m == manifests[manifest_file]
           m2 == [edits |-> Append(m.edits, e), synced |-> m.synced]
           v == Replayed(m.edits)
           w == ApplyEdit(v, e)
           n == Len(m.edits)
<1>1. bg.edit \in Edits /\ EditKeeps /\ BoundInv /\ CutSeen /\ LogsSeen
  BY DEF StoreInv, BgInv, LastInv, SeenInv
<1>2. m \in Manifests /\ current = manifest_file /\ e \in EditRecords
  BY <1>1, UpIs DEF EditRecords
<1>3. /\ manifests'[manifest_file] = m2 /\ m2.synced = m.synced
      /\ m2 = [edits |-> Append(m.edits, e), synced |-> m.synced]
  OBVIOUS
<1> HIDE DEF m2
<1>4. /\ n \in Nat /\ Len(m2.edits) = n + 1
      /\ Replayed(m2.edits) = w
      /\ VersionAt(m2, n + 1) = w
      /\ \A k \in m.synced .. n : VersionAt(m2, k) = VersionAt(m, k)
      /\ ~Corrupt(m2.edits) => ~Corrupt(m.edits)
      /\ \A k \in m.synced .. n + 1 : k \in m.synced .. n \/ k = n + 1
  <2>1. OneMore(m2, m, e)
    BY <1>2, <1>3, AppendVersions
  <2> QED
    BY <2>1 DEF OneMore
<1>5. e = Nothing => w = v
  BY DEF ApplyEdit
<1>6. e # Nothing => w.log = bg.edit.log /\ RecsOf(tables, bg.edit.add) \subseteq RecsOf(tables, w.files)
  BY <1>1, EditFiles
<1>7. RecsOf(tables, v.files) \subseteq RecsOf(tables, w.files)
  BY <1>1, <1>5, EditFiles
<1>8. ~Corrupt(m2.edits) =>
        /\ \A k \in m.synced .. n : CutWithin(tables, logs, VersionAt(m, k), v, Dead)
        /\ \A i \in DOMAIN logs : i < logfile => Covered(Appended(logs[i].bytes), RecsOf(tables, v.files) \cup ImmRecs, Dead)
  BY <1>1, <1>2, <1>4 DEF CutSeen, LogsSeen
<1>9. v.log \in Nat /\ log_number \in Nat /\ DOMAIN logs \subseteq Nat /\ log_number <= v.log /\ logfile \in Nat
  BY <1>1, LastLog DEF BoundInv, StoreInv, NumbersInv, LogsInv
<1>10. ASSUME ~Corrupt(m2.edits), NEW k \in m.synced .. n
       PROVE  CutWithin(tables, logs, VersionAt(m, k), w, Dead)
  <2> DEFINE u == VersionAt(m, k)
  <2>1. CutWithin(tables, logs, u, v, Dead)
    BY <1>8, <1>10
  <2> HIDE DEF u, v, w
  <2>2. RecsOf(tables, u.files) \subseteq RecsOf(tables, w.files)
    BY <1>7, <2>1 DEF CutWithin
  <2>3. ASSUME NEW i \in DOMAIN logs, u.log <= i /\ i < w.log
        PROVE  Covered(Appended(logs[i].bytes), RecsOf(tables, w.files), Dead)
    <3>1. ASSUME i < v.log
          PROVE  Covered(Appended(logs[i].bytes), RecsOf(tables, w.files), Dead)
      <4>1. Covered(Appended(logs[i].bytes), RecsOf(tables, v.files), Dead)
        BY <2>1, <2>3, <3>1 DEF CutWithin
      <4> QED
        BY <4>1, <1>7, CoveredMore
    <3>2. CASE e = Nothing
      BY <3>1, <3>2, <1>5, <2>3
    <3>3. CASE e # Nothing /\ bg.kind = "imm"
      <4>1. imm # Nothing /\ imm \subseteq RecsOf(tables, bg.edit.add) /\ bg.edit.log = logfile
        BY <1>1, <3>3 DEF EditKeeps
      <4>2. i < logfile
        BY <1>6, <2>3, <3>3, <4>1
      <4>3. Covered(Appended(logs[i].bytes), RecsOf(tables, v.files) \cup ImmRecs, Dead)
        BY <1>8, <1>10, <4>2
      <4>4. RecsOf(tables, v.files) \cup ImmRecs \subseteq RecsOf(tables, w.files)
        BY <1>6, <1>7, <3>3, <4>1 DEF ImmRecs
      <4> QED
        BY <4>3, <4>4, CoveredMore
    <3>4. CASE e # Nothing /\ bg.kind # "imm"
      <4>1. w.log = log_number
        BY <1>1, <1>6, <3>4 DEF EditKeeps
      <4>2. i < v.log
        BY <1>9, <2>3, <4>1
      <4> QED
        BY <3>1, <4>2
    <3> QED
      BY <3>2, <3>3, <3>4
  <2> QED
    BY <2>2, <2>3 DEF CutWithin, u
<1>11. CutWithin(tables, logs, w, w, Dead)
  <2>1. w.log \in Nat
    <3>1. bg.edit.log \in Nat
      BY <1>1 DEF Edits
    <3> QED
      BY <3>1, <1>5, <1>6, <1>9
  <2> HIDE DEF w
  <2> QED
    BY <1>9, <2>1 DEF CutWithin
<1> HIDE DEF w
<1>12. CutSeen'
  <2>1. ASSUME ~Corrupt(m2.edits), NEW k \in m2.synced .. Len(m2.edits)
        PROVE  CutWithin(tables, logs, VersionAt(m2, k), w, Dead)
    <3>1. k \in m.synced .. n \/ k = n + 1
      BY <1>3, <1>4
    <3> QED
      BY <3>1, <2>1, <1>4, <1>10, <1>11
  <2>2. manifests'[current'] = m2
    BY <1>2, <1>3
  <2> QED
    BY <2>1, <2>2, <1>4 DEF CutSeen
<1>13. LogsSeen'
  <2>1. ASSUME ~Corrupt(m2.edits), NEW i \in DOMAIN logs, i < logfile
        PROVE  Covered(Appended(logs[i].bytes), RecsOf(tables, w.files) \cup ImmRecs, Dead)
    <3>1. Covered(Appended(logs[i].bytes), RecsOf(tables, v.files) \cup ImmRecs, Dead)
      BY <1>8, <2>1
    <3>2. RecsOf(tables, v.files) \cup ImmRecs \subseteq RecsOf(tables, w.files) \cup ImmRecs
      BY <1>7
    <3> QED
      BY <3>1, <3>2, CoveredMore
  <2>2. manifests'[manifest_file'] = m2
    BY <1>3
  <2> QED
    BY <2>1, <2>2, <1>4 DEF LogsSeen
<1> QED
  BY <1>12, <1>13

\* LogAndApply appends its edit to the MANIFEST, whole or torn: a cut there shows as much.
LEMMA ManifestSeen ==
    ASSUME QueueInv, StoreInv, FilesInv, FreshInv, LastInv, SeenInv, StoreInv', FilesInv',
           WriteManifest \/ ManifestFails
    PROVE  SeenInv' /\ Shown' = Shown
<1> DEFINE m == manifests[manifest_file]
<1>1. /\ phase = "up" /\ bg.stage \in {"manifest", "sync"} /\ BgInv /\ ManifestsInv /\ EditSeen /\ CutSeen /\ LogsSeen
  BY DEF WriteManifest, ManifestFails, StoreInv, SeenInv
<1>2. /\ UNCHANGED <<phase, tables, current, manifest_file, mem, imm, logs, job, version, logfile>>
      /\ \/ manifests' = manifests
         \/ \E e \in {Nothing, bg.edit} : manifests' = [manifests EXCEPT ![manifest_file].edits = Append(@, e)]
      /\ pc' = pc \/ pc' = Woken
      /\ bg'.stage \in {"idle", "merge"} \/ (bg'.stage = "sync" /\ bg'.edit = bg.edit)
  <2>1. CASE WriteManifest
    <3>1. /\ UNCHANGED <<phase, tables, current, manifest_file, mem, imm, logs, job, version, logfile, pc>>
          /\ manifests' = [manifests EXCEPT ![manifest_file].edits = Append(@, bg.edit)]
          /\ bg' = [bg EXCEPT !.stage = "sync"]
      BY <2>1 DEF WriteManifest, callVars, memVars, versionVars
    <3>2. bg'.stage = "sync" /\ bg'.edit = bg.edit
      BY <1>1, <3>1 DEF BgInv
    <3> QED
      BY <3>1, <3>2
  <2>2. CASE ManifestFails
    <3>1. UNCHANGED <<phase, tables, current, manifest_file, mem, imm, logs, job, version, logfile>>
      BY <2>2 DEF ManifestFails, AbandonMerge, DeleteObsoleteFiles, memVars, versionVars
    <3>2. manifests' = manifests
          \/ \E e \in {Nothing, bg.edit} : manifests' = [manifests EXCEPT ![manifest_file].edits = Append(@, e)]
      BY <2>2 DEF ManifestFails
    <3>3. EndImm(imm, TRUE) \/ EndBackground(version, imm, TRUE)
      BY <2>2 DEF ManifestFails, AbandonMerge
    <3>4. bg'.stage \in {"idle", "merge"}
      BY <1>1, <3>3, EndedIs
    <3>5. pc' = Woken
      BY <3>3 DEF EndImm, EndBackground
    <3> QED
      BY <3>1, <3>2, <3>4, <3>5
  <2> QED
    BY <2>1, <2>2
<1>3. Dead' = Dead /\ Shown' = Shown /\ ImmRecs' = ImmRecs /\ OpenSeen' /\ UpSeen' /\ LogSeen'
  BY <1>1, <1>2, ShownStays
<1>4. EditSeen'
  BY <1>1, <1>2, <1>3 DEF EditSeen
<1>5. CutSeen' /\ LogsSeen'
  <2>1. CASE manifests' = manifests
    BY <1>1, <1>2, <1>3, <2>1 DEF CutSeen, LogsSeen
  <2>2. CASE \E e \in {Nothing, bg.edit} : manifests' = [manifests EXCEPT ![manifest_file].edits = Append(@, e)]
    <3>1. PICK e \in {Nothing, bg.edit} : manifests' = [manifests EXCEPT ![manifest_file].edits = Append(@, e)]
      BY <2>2
    <3> DEFINE more == [edits |-> Append(m.edits, e), synced |-> m.synced]
    <3>2. manifest_file \in DOMAIN manifests /\ e \in EditRecords
      BY <1>1, UpIs DEF EditRecords, StoreInv, BgInv
    <3>3. more \in Manifests /\ manifests' = [manifests EXCEPT ![manifest_file] = more]
      BY <1>1, <3>1, <3>2, AppendedManifest
    <3> HIDE DEF more
    <3>4. manifests'[manifest_file] = more
      BY <3>2, <3>3
    <3> QED
      BY <3>4, <1>1, <1>2, <1>3, MoreSeen DEF more
  <2> QED
    BY <1>2, <2>1, <2>2
<1> QED
  BY <1>3, <1>4, <1>5 DEF SeenInv

\* A version shows all that a cut to itself finds.
LEMMA CutSelf ==
    ASSUME NEW ts, NEW ls, NEW v, NEW D, v.log \in Nat, DOMAIN ls \subseteq Nat
    PROVE  CutWithin(ts, ls, v, v, D)
  BY DEF CutWithin

\* A MANIFEST that is synced cannot be cut.
LEMMA SyncedSeen ==
    ASSUME StoreInv', NEW m \in Manifests, manifests'[current'] = m, m.synced = Len(m.edits)
    PROVE  CutSeen'
<1> DEFINE v == Replayed(m.edits)
<1>1. VersionAt(m, Len(m.edits)) = v /\ Len(m.edits) \in m.synced .. Len(m.edits)
  BY LastCut
<1>2. VersionAt(m, Len(m.edits)).log \in Nat /\ Len(m.edits) \in Nat
  BY <1>1, VersionLog DEF Manifests
<1>3. DOMAIN logs' \subseteq Nat
  BY DEF StoreInv, LogsInv
<1> HIDE DEF v
<1>4. CutWithin(tables', logs', v, v, Dead')
  BY <1>1, <1>2, <1>3, CutSelf
<1>5. \A k \in m.synced .. Len(m.edits) : VersionAt(m, k) = v
  BY <1>1, <1>2
<1> QED
  BY <1>4, <1>5 DEF CutSeen, v

\* The MANIFEST is synced, the new version takes the place of the old, and files are deleted.
LEMMA InstallSeen ==
    ASSUME QueueInv, StoreInv, FilesInv, FreshInv, LastInv, SeenInv, StoreInv', FilesInv', InstallVersion
    PROVE  SeenInv' /\ Shown' = Shown
<1> DEFINE m == manifests[manifest_file]
           n == Len(m.edits)
           m2 == [edits |-> m.edits, synced |-> n]
           ms == [manifests EXCEPT ![manifest_file].synced = n]
           v == Replayed(m.edits)
           e == bg.edit
           us == tables'
           ls2 == logs'
<1>1. /\ phase = "up" /\ bg.stage = "sync"
      /\ version' = (version \ e.del) \cup e.add
      /\ UNCHANGED <<phase, job, mem, logfile, manifest_file, current>>
      /\ pc' = Woken
  <2>1. UNCHANGED <<phase, writers, asleep, job, mem, logfile, block_offset, next_file, manifest_file,
                    last_sequence, reader, bg_error, current, history, errors, crashes>>
    BY DEF InstallVersion
  <2>2. pc' = Woken
    BY DEF InstallVersion, EndImm, EndBackground
  <2> QED
    BY <2>1, <2>2 DEF InstallVersion
<1>2. BgInv /\ EditKeeps /\ BoundInv /\ e \in Edits /\ UpSeen /\ LogsSeen /\ LogSeen /\ EditSeen
  BY <1>1 DEF StoreInv, BgInv, LastInv, SeenInv
<1>3. /\ m \in Manifests /\ current = manifest_file /\ manifest_file \in DOMAIN manifests
      /\ Held(tables, version) /\ Recoverable(tables, m) /\ manifest_file \in Nat
  BY <1>1, UpIs DEF StoreInv, NumbersInv
<1>4. m2 \in Manifests /\ ms = [manifests EXCEPT ![manifest_file] = m2]
  BY <1>3, SyncedManifest DEF StoreInv
<1>5. ms[manifest_file] = m2 /\ ms \in [DOMAIN ms -> Manifests] /\ manifest_file \in DOMAIN ms
  <2> HIDE DEF ms, m2
  <2> QED
    BY <1>3, <1>4, ChangedManifest DEF StoreInv
<1>6. m2.edits = m.edits /\ m2.synced = n
  OBVIOUS
<1>7. e.add \subseteq v.files
  BY <1>1, <1>2, <1>3, LastEdit DEF BoundInv
<1>8. e.log \in Nat /\ e.log <= logfile /\ logfile \in DOMAIN logs /\ logfile \in Nat
  BY <1>1, <1>2 DEF Edits, BoundInv, StoreInv, NumbersInv
<1> HIDE DEF ms, m2
<1>9. /\ manifests'[manifest_file] = m2
      /\ TablesMore(us, tables) /\ TablesLess(us, tables) /\ TableRecs(us) \subseteq TableRecs(tables)
      /\ LogsLess(ls2, logs, {})
      /\ \A k \in DOMAIN ls2 : k \in DOMAIN logs /\ ls2[k] = logs[k]
      /\ \A k \in DOMAIN logs : k >= e.log => k \in DOMAIN ls2
  <2>1. CASE tables' = tables /\ logs' = logs /\ manifests' = ms
    BY <1>5, <2>1, TablesMoreSame, TablesSame, LogsSame
  <2>2. ASSUME NEW files, NEW held, NEW pending, NEW err,
               DeleteObsoleteFiles(ms, files, held, e.log, pending, err)
        PROVE  /\ manifests'[manifest_file] = m2
               /\ TablesMore(us, tables) /\ TablesLess(us, tables) /\ TableRecs(us) \subseteq TableRecs(tables)
               /\ LogsLess(ls2, logs, {})
               /\ \A k \in DOMAIN ls2 : k \in DOMAIN logs /\ ls2[k] = logs[k]
               /\ \A k \in DOMAIN logs : k >= e.log => k \in DOMAIN ls2
    <3>1. manifests'[manifest_file] = m2
      BY <2>2, <1>3, <1>5, DeleteStore DEF StoreInv
    <3> QED
      BY <2>2, <3>1, DeleteMore, DeleteLess
  <2>3. log_number' = e.log
    BY DEF InstallVersion
  <2>4. CASE bg.kind = "imm"
    <3>1. DeleteObsoleteFiles(ms, version', reader \cup bg.in, e.log, pending_outputs, bg_error)
      BY <2>3, <2>4 DEF InstallVersion, ms
    <3> QED
      BY <2>2, <3>1
  <2>5. CASE bg.kind = "move"
    BY <2>1, <2>5 DEF InstallVersion, ms
  <2>6. CASE bg.kind = "merge"
    <3>1. DeleteObsoleteFiles(ms, version', reader, e.log, pending_outputs', bg_error)
      BY <2>3, <2>6 DEF InstallVersion, ms
    <3> QED
      BY <2>2, <3>1
  <2> QED
    BY <2>4, <2>5, <2>6 DEF InstallVersion
<1>10. logfile \in DOMAIN ls2 /\ ls2[logfile] = logs[logfile]
  BY <1>8, <1>9
<1>11. imm' = (IF bg.kind = "imm" THEN Nothing ELSE imm) /\ bg'.stage \in {"idle", "merge"}
  <2>1. CASE bg.kind = "imm"
    <3>1. imm' = Nothing /\ EndImm(Nothing, bg_error)
      BY <2>1 DEF InstallVersion
    <3> QED
      BY <3>1, <2>1, <1>2, EndedIs
  <2>2. CASE bg.kind # "imm"
    <3>1. imm' = imm /\ EndBackground(version', imm, bg_error)
      BY <2>2 DEF InstallVersion
    <3> QED
      BY <3>1, <2>2, <1>2, EndedIs
  <2> QED
    BY <2>1, <2>2
<1>12. Held(us, version') /\ Held(us, v.files) /\ Held(tables, v.files)
  <2>1. Recoverable(us, m2) /\ Held(us, version')
    BY <1>1, <1>3, <1>9 DEF FilesInv, DiskInv, TablesInv
  <2>2. Held(us, v.files)
    BY <2>1, <1>4, <1>6, RecoverableLast
  <2> QED
    BY <2>1, <2>2, <1>3, RecoverableLast
<1>13. RecsOf(tables, v.files) = RecsOf(us, v.files)
  BY <1>9, <1>12, SameRecs
<1>14. /\ RecsOf(tables, version) \cup RecsOf(tables, e.add) \subseteq RecsOf(us, version')
       /\ RecsOf(us, version') \subseteq RecsOf(tables, version) \cup RecsOf(tables, e.add)
  <2> DEFINE x == [files |-> version, log |-> 0, next |-> 0, last |-> 0]
             w == ApplyEdit(x, e)
  <2>1. /\ w.files = (x.files \ e.del) \cup e.add
        /\ RecsOf(tables, e.add) \subseteq RecsOf(tables, w.files)
        /\ RecsOf(tables, x.files) \subseteq RecsOf(tables, w.files)
    BY <1>1, <1>2, EditFiles
  <2>2. x.files = version
    OBVIOUS
  <2> HIDE DEF w, x
  <2>3. w.files = version'
    BY <2>1, <2>2, <1>1
  <2>4. Held(tables, version')
    <3>1. Held(tables, e.add)
      BY <1>1 DEF FilesInv, EditInv
    <3> QED
      BY <3>1, <1>1, <1>3 DEF Held, Numbers
  <2>5. RecsOf(tables, version') = RecsOf(us, version')
    BY <2>4, <1>9, <1>12, SameRecs
  <2>6. RecsOf(tables, version') \subseteq RecsOf(tables, version) \cup RecsOf(tables, e.add)
    BY <1>1 DEF RecsOf, Numbers
  <2> QED
    BY <2>1, <2>2, <2>3, <2>5, <2>6
<1>15. bg.kind = "imm" => imm \subseteq RecsOf(tables, e.add)
  BY <1>1, <1>2 DEF EditKeeps
<1>16. InMemory' \subseteq InMemory /\ InMemory \subseteq InMemory' \cup RecsOf(tables, e.add)
  BY <1>1, <1>11, <1>15 DEF InMemory
<1>17. Shown' = Shown
  <2>1. RecsOf(tables, e.add) \subseteq Shown
    BY <1>1, <1>2 DEF EditSeen
  <2> QED
    BY <2>1, <1>14, <1>16 DEF Shown
<1>18. Dead' = Dead /\ InFlight' = InFlight
  BY <1>1, WokenDead DEF InFlight
<1>19. UpSeen'
  <2>1. InMemory' \cup TableRecs(tables') \subseteq InMemory \cup TableRecs(tables)
    BY <1>9, <1>16
  <2>2. Stored' \subseteq Stored
    BY <1>9, <1>18, <2>1, StoredSub
  <2>3. Covered(Stored, Shown, Dead)
    BY <1>1, <1>2 DEF UpSeen
  <2>4. Covered(Stored', Shown', Dead')
    BY <1>17, <1>18, <2>2, <2>3, CoveredMore
  <2> QED
    BY <2>4 DEF UpSeen
<1>20. LogSeen'
  <2>1. OldLogs(logs', logs, logfile)
    BY <1>9 DEF OldLogs
  <2>2. Appended(logs'[logfile].bytes) \ InFlight' \subseteq Appended(logs[logfile].bytes) \ InFlight
    BY <1>10, <1>18
  <2> QED
    BY <1>1, <1>2, <1>18, <2>1, <2>2, LogSeenStays
<1>21. LogsSeen'
  <2>1. RecsOf(tables, v.files) \cup ImmRecs \subseteq RecsOf(us, v.files) \cup ImmRecs'
    <3>1. RecsOf(tables, e.add) \subseteq RecsOf(tables, v.files)
      BY <1>7 DEF RecsOf, Numbers
    <3> QED
      BY <3>1, <1>11, <1>13, <1>15 DEF ImmRecs
  <2>2. ASSUME ~Corrupt(m.edits), NEW i \in DOMAIN ls2, i < logfile
        PROVE  Covered(Appended(ls2[i].bytes), RecsOf(us, v.files) \cup ImmRecs', Dead')
    <3>1. i \in DOMAIN logs /\ ls2[i] = logs[i]
      BY <1>9, <2>2
    <3>2. Covered(Appended(logs[i].bytes), RecsOf(tables, v.files) \cup ImmRecs, Dead)
      BY <1>1, <1>2, <2>2, <3>1 DEF LogsSeen
    <3>3. Covered(Appended(logs[i].bytes), RecsOf(us, v.files) \cup ImmRecs', Dead')
      BY <3>2, <2>1, <1>18, CoveredMore
    <3> QED
      BY <3>1, <3>3
  <2>3. manifests'[manifest_file'] = m2
    BY <1>1, <1>9
  <2> HIDE DEF m
  <2> QED
    BY <1>1, <1>6, <2>2, <2>3 DEF LogsSeen
<1>22. CutSeen'
  <2>1. manifests'[current'] = m2
    BY <1>1, <1>3, <1>9
  <2>2. m2.synced = Len(m2.edits)
    BY <1>6
  <2> HIDE DEF m
  <2> QED
    BY <1>4, <2>1, <2>2, SyncedSeen
<1>23. EditSeen' /\ OpenSeen'
  BY <1>1, <1>11 DEF EditSeen, OpenSeen
<1> QED
  BY <1>17, <1>19, <1>20, <1>21, <1>22, <1>23 DEF SeenInv

-----------------------------------------------------------------------------
(* Recovery *)

\* The records that the reader returns of the logs from one on.
ReadFrom(ls, low) == UNION { Readable(ls[n].bytes) : n \in { m \in DOMAIN ls : m >= low } }

\* What recovery finds is what the tables of the last version have, and the logs from its log number on,
LEMMA RecordedIs ==
  LET v == Replayed(manifests[current].edits)
  IN  Recorded = RecsOf(tables, v.files) \cup ReadFrom(logs, v.log)
<1> DEFINE v == Replayed(manifests[current].edits)
<1>1. Recorded = FoundAt(tables, v, ReadIn(logs))
  BY DEF Recorded
<1> HIDE DEF v
<1>2. DOMAIN ReadIn(logs) = DOMAIN logs /\ \A n \in DOMAIN logs : ReadIn(logs)[n] = Readable(logs[n].bytes)
  BY DEF ReadIn
<1>3. UNION { ReadIn(logs)[n] : n \in { m \in DOMAIN logs : m >= v.log } } = ReadFrom(logs, v.log)
  BY <1>2 DEF ReadFrom
<1>4. Recorded = RecsOf(tables, v.files) \cup ReadFrom(logs, v.log)
  BY <1>1, <1>2, <1>3 DEF FoundAt
<1> QED
  BY <1>4 DEF v

\* also after a step.
LEMMA RecordedNext ==
  LET v == Replayed(manifests'[current'].edits)
  IN  Recorded' = RecsOf(tables', v.files) \cup ReadFrom(logs', v.log)
<1>1. (LET v == Replayed(manifests[current].edits)
       IN  Recorded = RecsOf(tables, v.files) \cup ReadFrom(logs, v.log))'
  BY RecordedIs, PTL
<1> QED
  BY <1>1

\* The tables that recovery makes have no other records.
LEMMA MadeRead ==
    ASSUME LogsInv, NEW v \in Versions
    PROVE  TableRecs(RecoverLogs(v).made) \subseteq ReadFrom(logs, v.log)
<1>1. PICK r, newest : RecoveryOf(v, r, newest)
  BY RecoverLogsLoop
<1> DEFINE X == ReadFrom(logs, v.log)
           V == { q \in Recovered(v.next) : \A t \in DOMAIN q.made : q.made[t].recs \subseteq X }
<1>2. newest \in Nat /\ \A k \in 0 .. newest : r[k] \in Recovered(v.next)
  BY <1>1 DEF RecoveryOf
<1>3. r[0] \in V
  <2>1. r[0] = [next |-> v.next + 1, made |-> [t \in {} |-> Nothing], last |-> v.last]
    BY <1>1 DEF RecoveryOf
  <2>2. DOMAIN r[0].made = {} /\ r[0] \in Recovered(v.next)
    BY <2>1, <1>2
  <2> QED
    BY <2>2
<1>4. ASSUME NEW k \in 1 .. newest, r[k - 1] \in V
      PROVE  r[k] \in V
  <2>1. k \in 0 .. newest
    OBVIOUS
  <2>2. r[k] = IF k \in DOMAIN logs /\ k >= v.log THEN RecoverLog(r[k - 1], k) ELSE r[k - 1]
    BY <1>1 DEF RecoveryOf
  <2>3. CASE k \in DOMAIN logs /\ k >= v.log
    <3> DEFINE q == r[k - 1]
               recs == LogRecords(k)
               ms == MemTables(recs)
               after == q.next + Len(ms)
               table == [t \in q.next .. after - 1 |-> [recs |-> ms[t - q.next + 1], synced |-> TRUE]]
               R == Range(recs)
    <3>1. r[k].made = Over(q.made, table)
      BY <2>2, <2>3 DEF RecoverLog
    <3>2. recs \in Seq(R) /\ Len(ms) \in Nat
      BY <2>3, LogMakes DEF Range
    <3>3. R = Readable(logs[k].bytes)
      BY <2>3, LogRecordsRead DEF LogsInv
    <3>4. R \subseteq X
      BY <2>3, <3>3 DEF ReadFrom
    <3> HIDE DEF R, recs
    <3>5. ms \in Seq(SUBSET R)
      BY <3>2, MemTablesSeq
    <3> HIDE DEF ms
    <3>6. q.next \in Nat /\ \A t \in DOMAIN q.made : q.made[t].recs \subseteq X
      BY <1>4 DEF Recovered
    <3> HIDE DEF q, X
    <3>7. ASSUME NEW t \in DOMAIN r[k].made
          PROVE  r[k].made[t].recs \subseteq X
      <4>1. CASE t \in DOMAIN q.made
        BY <4>1, <3>1, <3>6 DEF Over
      <4>2. CASE t \notin DOMAIN q.made
        <5>1. t \in q.next .. after - 1 /\ r[k].made[t] = table[t]
          BY <4>2, <3>1 DEF Over
        <5>2. t - q.next + 1 \in 1 .. Len(ms)
          BY <5>1, <3>2, <3>6
        <5>3. ms[t - q.next + 1] \subseteq R
          BY <5>2, <3>5
        <5>4. table[t].recs = ms[t - q.next + 1]
          BY <5>1
        <5> QED
          BY <5>1, <5>3, <5>4, <3>4
      <4> QED
        BY <4>1, <4>2
    <3> QED
      BY <3>7, <2>1, <1>2
  <2>4. CASE ~(k \in DOMAIN logs /\ k >= v.log)
    BY <2>2, <2>4, <1>4
  <2> QED
    BY <2>3, <2>4
<1> HIDE DEF V
<1>5. \A k \in 0 .. newest : r[k] \in V
  BY <1>2, <1>3, <1>4, LoopStays
<1>6. r[newest] \in V
  BY <1>2, <1>5
<1>7. RecoverLogs(v) = r[newest]
  BY <1>1 DEF RecoveryOf
<1> QED
  BY <1>6, <1>7 DEF V, TableRecs

\* The reader returns records of a log only if bytes of them are in it,
LEMMA ReadableAll == LogsInv => \A n \in DOMAIN logs : Readable(logs[n].bytes) \subseteq Appended(logs[n].bytes)
  BY ReadableAppended

\* also after a step.
LEMMA ReadableNext == LogsInv' => \A n \in DOMAIN logs' : Readable(logs'[n].bytes) \subseteq Appended(logs'[n].bytes)
<1>1. (LogsInv => \A n \in DOMAIN logs : Readable(logs[n].bytes) \subseteq Appended(logs[n].bytes))'
  BY ReadableAll, PTL
<1> QED
  BY <1>1

\* A state that is not up.
LEMMA DownSeen ==
    ASSUME phase' # "up", bg' = IdleBg, CutSeen', OpenSeen'
    PROVE  SeenInv'
<1>1. bg'.stage = "idle"
  BY DEF IdleBg
<1> QED
  BY <1>1 DEF SeenInv, UpSeen, LogsSeen, LogSeen, EditSeen

\* DBImpl::Recover replays the logs into tables: the new version has what recovery finds.
LEMMA RecoverSeen ==
    ASSUME QueueInv, StoreInv, FilesInv, FreshInv, LastInv, SeenInv, StoreInv', FilesInv', OpenRecover
    PROVE  SeenInv' /\ Recorded' = Recorded
<1> DEFINE old == manifests[current]
           v == Replayed(old.edits)
           r == RecoverLogs(v)
           files == v.files \cup { [level |-> 0, number |-> t] : t \in DOMAIN r.made }
           e == [add |-> files, del |-> {}, log |-> r.next, next |-> r.next + 1, last |-> r.last]
           m == [edits |-> <<e>>, synced |-> 1]
           us == tables'
           ls2 == logs'
<1>1. old \in Manifests /\ current \in DOMAIN manifests /\ LogsInv /\ SoundCuts(tables, old) /\ ApartCuts(tables, logs, old)
  BY DEF StoreInv, ManifestsInv, FreshInv, CutsInv, DownInv, OpenRecover
<1>2. v \in Versions
  <2>1. old.edits \in Seq(EditRecords) /\ Nothing \in EditRecords
    BY <1>1 DEF Manifests, EditRecords
  <2> QED
    BY <2>1, ReplayedAppend
<1>3. /\ v.log <= v.next
      /\ \A k \in old.synced .. Len(old.edits) : \A n \in Numbers(VersionAt(old, k).files) : n < v.next
  <2> HIDE DEF old
  <2> QED
    BY <1>1, CutsLast
<1>4. Recoverable(tables, old) /\ \A n \in Numbers(v.files) : n < v.next
  <2>1. Recoverable(tables, old)
    BY DEF FilesInv, DiskInv
  <2> HIDE DEF old
  <2> QED
    BY <1>1, <2>1, RecoverableLast
<1>5. /\ us = Over(r.made, tables)
      /\ logs' = Created(r.next, [bytes |-> <<>>, synced |-> 0], logs)
      /\ manifests' = Created(v.next, m, manifests)
      /\ version' = files
      /\ phase = "down" /\ phase' = "opening" /\ pc' = pc /\ current' = current /\ bg' = IdleBg
      /\ CutSeen
      /\ ~Corrupt(old.edits)
  BY DEF OpenRecover, CannotOpen, callVars, bgVars, history, FilesInv, QuietInv, SeenInv
<1>6. /\ r.next \in Nat /\ v.next \in Nat /\ v.log \in Nat /\ r.last \in Nat
      /\ v.files \in SUBSET Files /\ DOMAIN r.made \in SUBSET Nat
  <2>1. r \in Recovered(v.next)
    BY <1>1, <1>2, RecoverLogsIs
  <2>2. r.made \in MadeTables
    BY <2>1 DEF Recovered
  <2> HIDE DEF r, v
  <2> QED
    BY <1>2, <2>1, <2>2, MadeIs DEF Recovered, Versions
<1>7. /\ \A t \in DOMAIN r.made : v.next < t
      /\ \A n \in DOMAIN logs : n < r.next /\ (v.log <= n => Readable(logs[n].bytes) \subseteq TableRecs(r.made))
      /\ TableRecs(r.made) \subseteq ReadFrom(logs, v.log)
  <2> HIDE DEF v
  <2> QED
    BY <1>1, <1>2, <1>3, RecoverLogsMake, MadeRead
<1>8. Recorded = RecsOf(tables, v.files) \cup ReadFrom(logs, v.log)
  BY RecordedIs
<1> HIDE DEF v, r, us
<1>9. /\ DOMAIN us = DOMAIN r.made \cup DOMAIN tables
      /\ \A n \in DOMAIN us : us[n] = IF n \in DOMAIN r.made THEN r.made[n] ELSE tables[n]
  BY <1>5 DEF Over
<1>10. ASSUME NEW F, \A n \in Numbers(F) : n < v.next, F \in SUBSET Files
       PROVE  RecsOf(us, F) = RecsOf(tables, F)
  <2>1. \A n \in Numbers(F) : n \in Nat /\ n < v.next
    BY <1>10 DEF Numbers, Files
  <2>2. \A t \in DOMAIN r.made : t \in Nat /\ v.next < t
    BY <1>6, <1>7
  <2>3. \A n \in Numbers(F) : n \notin DOMAIN r.made
    BY <2>1, <2>2, <1>6
  <2>4. Numbers(F) \cap DOMAIN us = Numbers(F) \cap DOMAIN tables
    BY <2>3, <1>9
  <2>5. \A n \in Numbers(F) \cap DOMAIN tables : us[n] = tables[n]
    BY <2>3, <1>9
  <2> QED
    BY <2>4, <2>5 DEF RecsOf
<1>11. RecsOf(us, files) = Recorded
  <2>1. RecsOf(us, v.files) = RecsOf(tables, v.files)
    BY <1>4, <1>6, <1>10
  <2>2. RecsOf(us, files) = RecsOf(us, v.files) \cup TableRecs(r.made)
    <3> DEFINE F == { [level |-> 0, number |-> t] : t \in DOMAIN r.made }
    <3>1. Numbers(F) = DOMAIN r.made
      <4>1. \A f \in F : f.number \in DOMAIN r.made
        OBVIOUS
      <4>2. ASSUME NEW t \in DOMAIN r.made PROVE t \in Numbers(F)
        <5>1. [level |-> 0, number |-> t] \in F /\ [level |-> 0, number |-> t].number = t
          OBVIOUS
        <5> HIDE DEF F
        <5> QED
          BY <5>1 DEF Numbers
      <4> HIDE DEF F
      <4>3. \A n \in Numbers(F) : n \in DOMAIN r.made
        BY <4>1 DEF Numbers
      <4> QED
        BY <4>2, <4>3
    <3>2. files = v.files \cup F
      OBVIOUS
    <3> HIDE DEF F, files
    <3>3. Numbers(files) = Numbers(v.files) \cup DOMAIN r.made
      BY <3>1, <3>2 DEF Numbers
    <3>4. \A t \in DOMAIN r.made : t \in DOMAIN us /\ us[t] = r.made[t]
      BY <1>9
    <3>5. RecsOf(us, files) \subseteq RecsOf(us, v.files) \cup TableRecs(r.made)
      BY <3>3, <3>4 DEF RecsOf, TableRecs
    <3>6. RecsOf(us, v.files) \subseteq RecsOf(us, files)
      BY <3>3 DEF RecsOf
    <3>7. TableRecs(r.made) \subseteq RecsOf(us, files)
      BY <3>3, <3>4 DEF RecsOf, TableRecs
    <3> QED
      BY <3>5, <3>6, <3>7
  <2>3. ReadFrom(logs, v.log) \subseteq TableRecs(r.made)
    <3>1. \A n \in DOMAIN logs : n >= v.log => v.log <= n
      BY <1>1, <1>6 DEF LogsInv
    <3> QED
      BY <3>1, <1>7 DEF ReadFrom
  <2> QED
    BY <2>1, <2>2, <2>3, <1>7, <1>8
<1>12. files \in SUBSET Files
  BY <1>6 DEF Files
<1> HIDE DEF files
<1>13. e \in Edits /\ e.add = files /\ e.log = r.next
  BY <1>6, <1>12 DEF Edits
<1>14. manifests'[v.next] = m /\ (current # v.next => manifests'[current] = old)
  <2> HIDE DEF m
  <2> QED
    BY <1>1, <1>5 DEF Created, Over
<1> HIDE DEF e
<1>15. r.next \notin DOMAIN logs /\ DOMAIN logs \subseteq Nat
  BY <1>1, <1>6, <1>7 DEF LogsInv
<1>16. /\ DOMAIN ls2 = {r.next} \cup DOMAIN logs /\ ls2[r.next].bytes = <<>>
       /\ \A n \in DOMAIN logs : ls2[n] = logs[n]
  <2> DEFINE f == [bytes |-> <<>>, synced |-> 0]
  <2>1. f.bytes = <<>> /\ logs' = [k \in {r.next} \cup DOMAIN logs |-> IF k = r.next THEN f ELSE logs[k]]
    BY <1>5 DEF Created, Over
  <2> HIDE DEF f
  <2> QED
    BY <2>1, <1>15
<1>17. Readable(<<>>) = {} /\ Appended(<<>>) = {}
  <2>1. Appended(<<>>) = {}
    BY DEF Appended
  <2>2. Readable(ls2[r.next].bytes) \subseteq Appended(ls2[r.next].bytes)
    <3>1. LogsInv' => \A n \in DOMAIN logs' : Readable(logs'[n].bytes) \subseteq Appended(logs'[n].bytes)
      BY ReadableNext
    <3> QED
      BY <3>1, <1>16 DEF StoreInv
  <2> QED
    BY <2>1, <2>2, <1>16
<1>18. \A low : ReadFrom(ls2, low) = ReadFrom(logs, low)
  <2> TAKE low
  <2>1. \A n \in DOMAIN logs : ls2[n].bytes = logs[n].bytes
    BY <1>16
  <2>2. \A n \in DOMAIN ls2 : Readable(ls2[n].bytes) = IF n \in DOMAIN logs THEN Readable(logs[n].bytes) ELSE {}
    BY <1>16, <1>17, <2>1
  <2>3. DOMAIN logs \subseteq DOMAIN ls2
    BY <1>16
  <2> HIDE DEF ls2
  <2>4. ReadFrom(ls2, low) \subseteq ReadFrom(logs, low)
    BY <2>2 DEF ReadFrom
  <2>5. ReadFrom(logs, low) \subseteq ReadFrom(ls2, low)
    BY <2>1, <2>3 DEF ReadFrom
  <2> QED
    BY <2>4, <2>5
<1>19. ~Corrupt(m.edits) /\ Replayed(m.edits).files = files /\ Replayed(m.edits).log = r.next
       /\ m \in Manifests /\ m.synced = Len(m.edits)
  <2> DEFINE s == <<e>>
  <2>1. m.edits = s /\ m.synced = 1
    OBVIOUS
  <2>2. Len(s) = 1 /\ s \in Seq(EditRecords)
    BY <1>13 DEF EditRecords
  <2>3. Replayed(s).files = files /\ Replayed(s).log = r.next
    BY <1>13, SingleIs
  <2>4. m = [edits |-> s, synced |-> 1]
    OBVIOUS
  <2> HIDE DEF m, s
  <2>5. ~Corrupt(s)
    BY <2>2 DEF Corrupt
  <2>6. m \in Manifests
    BY <2>2, <2>4 DEF Manifests
  <2> QED
    BY <2>1, <2>2, <2>3, <2>5, <2>6
<1> HIDE DEF old, m
<1>20. Recorded' = Recorded
  <2> DEFINE w == Replayed(manifests'[current'].edits)
  <2>1. Recorded' = RecsOf(us, w.files) \cup ReadFrom(ls2, w.log)
    BY RecordedNext DEF us
  <2>2. CASE current = v.next
    <3>1. w.files = files /\ w.log = r.next
      BY <2>2, <1>5, <1>14, <1>19
    <3>2. ReadFrom(logs, r.next) = {}
      BY <1>6, <1>7, <1>15 DEF ReadFrom
    <3> QED
      BY <2>1, <3>1, <3>2, <1>11, <1>18
  <2>3. CASE current # v.next
    <3>1. w = v
      BY <2>3, <1>5, <1>14 DEF v, old
    <3>2. RecsOf(us, v.files) = RecsOf(tables, v.files)
      BY <1>4, <1>6, <1>10
    <3> QED
      BY <2>1, <3>1, <3>2, <1>8, <1>18
  <2> QED
    BY <2>2, <2>3
<1>21. OpenSeen'
  <2>1. RecsOf(tables', version') = Recorded'
    BY <1>5, <1>11, <1>20 DEF us
  <2> QED
    BY <2>1 DEF OpenSeen
<1>22. CutSeen'
  <2>1. CASE current = v.next
    <3>1. manifests'[current'] = m
      BY <2>1, <1>5, <1>14
    <3> QED
      BY <3>1, <1>19, SyncedSeen
  <2>2. CASE current # v.next
    <3>1. manifests'[current'] = old
      BY <2>2, <1>5, <1>14
    <3>2. ~Corrupt(old.edits) => \A k \in old.synced .. Len(old.edits) : CutWithin(tables, logs, VersionAt(old, k), v, Dead)
      BY <1>5 DEF CutSeen, old, v
    <3>3. ASSUME NEW k \in old.synced .. Len(old.edits)
          PROVE  RecsOf(us, VersionAt(old, k).files) = RecsOf(tables, VersionAt(old, k).files)
      <4>1. VersionAt(old, k).files \in SUBSET Files
        BY <1>1, VersionLog DEF Versions
      <4>2. \A n \in Numbers(VersionAt(old, k).files) : n < v.next
        BY <1>3
      <4> QED
        BY <4>1, <4>2, <1>10
    <3>4. RecsOf(us, v.files) = RecsOf(tables, v.files)
      BY <1>4, <1>6, <1>10
    <3>5. ASSUME NEW k \in old.synced .. Len(old.edits), CutWithin(tables, logs, VersionAt(old, k), v, Dead)
          PROVE  CutWithin(us, ls2, VersionAt(old, k), v, Dead)
      <4> DEFINE u == VersionAt(old, k)
      <4>1. RecsOf(us, u.files) = RecsOf(tables, u.files)
        BY <3>3
      <4> HIDE DEF u
      <4>2. ASSUME NEW n \in DOMAIN ls2, u.log <= n, n < v.log
            PROVE  Covered(Appended(ls2[n].bytes), RecsOf(us, v.files), Dead)
        <5>1. CASE n = r.next
          <6>1. Appended(ls2[n].bytes) = {}
            BY <5>1, <1>16, <1>17
          <6> QED
            BY <6>1, CoveredSub
        <5>2. CASE n # r.next
          <6>1. n \in DOMAIN logs /\ ls2[n] = logs[n]
            BY <5>2, <1>16
          <6>2. Covered(Appended(logs[n].bytes), RecsOf(tables, v.files), Dead)
            BY <3>5, <4>2, <6>1 DEF CutWithin, u
          <6> QED
            BY <6>1, <6>2, <3>4
        <5> QED
          BY <5>1, <5>2
      <4>3. RecsOf(us, u.files) \subseteq RecsOf(us, v.files)
        BY <3>4, <3>5, <4>1 DEF CutWithin, u
      <4> QED
        BY <4>2, <4>3 DEF CutWithin, u
    <3>6. Dead' = Dead
      BY <1>5 DEF Dead
    <3>7. ~Corrupt(old.edits) => \A k \in old.synced .. Len(old.edits) : CutWithin(tables', logs', VersionAt(old, k), v, Dead')
      BY <3>2, <3>5, <3>6 DEF us
    <3> QED
      BY <3>1, <3>7 DEF CutSeen, v, old
  <2> QED
    BY <2>1, <2>2
<1>23. SeenInv'
  BY <1>5, <1>21, <1>22, DownSeen
<1> QED
  BY <1>20, <1>23

\* An Open that fails changes nothing of that.
LEMMA OpenFailsSeen ==
    ASSUME QueueInv, StoreInv, FilesInv, FreshInv, LastInv, SeenInv, OpenFails
    PROVE  SeenInv' /\ Recorded' = Recorded
<1>1. /\ phase = "down" /\ phase' = "failed" /\ bg' = IdleBg
      /\ UNCHANGED <<pc, tables, logs, manifests, current>>
  BY DEF OpenFails, callVars, memVars, bgVars, diskVars, history, FilesInv, QuietInv
<1>2. CutSeen'
  BY <1>1 DEF SeenInv, CutSeen, Dead
<1>3. OpenSeen'
  BY <1>1 DEF OpenSeen
<1>4. Recorded' = Recorded
  BY <1>1 DEF Recorded
<1> QED
  BY <1>1, <1>2, <1>3, <1>4, DownSeen

\* What recovery finds in the MANIFEST that Open has written, while the logs it names are empty.
LEMMA OpenedRecorded ==
    ASSUME StoreInv, FreshInv, phase \in {"opening", "installed"}, NEW ts, NEW ls,
           DOMAIN ls \subseteq DOMAIN logs, \A n \in DOMAIN ls : ls[n] = logs[n]
    PROVE  LET m == manifests[manifest_file]
               v == Replayed(m.edits)
           IN  /\ m \in Manifests /\ m.synced = Len(m.edits) /\ ~Corrupt(m.edits)
               /\ v.files = version /\ v.log = log_number
               /\ RecsOf(ts, v.files) \cup ReadFrom(ls, v.log) = RecsOf(ts, version)
<1> DEFINE e == [add |-> version, del |-> {}, log |-> log_number, next |-> next_file, last |-> last_sequence]
           s == <<e>>
           m == [edits |-> s, synced |-> 1]
<1>1. manifests[manifest_file] = m /\ LogsFrom(logs, log_number) = {}
  BY DEF FreshInv, BegunInv
<1>2. e \in Edits /\ e.add = version /\ e.log = log_number
  BY DEF StoreInv, NumbersInv, Edits
<1>4. manifests[manifest_file] \in Manifests /\ LogsInv
  BY DEF StoreInv, ManifestsInv
<1> HIDE DEF e
<1>6. Replayed(s).files = version /\ Replayed(s).log = log_number /\ Len(s) = 1
  BY <1>2, SingleIs
<1>7. m.edits = s /\ m.synced = 1
  OBVIOUS
<1> HIDE DEF m, s
<1>8. ~Corrupt(s)
  BY <1>6 DEF Corrupt
<1>9. ReadFrom(ls, log_number) = {}
  <2> SUFFICES ASSUME NEW n \in DOMAIN ls, n >= log_number PROVE Readable(ls[n].bytes) = {}
    BY DEF ReadFrom
  <2>1. n \in DOMAIN logs /\ ls[n] = logs[n]
    OBVIOUS
  <2>2. Readable(logs[n].bytes) \subseteq Appended(logs[n].bytes)
    BY <2>1, <1>4, ReadableAppended
  <2>3. Appended(logs[n].bytes) = {}
    BY <2>1, <1>1 DEF LogsFrom
  <2> QED
    BY <2>1, <2>2, <2>3
<1> QED
  BY <1>1, <1>4, <1>6, <1>7, <1>8, <1>9

\* CURRENT names the new MANIFEST, of which the same is found.
LEMMA OpenInstallSeen ==
    ASSUME QueueInv, StoreInv, FilesInv, FreshInv, LastInv, SeenInv, StoreInv', FilesInv', OpenInstall
    PROVE  SeenInv' /\ Recorded' = Recorded
<1>1. /\ phase = "opening" /\ phase' = "installed" /\ current' = manifest_file /\ bg' = IdleBg
      /\ UNCHANGED <<pc, version, tables, logs, manifests>>
  BY DEF OpenInstall, callVars, memVars, versionVars, bgVars, history, FilesInv, QuietInv
<1> DEFINE m == manifests[manifest_file]
           v == Replayed(m.edits)
<1>2. /\ m \in Manifests /\ m.synced = Len(m.edits)
      /\ RecsOf(tables, v.files) \cup ReadFrom(logs, v.log) = RecsOf(tables, version)
  BY <1>1, OpenedRecorded
<1>3. manifests'[current'] = m
  BY <1>1
<1>4. Recorded' = Recorded
  <2>1. Recorded' = RecsOf(tables, v.files) \cup ReadFrom(logs, v.log)
    BY <1>1, <1>3, RecordedNext
  <2>2. RecsOf(tables, version) = Recorded
    BY <1>1 DEF SeenInv, OpenSeen
  <2> QED
    BY <1>2, <2>1, <2>2
<1> HIDE DEF m
<1>5. CutSeen'
  BY <1>2, <1>3, SyncedSeen
<1>6. OpenSeen'
  BY <1>1 DEF OpenSeen
<1> QED
  BY <1>1, <1>4, <1>5, <1>6, DownSeen

\* Open ends: the store shows what recovery found.
LEMMA OpenEndsSeen ==
    ASSUME QueueInv, StoreInv, FilesInv, FreshInv, LastInv, SeenInv, StoreInv', FilesInv', OpenEnds
    PROVE  SeenInv' /\ Shown' = Recorded /\ Recorded' = Recorded
<1> DEFINE m == manifests[manifest_file]
           v == Replayed(m.edits)
           us == tables'
           ls2 == logs'
<1>1. /\ phase = "installed" /\ phase' = "up"
      /\ DeleteObsoleteFiles(manifests, version, {}, log_number, {}, FALSE)
      /\ UNCHANGED <<pc, job, bg, mem, imm, logfile, log_number, manifest_file, version, current>>
  BY DEF OpenEnds, callVars, memVars, versionVars, history
<1>2. logfile = log_number /\ \A n \in DOMAIN logs : n <= logfile
  BY <1>1 DEF LastInv, NewLogInv
<1>3. job.stage = "none" /\ bg = IdleBg /\ InMemory = {}
  BY <1>1 DEF FreshInv, DownInv, FilesInv, QuietInv
<1>4. /\ logfile \in Nat /\ DOMAIN logs \subseteq Nat
      /\ current = manifest_file /\ manifest_file \in DOMAIN manifests
      /\ manifest_file \in Nat /\ manifests \in [DOMAIN manifests -> Manifests] /\ LogsInv
  BY <1>1 DEF StoreInv, NumbersInv, LogsInv, ManifestsInv
<1>5. manifests'[manifest_file] = m /\ manifests'[current'] = m
  BY <1>1, <1>4, DeleteStore
<1>6. /\ TablesMore(us, tables) /\ TablesLess(us, tables)
      /\ \A n \in DOMAIN ls2 : n \in DOMAIN logs /\ ls2[n] = logs[n]
  BY <1>1, DeleteMore, DeleteLess
<1>7. \A n \in DOMAIN ls2 : n = logfile
  <2>1. DOMAIN ls2 \subseteq { n \in DOMAIN logs : n >= log_number }
    BY <1>1 DEF DeleteObsoleteFiles, Restrict
  <2> QED
    BY <2>1, <1>2, <1>4
<1>8. Held(tables, version) /\ Held(us, version)
  BY <1>1 DEF FilesInv, OpeningInv, TablesInv
<1>9. RecsOf(us, version) = RecsOf(tables, version)
  BY <1>6, <1>8, SameRecs
<1>10. DOMAIN us \subseteq Numbers(version)
  <2>1. DOMAIN us \subseteq DOMAIN tables \cap ({} \cup Numbers(version \cup {}))
    BY <1>1 DEF DeleteObsoleteFiles, Restrict
  <2> QED
    BY <2>1
<1>11. TableRecs(us) \subseteq RecsOf(us, version)
  BY <1>10 DEF TableRecs, RecsOf
<1> HIDE DEF us, ls2
<1>12. /\ m \in Manifests /\ m.synced = Len(m.edits) /\ v.files = version /\ v.log = log_number
       /\ RecsOf(tables, v.files) \cup ReadFrom(logs, v.log) = RecsOf(tables, version)
  BY <1>1, OpenedRecorded
<1>13. RecsOf(us, v.files) \cup ReadFrom(ls2, v.log) = RecsOf(us, version)
  <2>1. DOMAIN ls2 \subseteq DOMAIN logs /\ \A n \in DOMAIN ls2 : ls2[n] = logs[n]
    BY <1>6
  <2> QED
    BY <1>1, <2>1, OpenedRecorded
<1>14. Recorded = RecsOf(tables, version)
  BY <1>4, <1>12, RecordedIs
<1>15. Recorded' = RecsOf(us, version)
  BY <1>5, <1>13, RecordedNext DEF us, ls2
<1>16. InMemory' = {} /\ ImmRecs' = ImmRecs /\ ImmRecs = {} /\ mem' = {} /\ InFlight' = {}
  BY <1>1, <1>3 DEF InMemory, ImmRecs, InFlight
<1>17. Shown' = RecsOf(us, version)
  BY <1>1, <1>16 DEF Shown, us
<1>18. \A n \in DOMAIN ls2 : Appended(ls2[n].bytes) = {}
  <2>1. LogsFrom(logs, log_number) = {}
    BY <1>1 DEF FreshInv, BegunInv
  <2> QED
    BY <2>1, <1>2, <1>4, <1>6, <1>7 DEF LogsFrom
<1>19. UpSeen'
  <2>1. LogsFrom(logs', 0) = {}
    BY <1>18 DEF LogsFrom, ls2
  <2>2. Stored' \subseteq TableRecs(us)
    BY <2>1, <1>16 DEF Stored, us
  <2>3. Stored' \subseteq Shown'
    BY <2>2, <1>11, <1>17
  <2>4. Covered(Stored', Shown', Dead')
    BY <2>3, CoveredSub
  <2> QED
    BY <2>4 DEF UpSeen
<1>20. LogsSeen'
  <2>1. \A n \in DOMAIN logs' : ~(n < logfile')
    BY <1>1, <1>4, <1>7 DEF ls2
  <2> QED
    BY <2>1 DEF LogsSeen
<1>21. LogSeen'
  <2>1. \A n \in DOMAIN logs' : n <= logfile'
    BY <1>1, <1>4, <1>7 DEF ls2
  <2>2. logfile' \in DOMAIN logs'
    <3>1. logfile \in DOMAIN logs /\ \A n \in DOMAIN logs : n >= log_number => n \in DOMAIN logs'
      BY <1>1, DeleteMore DEF LastInv, NewLogInv
    <3> QED
      BY <3>1, <1>1, <1>2, <1>4
  <2>3. Appended(logs'[logfile'].bytes) = {}
    BY <2>2, <1>18 DEF ls2
  <2>4. Covered(Appended(logs'[logfile'].bytes) \ InFlight', mem', Dead')
    BY <2>3, CoveredSub
  <2> QED
    BY <2>1, <2>4 DEF LogSeen
<1>22. CutSeen'
  <2> HIDE DEF m
  <2> QED
    BY <1>5, <1>12, SyncedSeen
<1>23. OpenSeen' /\ EditSeen'
  BY <1>1, <1>3 DEF OpenSeen, EditSeen, IdleBg
<1> QED
  BY <1>9, <1>14, <1>15, <1>17, <1>19, <1>20, <1>21, <1>22, <1>23 DEF SeenInv

-----------------------------------------------------------------------------
(* Crashes *)

\* No crash makes a record, or leaves one of a table or of a log that was not there, but the one in flight.
LEMMA CrashLess ==
    ASSUME QueueInv, StoreInv, ProcessCrash \/ MachineCrash
    PROVE  /\ TablesLess(tables', tables) /\ TableRecs(tables') \subseteq TableRecs(tables)
           /\ LogsLess(logs', logs, {}) \/ (LogsLess(logs', logs, {job.rec}) /\ job.stage # "none")
<1>1. LogsInv
  BY DEF StoreInv
<1>3. TablesLess(tables', tables) /\ TableRecs(tables') \subseteq TableRecs(tables)
  <2>1. CASE ProcessCrash
    <3>1. tables' = tables
      BY <2>1 DEF ProcessCrash
    <3> QED
      BY <3>1, TablesSame
  <2>2. CASE MachineCrash
    <3> DEFINE S == { n \in DOMAIN tables : tables[n].synced }
    <3>2. tables' = Restrict(tables, S) /\ S \subseteq DOMAIN tables
      BY <2>2 DEF MachineCrash
    <3> HIDE DEF S
    <3> QED
      BY <3>2, RestrictTablesLess
  <2> QED
    BY <2>1, <2>2
<1>4. LogsLess(logs', logs, {}) \/ (LogsLess(logs', logs, {job.rec}) /\ job.stage # "none")
  <2>1. CASE ProcessCrash
    <3>1. CASE logs' = logs
      BY <3>1, LogsSame
    <3>2. CASE logs' # logs
      <4>1. job.stage = "append"
        BY <2>1, <3>2 DEF ProcessCrash
      <4>2. PICK added \in FailedAdds(job.rec, DataSize(job.rec.ws), block_offset) :
              logs' = [logs EXCEPT ![logfile].bytes = @ \o added.bytes]
        BY <2>1, <3>2 DEF ProcessCrash
      <4>3. job.rec \in Records /\ block_offset \in 0 .. BlockSize
        BY <4>1 DEF StoreInv, RecordInv, NumbersInv
      <4> QED
        BY <1>1, <4>1, <4>2, <4>3, AppendLess
    <3> QED
      BY <3>1, <3>2
  <2>2. CASE MachineCrash
    <3>1. PICK cut : /\ \A n \in DOMAIN logs : cut[n] \in logs[n].synced .. Len(logs[n].bytes)
                     /\ logs' = [n \in DOMAIN logs |-> [bytes |-> SubSeq(logs[n].bytes, 1, cut[n]),
                                                        synced |-> cut[n]]]
      BY <2>2 DEF MachineCrash
    <3> QED
      BY <1>1, <3>1, CutLess
  <2> QED
    BY <2>1, <2>2
<1> QED
  BY <1>3, <1>4

\* The writes under way are lost.
LEMMA CrashDead ==
    ASSUME QueueInv, LoseMemory
    PROVE  Dead \subseteq Dead' /\ Range(writers) \subseteq Dead'
<1>1. \A w \in Writes : pc'[w] = IF pc[w] \in {"queued", "waiting", "leading"} THEN "lost" ELSE pc[w]
  BY DEF LoseMemory
<1>2. \A w \in Writes : w \in Range(writers) => pc[w] \in {"queued", "waiting", "leading"}
  BY DEF QueueInv, QueueOK
<1>3. Range(writers) \subseteq Writes
  <2>1. writers \in Seq(Writes)
    BY DEF QueueInv, TypeOK
  <2> QED
    BY <2>1 DEF Range
<1> QED
  BY <1>1, <1>2, <1>3 DEF Dead

\* The logs of what recovery would find.
LEMMA ReadFromLess ==
    ASSUME LogsInv', NEW low
    PROVE  ReadFrom(logs', low) \subseteq LogsFrom(logs', 0)
<1> SUFFICES ASSUME NEW n \in DOMAIN logs', n >= low PROVE Readable(logs'[n].bytes) \subseteq LogsFrom(logs', 0)
  BY DEF ReadFrom
<1>1. Readable(logs'[n].bytes) \subseteq Appended(logs'[n].bytes)
  BY ReadableNext
<1>2. n >= 0
  BY DEF LogsInv
<1> QED
  BY <1>1, <1>2 DEF LogsFrom

\* After a crash of an open store, nothing that was not shown but writes that have no good answer.
LEMMA CrashUp ==
    ASSUME QueueInv, StoreInv, LastInv, SeenInv, StoreInv', ProcessCrash \/ MachineCrash, phase = "up"
    PROVE  Covered(Recorded', Shown, Dead')
<1> DEFINE v == Replayed(manifests'[current'].edits)
<1>1. Dead \subseteq Dead' /\ Range(writers) \subseteq Dead'
  BY CrashDead DEF ProcessCrash, MachineCrash
<1>2. /\ TableRecs(tables') \subseteq TableRecs(tables)
      /\ LogsLess(logs', logs, {}) \/ (LogsLess(logs', logs, {job.rec}) /\ job.stage # "none")
  BY CrashLess
<1>3. Recorded' = RecsOf(tables', v.files) \cup ReadFrom(logs', v.log)
  BY RecordedNext
<1> HIDE DEF v
<1>4. RecsOf(tables', v.files) \subseteq TableRecs(tables)
  BY <1>2, RecsOfTables
<1>5. ReadFrom(logs', v.log) \subseteq LogsFrom(logs', 0)
  BY ReadFromLess DEF StoreInv
<1>6. LogsFrom(logs', 0) \subseteq InFlight \cup LogsFrom(logs, 0)
  BY <1>2, LogsFromLess DEF InFlight
<1>7. Recorded' \subseteq Stored \cup InFlight
  BY <1>3, <1>4, <1>5, <1>6 DEF Stored
<1>8. Covered(Stored, Shown, Dead')
  BY <1>1, CoveredMore DEF SeenInv, UpSeen
<1>9. Covered(InFlight, Shown, Dead')
  <2>1. CASE job.stage = "none"
    BY <2>1 DEF InFlight, Covered, WritesIn
  <2>2. CASE job.stage # "none"
    <3>1. Range(job.rec.ws) \subseteq Range(job.ws) /\ Range(job.ws) \subseteq Range(writers)
      BY <2>2, GroupQueued DEF LastInv, JobKept
    <3>2. WritesIn(InFlight) \subseteq Range(job.rec.ws)
      BY <2>2 DEF InFlight, WritesIn
    <3> QED
      BY <3>1, <3>2, <1>1 DEF Covered
  <2> QED
    BY <2>1, <2>2
<1>10. Covered(Stored \cup InFlight, Shown, Dead')
  BY <1>8, <1>9, CoveredCup
<1> QED
  BY <1>7, <1>10, CoveredMore

\* Any crash takes memory, and leaves CURRENT.
LEMMA CrashedIs ==
    ASSUME LoseMemory
    PROVE  phase' = "down" /\ bg' = IdleBg /\ current' = current /\ OpenSeen'
  BY DEF LoseMemory, OpenSeen

\* A crash of the process loses no byte of a file.
LEMMA ProcessSeen ==
    ASSUME QueueInv, StoreInv, FilesInv, FreshInv, LastInv, SeenInv, StoreInv', FilesInv', ProcessCrash
    PROVE  SeenInv' /\ (phase # "up" => Recorded' = Recorded)
<1> DEFINE m == manifests[current]
           v == Replayed(m.edits)
<1>1. /\ phase' = "down" /\ bg' = IdleBg /\ current' = current /\ OpenSeen'
      /\ tables' = tables /\ manifests' = manifests
  BY CrashedIs DEF ProcessCrash
<1>2. Dead \subseteq Dead'
  BY CrashDead DEF ProcessCrash
<1>3. CASE phase # "up"
  <2>1. job.stage = "none"
    BY <1>3 DEF FreshInv, DownInv
  <2>2. logs' = logs
    BY <2>1 DEF ProcessCrash
  <2>3. Recorded' = Recorded
    BY <1>1, <2>2 DEF Recorded
  <2>4. ASSUME NEW u, NEW w, CutWithin(tables, logs, u, w, Dead)
        PROVE  CutWithin(tables, logs, u, w, Dead')
    BY <2>4, <1>2, CoveredMore DEF CutWithin
  <2>5. CutSeen'
    BY <2>2, <2>4, <1>1 DEF SeenInv, CutSeen
  <2> QED
    BY <1>1, <2>3, <2>5, DownSeen
<1>4. CASE phase = "up"
  <2>1. m \in Manifests /\ current = manifest_file
    BY <1>4, UpIs
  <2>2. v.log \in Nat /\ v.log <= logfile /\ logfile \in Nat
    BY <1>4, <2>1, LastLog DEF LastInv
  <2>3. OldLogs(logs', logs, logfile)
    <3>1. CASE logs' = logs
      BY <3>1, OldLogsSame
    <3>2. CASE logs' # logs
      <4>1. PICK added : logs' = [logs EXCEPT ![logfile].bytes = @ \o added.bytes]
        BY <3>2 DEF ProcessCrash
      <4>2. DOMAIN logs' = DOMAIN logs /\ \A n \in DOMAIN logs : n # logfile => logs'[n] = logs[n]
        BY <4>1
      <4> QED
        BY <4>2 DEF OldLogs
    <3> QED
      BY <3>1, <3>2
  <2>4. DOMAIN logs' \subseteq Nat
    BY DEF StoreInv, LogsInv
  <2>5. ~Corrupt(m.edits) => \A k \in m.synced .. Len(m.edits) : CutWithin(tables, logs, VersionAt(m, k), v, Dead)
    BY DEF SeenInv, CutSeen
  <2>6. ~Corrupt(m.edits) => \A k \in m.synced .. Len(m.edits) : CutWithin(tables, logs', VersionAt(m, k), v, Dead')
    <3> HIDE DEF m, v
    <3> QED
      BY <1>2, <2>2, <2>3, <2>4, <2>5, CutsWithin
  <2>7. CutSeen'
    BY <1>1, <2>6 DEF CutSeen
  <2> QED
    BY <1>1, <1>4, <2>7, DownSeen
<1> QED
  BY <1>3, <1>4

\* A crash of the machine cuts files where they were not synced.
LEMMA MachineSeen ==
    ASSUME QueueInv, StoreInv, FilesInv, FreshInv, LastInv, SeenInv, StoreInv', FilesInv', MachineCrash
    PROVE  /\ SeenInv'
           /\ phase # "up" /\ ~Corrupt(manifests[current].edits) => Covered(Recorded', Recorded, Dead')
<1> DEFINE m == manifests[current]
           v == Replayed(m.edits)
<1>1. phase' = "down" /\ bg' = IdleBg /\ current' = current /\ OpenSeen'
  BY CrashedIs DEF MachineCrash
<1>2. Dead \subseteq Dead'
  BY CrashDead DEF MachineCrash
<1>3. m \in Manifests /\ current \in DOMAIN manifests /\ Recoverable(tables, m) /\ LogsInv
  BY DEF StoreInv, ManifestsInv, FilesInv, DiskInv
<1>4. PICK cut : /\ \A n \in DOMAIN manifests : cut[n] \in manifests[n].synced .. Len(manifests[n].edits)
                 /\ manifests' = [n \in DOMAIN manifests |-> [edits |-> SubSeq(manifests[n].edits, 1, cut[n]),
                                                              synced |-> cut[n]]]
  BY DEF MachineCrash
<1> DEFINE c == cut[current]
           m2 == [edits |-> SubSeq(m.edits, 1, c), synced |-> c]
           u == VersionAt(m, c)
<1>5. manifests'[current'] = m2 /\ c \in m.synced .. Len(m.edits)
  BY <1>1, <1>3, <1>4
<1>6. m2 \in Manifests
  BY <1>5 DEF StoreInv, ManifestsInv
<1>7. m2.synced = c /\ m2.edits = SubSeq(m.edits, 1, c) /\ Len(m2.edits) = c
  <2>1. m.edits \in Seq(EditRecords) /\ m.synced \in Nat
    BY <1>3 DEF Manifests
  <2>2. Len(SubSeq(m.edits, 1, c)) = c
    <3> HIDE DEF m, c
    <3> QED
      BY <1>5, <2>1
  <2> HIDE DEF m, c
  <2> QED
    BY <2>2
<1> HIDE DEF m2
<1>8. CutSeen'
  <2>1. m2.synced = Len(m2.edits)
    BY <1>7
  <2> QED
    BY <1>5, <1>6, <2>1, SyncedSeen
<1>9. SeenInv'
  BY <1>1, <1>8, DownSeen
<1>10. Replayed(m2.edits) = u
  BY <1>7 DEF VersionAt
<1>11. PICK k : /\ \A n \in DOMAIN logs : k[n] \in logs[n].synced .. Len(logs[n].bytes)
                /\ logs' = [n \in DOMAIN logs |-> [bytes |-> SubSeq(logs[n].bytes, 1, k[n]), synced |-> k[n]]]
  BY DEF MachineCrash
<1>12. ASSUME NEW n \in DOMAIN logs'
       PROVE  /\ n \in DOMAIN logs
              /\ Readable(logs'[n].bytes) \subseteq Readable(logs[n].bytes)
              /\ Readable(logs'[n].bytes) \subseteq Appended(logs[n].bytes)
  <2> DEFINE a == logs[n].bytes
             d == k[n]
  <2>1. n \in DOMAIN logs /\ logs'[n].bytes = SubSeq(a, 1, d)
    BY <1>11
  <2>2. a \in Seq(BytesOf(LogParts)) /\ logs[n].synced \in Nat /\ d \in logs[n].synced .. Len(a)
    BY <1>3, <1>11, <2>1 DEF LogsInv, LogFiles
  <2> HIDE DEF a, d
  <2>3. d \in 0 .. Len(a)
    BY <2>2
  <2>4. Readable(SubSeq(a, 1, d)) \subseteq Readable(a)
    BY <2>2, <2>3, SizeIs, CutReadable DEF LogParts
  <2>5. Readable(a) \subseteq Appended(a)
    BY <1>3, <2>1, ReadableAppended DEF a
  <2> QED
    BY <2>1, <2>4, <2>5 DEF a
<1>13. RecsOf(tables', u.files) \subseteq RecsOf(tables, u.files)
  <2>1. Held(tables, u.files)
    BY <1>3, <1>5 DEF Recoverable, VersionAt
  <2>2. TablesLess(tables', tables)
    BY CrashLess
  <2> QED
    BY <2>1, <2>2, RecsOfLess
<1>14. Recorded' = RecsOf(tables', u.files) \cup ReadFrom(logs', u.log)
  BY <1>5, <1>10, RecordedNext
<1>15. Recorded = RecsOf(tables, v.files) \cup ReadFrom(logs, v.log)
  BY RecordedIs
<1>16. v.log \in Nat /\ u.log \in Nat /\ DOMAIN logs \subseteq Nat
  <2>1. u.log \in Nat
    <3> HIDE DEF m, c
    <3> QED
      BY <1>3, <1>5, VersionLog DEF u
  <2>2. Len(m.edits) \in m.synced .. Len(m.edits) /\ VersionAt(m, Len(m.edits)) = v
    BY <1>3, LastCut
  <2>3. v.log \in Nat
    <3> HIDE DEF m
    <3> QED
      BY <1>3, <2>2, VersionLog
  <2> QED
    BY <1>3, <2>1, <2>3 DEF LogsInv
<1>17. ASSUME ~Corrupt(m.edits)
       PROVE  Covered(Recorded', Recorded, Dead')
  <2>1. CutWithin(tables, logs, u, v, Dead)
    BY <1>5, <1>17 DEF SeenInv, CutSeen
  <2> HIDE DEF u, v, m
  <2>2. RecsOf(tables', u.files) \subseteq Recorded
    BY <1>13, <1>15, <2>1 DEF CutWithin
  <2>3. ASSUME NEW n \in DOMAIN logs', n >= u.log
        PROVE  WritesIn(Readable(logs'[n].bytes)) \subseteq WritesIn(Recorded) \cup Dead'
    <3>1. n \in DOMAIN logs /\ n \in Nat
      BY <1>12, <1>16
    <3>2. CASE n >= v.log
      <4>1. Readable(logs[n].bytes) \subseteq Recorded
        BY <3>1, <3>2, <1>15 DEF ReadFrom
      <4>2. Readable(logs'[n].bytes) \subseteq Recorded
        BY <4>1, <1>12
      <4> QED
        BY <4>2, WritesInMore
    <3>3. CASE ~(n >= v.log)
      <4>1. u.log <= n /\ n < v.log
        BY <3>1, <3>3, <2>3, <1>16
      <4>2. Covered(Appended(logs[n].bytes), RecsOf(tables, v.files), Dead)
        BY <2>1, <3>1, <4>1 DEF CutWithin
      <4>3. Readable(logs'[n].bytes) \subseteq Appended(logs[n].bytes) /\ RecsOf(tables, v.files) \subseteq Recorded
        BY <1>12, <1>15
      <4>4. Covered(Readable(logs'[n].bytes), Recorded, Dead')
        BY <4>2, <4>3, <1>2, CoveredMore
      <4> QED
        BY <4>4 DEF Covered
    <3> QED
      BY <3>2, <3>3
  <2>4. Covered(ReadFrom(logs', u.log), Recorded, Dead')
    BY <2>3 DEF Covered, ReadFrom, WritesIn
  <2>5. Covered(RecsOf(tables', u.files), Recorded, Dead')
    BY <2>2, CoveredSub
  <2>6. Covered(RecsOf(tables', u.files) \cup ReadFrom(logs', u.log), Recorded, Dead')
    BY <2>4, <2>5, CoveredCup
  <2> QED
    BY <2>6, <1>14
<1> QED
  BY <1>9, <1>17

-----------------------------------------------------------------------------
(* All steps. *)

\* The files that the store starts with show all they have.
LEMMA InitSeen == Init => SeenInv
<1> SUFFICES ASSUME Init PROVE SeenInv
  OBVIOUS
<1>1. phase = "down" /\ bg.stage = "idle" /\ current = 1
  BY DEF Init, IdleBg
<1>2. CutSeen
  <2> DEFINE m == manifests[current]
  <2>1. LogsInv /\ m \in Manifests
    BY InitStore DEF StoreInv, ManifestsInv
  <2>2. m.synced = Len(m.edits)
    <3>1. PICK start \in Starts :
            manifests = [n \in {1} |-> [edits  |-> <<[add |-> start.files, del |-> {}, log |-> 0,
                                                      next |-> Max({1} \cup Numbers(start.files)) + 1, last |-> 0]>>,
                                        synced |-> 1]]
      BY DEF Init
    <3> DEFINE e == [add |-> start.files, del |-> {}, log |-> 0, next |-> Max({1} \cup Numbers(start.files)) + 1, last |-> 0]
               s == <<e>>
               f == [edits |-> s, synced |-> 1]
    <3>2. m = f
      BY <1>1, <3>1
    <3>3. f.edits = s /\ f.synced = 1 /\ Len(s) = 1
      OBVIOUS
    <3> HIDE DEF f, s, m
    <3> QED
      BY <3>2, <3>3
  <2> DEFINE v == Replayed(m.edits)
  <2>3. VersionAt(m, Len(m.edits)) = v /\ v.log \in Nat
    <3> HIDE DEF m
    <3>1. Len(m.edits) \in m.synced .. Len(m.edits) /\ VersionAt(m, Len(m.edits)) = Replayed(m.edits)
      BY <2>1, LastCut
    <3> QED
      BY <2>1, <3>1, VersionLog
  <2>4. \A k \in m.synced .. Len(m.edits) : k = Len(m.edits)
    <3>1. Len(m.edits) \in Nat
      BY <2>1 DEF Manifests
    <3> QED
      BY <2>2, <3>1
  <2>5. CutWithin(tables, logs, v, v, Dead)
    <3>1. DOMAIN logs \subseteq Nat
      BY <2>1 DEF LogsInv
    <3> HIDE DEF v
    <3> QED
      BY <2>3, <3>1, CutSelf
  <2> HIDE DEF m
  <2> QED
    BY <2>3, <2>4, <2>5 DEF CutSeen, m, v
<1> QED
  BY <1>1, <1>2 DEF SeenInv, OpenSeen, UpSeen, LogsSeen, LogSeen, EditSeen

\* What all steps keep.
StandingInv == QueueInv /\ StoreInv /\ FilesInv /\ FreshInv /\ LastInv

\* What is known of a step.
StepInv == StandingInv /\ SeenInv /\ StoreInv' /\ FilesInv'

\* Every step keeps SeenInv,
LEMMA NextSeen == StandingInv /\ SeenInv /\ [Next]_vars => SeenInv'
<1> SUFFICES ASSUME StandingInv, SeenInv, [Next]_vars PROVE SeenInv'
  OBVIOUS
<1>1. QueueInv /\ StoreInv /\ FilesInv /\ FreshInv /\ LastInv /\ StoreInv' /\ FilesInv'
  BY NextStore, NextFiles DEF StandingInv
<1>2. ASSUME NEW w \in Writes, Write(w) \/ LeadWrite(w) PROVE SeenInv'
  BY <1>1, <1>2, CallsSeen, SwitchSeen DEF LeadWrite
<1>3. CASE GoOnWriting
  BY <1>1, <1>3, JobSeen, EndWriteSeen DEF GoOnWriting
<1>4. CASE Background
  BY <1>1, <1>4, TableSeen, MergeSeen, ManifestSeen, InstallSeen DEF Background
<1>5. CASE OpenIterator \/ CloseIterator
  BY <1>1, <1>5, IteratorSeen
<1>6. CASE Open
  BY <1>1, <1>6, OpenFailsSeen, RecoverSeen, OpenInstallSeen, OpenEndsSeen DEF Open
<1>7. CASE ProcessCrash \/ MachineCrash
  BY <1>1, <1>7, ProcessSeen, MachineSeen
<1>8. CASE UNCHANGED vars
  <2>1. UNCHANGED <<phase, pc, mem, imm, logfile, version, job, manifest_file, current, manifests, tables, logs, bg>>
    BY <1>8 DEF vars, callVars, memVars, versionVars, bgVars, diskVars, history
  <2>2. Dead' = Dead /\ ImmRecs' = ImmRecs /\ Shown' = Shown /\ InFlight' = InFlight /\ Stored' = Stored
        /\ Recorded' = Recorded
    BY <2>1 DEF Dead, ImmRecs, Shown, InMemory, InFlight, Stored, Recorded
  <2>3. CutSeen' /\ OpenSeen'
    BY <2>1, <2>2 DEF SeenInv, CutSeen, OpenSeen
  <2>4. UpSeen' /\ LogsSeen' /\ LogSeen' /\ EditSeen'
    BY <2>1, <2>2 DEF SeenInv, UpSeen, LogsSeen, LogSeen, EditSeen
  <2> QED
    BY <2>3, <2>4 DEF SeenInv
<1> QED
  BY <1>2, <1>3, <1>4, <1>5, <1>6, <1>7, <1>8 DEF Next

\* so that it always holds.
LEMMA SeenAlways == Spec => [](StandingInv /\ SeenInv)
<1>1. Init => SeenInv
  BY InitSeen
<1>2. StandingInv /\ SeenInv /\ [Next]_vars => SeenInv'
  BY NextSeen
<1>3. Spec => []StandingInv
  BY LastAlways DEF StandingInv
<1> QED
  BY <1>1, <1>2, <1>3, PTL DEF Spec

-----------------------------------------------------------------------------
(* The refinement of AtomicStore *)

\* Where a call stands, as AtomicStore has it,
StageOf == [w \in Writes |-> CASE pc[w] = "none" -> "new"
                               [] pc[w] \in {"queued", "waiting", "leading"} -> "called"
                               [] OTHER -> pc[w]]

\* and whether the store cannot be opened.
Ruined == phase # "up" /\ CannotOpen

\* Both, and what is read, in the terms of the invariants: StageOf by cases,
LEMMA StageIs ==
  \A w \in Writes : StageOf[w] = IF pc[w] = "none" THEN "new"
                                 ELSE IF pc[w] \in {"queued", "waiting", "leading"} THEN "called" ELSE pc[w]
  BY DEF StageOf

\* also after a step;
LEMMA StageNext ==
  \A w \in Writes : StageOf'[w] = IF pc'[w] = "none" THEN "new"
                                  ELSE IF pc'[w] \in {"queued", "waiting", "leading"} THEN "called" ELSE pc'[w]
  BY DEF StageOf

\* what is read is what an open store shows, else what recovery finds,
LEMMA VisibleIs ==
  LogsInv => Visible = WritesIn(IF phase = "up" THEN Shown ELSE Recorded)
<1> SUFFICES ASSUME LogsInv PROVE Visible = WritesIn(IF phase = "up" THEN Shown ELSE Recorded)
  OBVIOUS
<1>1. OnDisk = Recorded
  BY OnDiskIs
<1>2. phase = "up" => Contents = Shown
  BY DEF Contents, Shown, InMemory, RecordsIn, RecsOf
<1>3. phase # "up" => Contents = Recorded
  BY <1>1 DEF Contents
<1> QED
  BY <1>2, <1>3 DEF Visible, WritesIn

\* also after a step;
LEMMA VisibleNext == LogsInv' => Visible' = WritesIn(IF phase' = "up" THEN Shown' ELSE Recorded')
<1>1. (LogsInv => Visible = WritesIn(IF phase = "up" THEN Shown ELSE Recorded))'
  BY VisibleIs, PTL
<1> QED
  BY <1>1

\* only a torn record inside the MANIFEST keeps a store from being opened,
LEMMA RuinedIs == StoreInv /\ FilesInv => Ruined = (phase # "up" /\ Corrupt(manifests[current].edits))
<1> SUFFICES ASSUME StoreInv, FilesInv PROVE Ruined = (phase # "up" /\ Corrupt(manifests[current].edits))
  OBVIOUS
<1> DEFINE m == manifests[current]
<1>1. m \in Manifests /\ Recoverable(tables, m)
  BY DEF StoreInv, ManifestsInv, FilesInv, DiskInv
<1> HIDE DEF m
<1>2. Held(tables, Replayed(m.edits).files)
  BY <1>1, RecoverableLast
<1>3. Numbers(Replayed(m.edits).files) \subseteq DOMAIN tables
  BY <1>2 DEF Held
<1> QED
  BY <1>3 DEF Ruined, CannotOpen, m

\* also after a step.
LEMMA RuinedNext == StoreInv' /\ FilesInv' => Ruined' = (phase' # "up" /\ Corrupt(manifests'[current'].edits))
<1>1. (StoreInv /\ FilesInv => Ruined = (phase # "up" /\ Corrupt(manifests[current].edits)))'
  BY RuinedIs, PTL
<1> QED
  BY <1>1

\* The steps of AtomicStore, of the state that is shown.
LEMMA StutterIs ==
    ASSUME StageOf' = StageOf, Visible' = Visible, UNCHANGED <<kept, safe>>, Ruined' = Ruined
    PROVE  UNCHANGED Atomic!vars
  BY DEF Atomic!vars, StageOf, Ruined

\* A store that cannot be read may do anything;
LEMMA RuinIs == ASSUME Ruined \/ Ruined' PROVE Atomic!Next
  BY DEF Atomic!Next, Atomic!Ruin, Ruined

\* a call begins;
LEMMA CallIs ==
    ASSUME NEW w \in Writes, StageOf[w] = "new", StageOf' = [StageOf EXCEPT ![w] = "called"],
           Visible' = Visible, UNCHANGED <<kept, safe>>, Ruined' = Ruined
    PROVE  Atomic!Next
<1>1. Atomic!Call(w)
  BY DEF Atomic!Call, StageOf, Ruined
<1> QED
  BY <1>1 DEF Atomic!Next

\* The writes S return together.
Returned(S, answer) ==
  /\ S # {} /\ S \subseteq Writes
  /\ \A w \in S : StageOf[w] = "called" /\ StageOf'[w] = answer
  /\ \A w \in Writes \ S : StageOf'[w] = StageOf[w]

\* Those are the writes that AtomicStore sees return:
LEMMA ReturnedIs ==
    ASSUME NEW S, NEW answer, answer # "called", Returned(S, answer)
    PROVE  { w \in Writes : StageOf'[w] # StageOf[w] } = S /\ Atomic!Return(answer)
<1>1. \A w \in Writes : StageOf'[w] # StageOf[w] <=> w \in S
  BY DEF Returned
<1>2. { w \in Writes : StageOf'[w] # StageOf[w] } = S
  BY <1>1 DEF Returned
<1>3. Atomic!Return(answer)
  <2>1. LET T == { w \in Writes : StageOf'[w] # StageOf[w] }
        IN  T # {} /\ \A w \in T : StageOf[w] = "called" /\ StageOf'[w] = answer
    BY <1>2 DEF Returned
  <2> QED
    BY <2>1 DEF Atomic!Return, StageOf
<1> QED
  BY <1>2, <1>3

\* with an error, and nothing is seen of them;
LEMMA FailIs ==
    ASSUME NEW S, Returned(S, "error"), Visible' = Visible, UNCHANGED <<kept, safe>>, Ruined' = Ruined
    PROVE  Atomic!Next
<1>1. Atomic!Return("error")
  BY ReturnedIs
<1>2. Atomic!Fail
  BY <1>1 DEF Atomic!Fail, StageOf, Ruined
<1> QED
  BY <1>2 DEF Atomic!Next

\* with a good answer, and nothing else changes of what is seen or kept;
LEMMA SucceedIs ==
    ASSUME NEW S, Returned(S, "ok"), Visible \subseteq Visible', Visible' \ Visible \subseteq S,
           kept \subseteq kept', kept' \ kept \subseteq S, safe \subseteq safe', safe' \ safe \subseteq S, Ruined' = Ruined
    PROVE  Atomic!Next
<1>1. Atomic!Return("ok") /\ { w \in Writes : StageOf'[w] # StageOf[w] } = S
  BY ReturnedIs
<1>2. LET T == { w \in Writes : StageOf'[w] # StageOf[w] }
      IN  /\ kept  \subseteq kept'  /\ kept'  \ kept  \subseteq T
          /\ safe  \subseteq safe'  /\ safe'  \ safe  \subseteq T
          /\ Visible \subseteq Visible' /\ Visible' \ Visible \subseteq T
  BY <1>1
<1>3. Atomic!Succeed
  BY <1>1, <1>2 DEF Atomic!Succeed, StageOf, Ruined
<1> QED
  BY <1>3 DEF Atomic!Next

\* or, in a crash, without an answer.
LEMMA CrashIs ==
    ASSUME StageOf' = [w \in Writes |-> IF StageOf[w] = "called" THEN "lost" ELSE StageOf[w]],
           Visible' \subseteq Visible \cup { w \in Writes : StageOf'[w] \in {"error", "lost"} },
           safe \subseteq Visible', (kept \subseteq Visible' /\ UNCHANGED kept) \/ kept' = safe,
           safe' = safe, Ruined' = Ruined
    PROVE  Atomic!Next
<1>1. Atomic!Crash
  BY DEF Atomic!Crash, StageOf, Ruined
<1> QED
  BY <1>1 DEF Atomic!Next

\* The writers in the queue are in their calls.
LEMMA QueuedCalled ==
    ASSUME QueueInv
    PROVE  /\ Range(writers) \subseteq Writes
           /\ \A w \in Writes : w \in Range(writers) => StageOf[w] = "called"
<1>1. \A w \in Writes : w \in Range(writers) => pc[w] \in {"queued", "waiting", "leading"}
  BY DEF QueueInv, QueueOK
<1>2. Range(writers) \subseteq Writes
  <2>1. writers \in Seq(Writes)
    BY DEF QueueInv, TypeOK
  <2> QED
    BY <2>1 DEF Range
<1> QED
  BY <1>1, <1>2, StageIs

\* Finish lets writers of the queue return.
LEMMA FinishReturned ==
    ASSUME QueueInv, NEW ws, Range(ws) \subseteq Range(writers), Range(ws) # {},
           NEW answer \in {"ok", "error"}, Finish(ws, answer)
    PROVE  Returned(Range(ws), answer)
<1>1. \A w \in Writes : pc'[w] = IF w \in Range(ws) THEN answer ELSE pc[w]
  BY DEF Finish
<1>2. \A w \in Writes : StageOf'[w] = IF w \in Range(ws) THEN answer ELSE StageOf[w]
  BY <1>1, StageIs, StageNext
<1> QED
  BY <1>2, QueuedCalled DEF Returned

\* Writers that wait, are woken or start to write are called as before.
LEMMA StageStays ==
    ASSUME \A w \in Writes : pc'[w] = pc[w] \/ {pc[w], pc'[w]} \subseteq {"queued", "waiting", "leading"}
    PROVE  StageOf' = StageOf
<1>1. \A w \in Writes : StageOf'[w] = StageOf[w]
  BY StageIs, StageNext
<1> QED
  BY <1>1 DEF StageOf

\* While the store is open, what it shows is what memory and the version have.
LEMMA UpShows ==
    ASSUME StepInv, phase = "up", phase' = "up"
    PROVE  Visible = WritesIn(Shown) /\ Visible' = WritesIn(Shown') /\ Ruined' = Ruined
<1>1. LogsInv /\ LogsInv'
  BY DEF StepInv, StandingInv, StoreInv
<1>2. Ruined = FALSE /\ Ruined' = FALSE
  BY DEF Ruined
<1> QED
  BY <1>1, <1>2, VisibleIs, VisibleNext

\* A step of an open store that changes neither that nor a call is none of AtomicStore.
LEMMA UpStutters ==
    ASSUME StepInv, phase = "up", phase' = "up", Shown' = Shown, StageOf' = StageOf, UNCHANGED <<kept, safe>>
    PROVE  UNCHANGED Atomic!vars
<1>1. Visible' = Visible /\ Ruined' = Ruined
  BY UpShows
<1> QED
  BY <1>1, StutterIs

\* A call begins: Call.
LEMMA CallRefines ==
    ASSUME StepInv, NEW w \in Writes, Write(w)
    PROVE  Atomic!Next
<1>1. phase = "up" /\ phase' = "up" /\ pc[w] = "new" /\ pc' = [pc EXCEPT ![w] = "queued"] /\ UNCHANGED <<kept, safe>>
  BY DEF Write, history
<1>2. Shown' = Shown
  BY CallsSeen DEF StepInv, StandingInv
<1>3. \A x \in Writes : pc'[x] = IF x = w THEN "queued" ELSE pc[x]
  BY <1>1 DEF StepInv, StandingInv, QueueInv, TypeOK
<1>4. StageOf[w] = "new" /\ StageOf' = [StageOf EXCEPT ![w] = "called"]
  <2>1. \A x \in Writes : StageOf'[x] = IF x = w THEN "called" ELSE StageOf[x]
    BY <1>3, StageIs, StageNext
  <2>2. StageOf[w] = "new"
    BY <1>1, StageIs
  <2> QED
    BY <2>1, <2>2 DEF StageOf
<1>5. Visible' = Visible /\ Ruined' = Ruined
  BY <1>1, <1>2, UpShows
<1> QED
  BY <1>1, <1>4, <1>5, CallIs

\* The first writer: the write is refused (Fail), or it stutters.
LEMMA LeadRefines ==
    ASSUME StepInv, NEW w \in Writes, LeadWrite(w)
    PROVE  Atomic!Next \/ UNCHANGED Atomic!vars
<1>1. /\ QueueInv /\ Leads(w) /\ phase = "up" /\ phase' = "up" /\ pc[w] = "queued" /\ UNCHANGED <<kept, safe>>
      /\ pc \in [Writes -> {"none", "new", "queued", "waiting", "leading", "ok", "error", "lost"}]
  BY DEF LeadWrite, RefuseWrite, WaitForRoom, WriteToMem, NoNewLog, SwitchMem, Leads, history,
         StepInv, StandingInv, QueueInv, TypeOK
<1>2. Shown' = Shown
  BY CallsSeen, SwitchSeen DEF StepInv, StandingInv, LeadWrite
<1>3. Visible' = Visible /\ Ruined' = Ruined
  BY <1>1, <1>2, UpShows
<1>4. Range(<<w>>) \subseteq Range(writers) /\ Range(<<w>>) # {}
  <2>1. w \in Range(<<w>>)
    BY DEF Range
  <2> QED
    BY <2>1, <1>1, LeadQueued
<1>5. CASE Finish(<<w>>, "error")
  <2>1. Returned(Range(<<w>>), "error")
    BY <1>1, <1>4, <1>5, FinishReturned
  <2> QED
    BY <2>1, <1>1, <1>3, FailIs
<1>6. CASE Finish(<<w>>, "ok")
  <2>1. Returned(Range(<<w>>), "ok")
    BY <1>1, <1>4, <1>6, FinishReturned
  <2> QED
    BY <2>1, <1>1, <1>3, SucceedIs
<1>7. CASE \E answer \in {"waiting", "leading"} : pc' = [pc EXCEPT ![w] = answer]
  <2>1. StageOf' = StageOf
    BY <1>1, <1>7, StageStays
  <2> QED
    BY <2>1, <1>1, <1>2, UpStutters
<1>8. Finish(<<w>>, "error") \/ Finish(<<w>>, "ok")
        \/ \E answer \in {"waiting", "leading"} : pc' = [pc EXCEPT ![w] = answer]
  BY DEF LeadWrite, RefuseWrite, WaitForRoom, WriteToMem, NoNewLog, SwitchMem, StartGroup
<1> QED
  BY <1>5, <1>6, <1>7, <1>8

\* A write ends: its group returns, all Succeed or all Fail.
LEMMA EndWriteRefines ==
    ASSUME StepInv, EndWrite
    PROVE  Atomic!Next
<1> DEFINE S == Range(job.ws)
<1>1. QueueInv /\ phase = "up" /\ phase' = "up" /\ job.stage # "none"
  BY DEF EndWrite, StepInv, StandingInv
<1>2. Shown' = Shown \cup IF job.stage = "insert" THEN {job.rec} ELSE {}
  BY EndWriteSeen DEF StepInv, StandingInv
<1>3. Visible = WritesIn(Shown) /\ Visible' = WritesIn(Shown') /\ Ruined' = Ruined
  BY <1>1, UpShows
<1>4. S \subseteq Range(writers) /\ S # {}
  <2>1. Len(job.ws) \in 1 .. Len(writers) /\ job.ws \in Seq(Writes) /\ writers \in Seq(Writes)
    BY <1>1 DEF QueueInv, QueueOK, TypeOK
  <2>2. 1 \in DOMAIN job.ws
    BY <2>1
  <2>3. job.ws[1] \in S
    BY <2>2 DEF Range
  <2> QED
    BY <2>3, <1>1, GroupQueued
<1>5. CASE job.stage # "insert"
  <2>1. Finish(job.ws, "error") /\ UNCHANGED <<kept, safe>>
    BY <1>5 DEF EndWrite
  <2>2. Returned(S, "error")
    BY <2>1, <1>1, <1>4, FinishReturned
  <2>3. Visible' = Visible
    BY <1>2, <1>3, <1>5
  <2> QED
    BY <2>1, <2>2, <2>3, <1>3, FailIs
<1>6. CASE job.stage = "insert"
  <2>1. /\ Finish(job.ws, "ok")
        /\ kept' = kept \cup IF logfile \notin broken THEN Range(job.rec.ws) ELSE {}
        /\ safe' = safe \cup IF logfile \notin broken THEN Range(job.rec.ws) \cap Syncs ELSE {}
    BY <1>6 DEF EndWrite
  <2>2. Range(job.rec.ws) \subseteq S
    BY <1>1 DEF StepInv, StandingInv, LastInv, JobKept
  <2>3. Returned(S, "ok")
    BY <2>1, <1>1, <1>4, FinishReturned
  <2>4. Visible' = Visible \cup Range(job.rec.ws)
    <3>1. Shown' = Shown \cup {job.rec}
      BY <1>2, <1>6
    <3>2. WritesIn({job.rec}) = Range(job.rec.ws)
      BY DEF WritesIn
    <3> QED
      BY <3>1, <3>2, <1>3, WritesInCup
  <2> HIDE DEF S
  <2>5. kept \subseteq kept' /\ kept' \ kept \subseteq S /\ safe \subseteq safe' /\ safe' \ safe \subseteq S
    BY <2>1, <2>2
  <2>6. Visible \subseteq Visible' /\ Visible' \ Visible \subseteq S
    BY <2>2, <2>4
  <2> QED
    BY <2>3, <2>5, <2>6, <1>3, SucceedIs
<1> QED
  BY <1>5, <1>6

\* The log, the background thread and iterators: nothing that AtomicStore sees.
LEMMA WorkRefines ==
    ASSUME StepInv,
           AppendRecord \/ AppendFails \/ SyncLog \/ SyncFails \/ Background \/ OpenIterator \/ CloseIterator
    PROVE  UNCHANGED Atomic!vars
<1>1. Shown' = Shown
  BY JobSeen, IteratorSeen, TableSeen, MergeSeen, ManifestSeen, InstallSeen DEF Background, StepInv, StandingInv
<1>2. phase = "up" /\ phase' = "up" /\ UNCHANGED <<kept, safe>> /\ (pc' = pc \/ pc' = Woken)
  <2>1. CASE AppendRecord \/ AppendFails \/ SyncLog \/ SyncFails \/ OpenIterator \/ CloseIterator
    BY <2>1 DEF AppendRecord, AppendFails, SyncLog, SyncFails, OpenIterator, CloseIterator, history, callVars
  <2>2. CASE NothingToDo \/ TableFails \/ MergeFails
    BY <2>2 DEF NothingToDo, TableFails, MergeFails, AbandonMerge, EndImm, EndBackground, history, callVars
  <2>3. CASE StartTable \/ FinishTable \/ StartMove \/ StartMerge \/ FinishMerge \/ WriteManifest
    BY <2>3 DEF StartTable, FinishTable, StartMove, MayCompact, StartMerge, FinishMerge, WriteManifest, history, callVars
  <2>4. CASE ManifestFails
    BY <2>4 DEF ManifestFails, AbandonMerge, EndImm, EndBackground, history
  <2>5. CASE InstallVersion
    <3>1. phase = "up" /\ phase' = "up" /\ UNCHANGED history
      BY <2>5 DEF InstallVersion
    <3>2. pc' = Woken
      BY <2>5 DEF InstallVersion, EndImm, EndBackground
    <3> QED
      BY <3>1, <3>2 DEF history
  <2> QED
    BY <2>1, <2>2, <2>3, <2>4, <2>5 DEF Background
<1>3. \A w \in Writes : pc'[w] = pc[w] \/ {pc[w], pc'[w]} \subseteq {"queued", "waiting", "leading"}
  BY <1>2 DEF Woken
<1> QED
  BY <1>1, <1>2, <1>3, StageStays, UpStutters

\* What was acknowledged is found.
LEMMA KeptRecorded ==
  StoreInv /\ LastInv /\ ~Corrupt(manifests[current].edits) => safe \subseteq kept /\ kept \subseteq WritesIn(Recorded)
<1> SUFFICES ASSUME StoreInv, LastInv, ~Corrupt(manifests[current].edits)
             PROVE  safe \subseteq kept /\ kept \subseteq WritesIn(Recorded)
  OBVIOUS
<1> DEFINE v == Replayed(manifests[current].edits)
<1>1. safe \subseteq kept /\ kept \subseteq WritesIn(FoundAt(tables, v, LastingIn(logs)))
  BY DEF LastInv, KeptInv, DiskKeeps
<1>2. LogsInv /\ Recorded = FoundAt(tables, v, ReadIn(logs))
  BY DEF StoreInv, Recorded
<1> HIDE DEF v
<1>3. ASSUME NEW n \in DOMAIN logs
      PROVE  LastingIn(logs)[n] \subseteq ReadIn(logs)[n]
  <2>1. logs[n].bytes \in Seq(BytesOf(LogParts))
    BY <1>2 DEF LogsInv, LogFiles
  <2> QED
    BY <2>1, LastingReadable DEF LastingIn, ReadIn
<1>4. DOMAIN LastingIn(logs) = DOMAIN logs /\ DOMAIN ReadIn(logs) = DOMAIN logs
  BY DEF LastingIn, ReadIn
<1>5. FoundAt(tables, v, LastingIn(logs)) \subseteq FoundAt(tables, v, ReadIn(logs))
  BY <1>3, <1>4 DEF FoundAt
<1> QED
  BY <1>1, <1>2, <1>5, WritesInMore

\* Also after a step.
LEMMA KeptRecordedNext ==
  StoreInv' /\ LastInv' /\ ~Corrupt(manifests'[current'].edits) => safe' \subseteq kept' /\ kept' \subseteq WritesIn(Recorded')
<1>1. (StoreInv /\ LastInv /\ ~Corrupt(manifests[current].edits) => safe \subseteq kept /\ kept \subseteq WritesIn(Recorded))'
  BY KeptRecorded, PTL
<1> QED
  BY <1>1

\* A crash: Crash, or Ruin when the MANIFEST is torn inside.
LEMMA CrashRefines ==
    ASSUME StepInv, LastInv', ProcessCrash \/ MachineCrash
    PROVE  Atomic!Next
<1>1. CASE Ruined \/ Ruined'
  BY <1>1, RuinIs
<1>2. CASE ~Ruined /\ ~Ruined'
  <2>1. /\ QueueInv /\ StoreInv /\ FilesInv /\ FreshInv /\ LastInv /\ SeenInv /\ StoreInv' /\ FilesInv'
        /\ LogsInv /\ LogsInv'
    BY DEF StepInv, StandingInv, StoreInv
  <2>2. LoseMemory /\ phase' = "down" /\ safe' = safe
    BY DEF ProcessCrash, MachineCrash, LoseMemory
  <2>3. ~Corrupt(manifests'[current'].edits)
    BY <1>2, <2>1, <2>2, RuinedNext
  <2>4. phase # "up" => ~Corrupt(manifests[current].edits)
    BY <1>2, <2>1, RuinedIs
  <2>5. Visible = WritesIn(IF phase = "up" THEN Shown ELSE Recorded) /\ Visible' = WritesIn(Recorded')
    BY <2>1, <2>2, VisibleIs, VisibleNext
  <2>6. StageOf' = [w \in Writes |-> IF StageOf[w] = "called" THEN "lost" ELSE StageOf[w]]
    <3>1. \A w \in Writes : pc'[w] = IF pc[w] \in {"queued", "waiting", "leading"} THEN "lost" ELSE pc[w]
      BY <2>2 DEF LoseMemory
    <3>2. \A w \in Writes : pc[w] # "called"
      BY <2>1 DEF QueueInv, TypeOK
    <3>3. \A w \in Writes : StageOf'[w] = IF StageOf[w] = "called" THEN "lost" ELSE StageOf[w]
      BY <3>1, <3>2, StageIs, StageNext
    <3> QED
      BY <3>3 DEF StageOf
  <2>7. { w \in Writes : StageOf'[w] \in {"error", "lost"} } = Dead'
    BY StageNext DEF Dead
  <2>8. Visible' \subseteq Visible \cup Dead'
    <3>1. CASE phase = "up"
      <4>1. Covered(Recorded', Shown, Dead')
        BY <2>1, <3>1, CrashUp
      <4> QED
        BY <4>1, <2>5, <3>1 DEF Covered
    <3>2. CASE phase # "up" /\ ProcessCrash
      <4>1. Recorded' = Recorded
        BY <2>1, <3>2, ProcessSeen
      <4> QED
        BY <4>1, <2>5, <3>2
    <3>3. CASE phase # "up" /\ MachineCrash
      <4>1. Covered(Recorded', Recorded, Dead')
        BY <2>1, <2>4, <3>3, MachineSeen
      <4> QED
        BY <4>1, <2>5, <3>3 DEF Covered
    <3> QED
      BY <3>1, <3>2, <3>3
  <2>9. safe' \subseteq kept' /\ kept' \subseteq Visible'
    BY <2>1, <2>3, <2>5, KeptRecordedNext
  <2>10. (kept \subseteq Visible' /\ UNCHANGED kept) \/ kept' = safe
    BY <2>9 DEF ProcessCrash, MachineCrash
  <2>11. Ruined' = Ruined
    BY <1>2, <2>1, RuinedIs, RuinedNext
  <2> QED
    BY <2>2, <2>6, <2>7, <2>8, <2>9, <2>10, <2>11, CrashIs
<1> QED
  BY <1>1, <1>2

\* Recovery: nothing that AtomicStore sees, or Ruin.
LEMMA OpenRefines ==
    ASSUME StepInv, Open
    PROVE  Atomic!Next \/ UNCHANGED Atomic!vars
<1>1. CASE Ruined \/ Ruined'
  BY <1>1, RuinIs
<1>2. CASE ~Ruined /\ ~Ruined'
  <2>1. /\ QueueInv /\ StoreInv /\ FilesInv /\ FreshInv /\ LastInv /\ SeenInv /\ StoreInv' /\ FilesInv'
        /\ LogsInv /\ LogsInv'
    BY DEF StepInv, StandingInv, StoreInv
  <2>2. phase # "up" /\ pc' = pc /\ UNCHANGED <<kept, safe>>
    BY DEF Open, OpenFails, OpenRecover, OpenInstall, OpenEnds, callVars, history
  <2>3. IF phase' = "up" THEN Shown' = Recorded ELSE Recorded' = Recorded
    <3>1. CASE OpenFails
      BY <3>1, <2>1, OpenFailsSeen DEF OpenFails
    <3>2. CASE OpenRecover
      BY <3>2, <2>1, RecoverSeen DEF OpenRecover
    <3>3. CASE OpenInstall
      BY <3>3, <2>1, OpenInstallSeen DEF OpenInstall
    <3>4. CASE OpenEnds
      BY <3>4, <2>1, OpenEndsSeen DEF OpenEnds
    <3> QED
      BY <3>1, <3>2, <3>3, <3>4 DEF Open
  <2>4. Visible' = Visible
    BY <2>1, <2>2, <2>3, VisibleIs, VisibleNext
  <2>5. StageOf' = StageOf
    BY <2>2, StageStays
  <2>6. Ruined' = Ruined
    BY <1>2, <2>1, RuinedIs, RuinedNext
  <2> QED
    BY <2>2, <2>4, <2>5, <2>6, StutterIs
<1> QED
  BY <1>1, <1>2

\* Every step of the store is one of AtomicStore, or stutters,
LEMMA StepRefines ==
    StandingInv /\ SeenInv /\ [Next]_vars => [Atomic!Next]_(Atomic!vars)
<1> SUFFICES ASSUME StandingInv, SeenInv, [Next]_vars PROVE Atomic!Next \/ UNCHANGED Atomic!vars
  OBVIOUS
<1>1. StepInv /\ LastInv'
  BY NextStore, NextFiles, NextLast DEF StepInv, StandingInv
<1>2. ASSUME NEW w \in Writes, Write(w) \/ LeadWrite(w) PROVE Atomic!Next \/ UNCHANGED Atomic!vars
  BY <1>1, <1>2, CallRefines, LeadRefines
<1>3. CASE GoOnWriting
  BY <1>1, <1>3, WorkRefines, EndWriteRefines DEF GoOnWriting
<1>4. CASE Background \/ OpenIterator \/ CloseIterator
  BY <1>1, <1>4, WorkRefines
<1>5. CASE Open
  BY <1>1, <1>5, OpenRefines
<1>6. CASE ProcessCrash \/ MachineCrash
  BY <1>1, <1>6, CrashRefines
<1>7. CASE UNCHANGED vars
  <2>1. UNCHANGED <<phase, pc, mem, imm, version, current, manifests, tables, logs, kept, safe>>
    BY <1>7 DEF vars, callVars, memVars, versionVars, bgVars, diskVars, history
  <2>2. StageOf' = StageOf
    BY <2>1 DEF StageOf
  <2>3. Shown' = Shown /\ Recorded' = Recorded
    BY <2>1 DEF Shown, InMemory, Recorded
  <2>4. Visible' = Visible /\ Ruined' = Ruined
    <3>1. StoreInv /\ FilesInv /\ StoreInv' /\ FilesInv' /\ LogsInv /\ LogsInv'
      BY <1>1 DEF StepInv, StandingInv, StoreInv
    <3> QED
      BY <2>1, <2>3, <3>1, VisibleIs, VisibleNext, RuinedIs, RuinedNext
  <2> QED
    BY <2>1, <2>2, <2>4, StutterIs
<1> QED
  BY <1>2, <1>3, <1>4, <1>5, <1>6, <1>7 DEF Next

\* and so is its beginning.
LEMMA InitRefines == Init => Atomic!Init
<1> SUFFICES ASSUME Init PROVE Atomic!Init
  OBVIOUS
<1>1. StoreInv /\ FilesInv /\ LogsInv
  BY InitStore, InitFiles DEF StoreInv
<1>2. PICK start \in Starts :
        /\ pc = [w \in Writes |-> IF w \in start.writes THEN "new" ELSE "none"]
        /\ tables = [n \in Numbers(start.files) |-> [recs |-> {}, synced |-> TRUE]]
        /\ manifests = [n \in {1} |-> [edits  |-> <<[add |-> start.files, del |-> {}, log |-> 0,
                                                  next |-> Max({1} \cup Numbers(start.files)) + 1, last |-> 0]>>,
                                    synced |-> 1]]
  BY DEF Init
<1>3. phase = "down" /\ logs = <<>> /\ kept = {} /\ safe = {} /\ current = 1
  BY DEF Init
<1>4. StageOf = [w \in Writes |-> "new"]
  <2>1. \A w \in Writes : StageOf[w] = "new"
    BY <1>2, StageIs
  <2> QED
    BY <2>1 DEF StageOf
<1>5. Visible = {}
  <2> DEFINE v == Replayed(manifests[current].edits)
  <2>1. Recorded = RecsOf(tables, v.files) \cup ReadFrom(logs, v.log)
    BY RecordedIs
  <2> HIDE DEF v
  <2>2. RecsOf(tables, v.files) = {}
    <3>1. \A n \in DOMAIN tables : tables[n].recs = {}
      BY <1>2
    <3> QED
      BY <3>1 DEF RecsOf
  <2>3. ReadFrom(logs, v.log) = {}
    BY <1>3 DEF ReadFrom
  <2>4. Visible = WritesIn(Recorded)
    BY <1>1, <1>3, VisibleIs
  <2> QED
    BY <2>1, <2>2, <2>3, <2>4 DEF WritesIn
<1>6. Ruined = FALSE
  <2> DEFINE e == [add |-> start.files, del |-> {}, log |-> 0, next |-> Max({1} \cup Numbers(start.files)) + 1, last |-> 0]
             s == <<e>>
             f == [edits |-> s, synced |-> 1]
  <2>1. Len(s) = 1
    OBVIOUS
  <2>4. manifests[current] = f
    BY <1>2, <1>3
  <2>5. f.edits = s
    OBVIOUS
  <2> HIDE DEF f, s
  <2>2. manifests[current].edits = s
    BY <2>4, <2>5
  <2>3. ~Corrupt(manifests[current].edits)
    <3>1. 1 .. Len(s) - 1 = {}
      BY <2>1
    <3>2. ~Corrupt(s)
      BY <3>1 DEF Corrupt
    <3> QED
      BY <3>2, <2>2
  <2> QED
    BY <2>3, <1>1, RuinedIs
<1> QED
  BY <1>3, <1>4, <1>5, <1>6 DEF Atomic!Init, StageOf, Ruined

\* The store implements AtomicStore: a write is read whole once its call has
\* returned, and what is read changes in no other way while the process lives
\* (DBImpl::Write, BackgroundCompaction, LogAndApply); a crash loses none of
\* the writes it may not lose (DBImpl::Recover); for any writes, errors and sizes.
THEOREM AtomicCorrect == Spec => ImplementsAtomicStore
<1>1. Init => Atomic!Init
  BY InitRefines
<1>2. StandingInv /\ SeenInv /\ [Next]_vars => [Atomic!Next]_(Atomic!vars)
  BY StepRefines
<1>3. Spec => [](StandingInv /\ SeenInv)
  BY SeenAlways
<1> QED
  BY <1>1, <1>2, <1>3, PTL DEF Spec, ImplementsAtomicStore, Atomic!Spec
=============================================================================
