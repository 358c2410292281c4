------------------------------ MODULE LevelStore ------------------------------
(***************************************************************************)
(* Writes, files and crashes of LevelDB (db/db_impl.cc, db/version_set.cc; *)
(* the pod leveldb-library): the queue of writers and its group commit,    *)
(* the memtables, the thread of the background work, the MANIFEST and the  *)
(* file CURRENT that names it, the files that are deleted, and recovery.   *)
(*                                                                         *)
(* Each write is one call of DBImpl::Write; keys are left out, all tables  *)
(* overlap (levels and keys: LevelTables).  What is not under the mutex is *)
(* a step of its own.  An append, a sync or the writing of a table may     *)
(* fail in an open store, MaxErrors times (what fails while DB::Open runs  *)
(* is left out), and the process or the machine crash at any step,         *)
(* MaxCrashes times.                                                       *)
(***************************************************************************)
EXTENDS LogFormat

CONSTANTS
  Writes,
  BatchSize,           \* of each write, in bytes; 0 for the NULL batch of TEST_CompactMemTable
  Syncs,               \* the writes with options.sync
  WriteBufferSize,     \* options_.write_buffer_size
  SmallGroup, LargeGroup,         \* 128 KB and 1 MB in BuildBatchGroup
  CompactionTrigger, StopTrigger, \* config::kL0_CompactionTrigger, kL0_StopWritesTrigger
  Starts,              \* the files an earlier process may have left, and the writes to come
  MaxErrors, MaxCrashes

\* A file of a level, and what a VersionEdit records.
Files == [level : Nat, number : Nat]

Edits == [add : SUBSET Files, del : SUBSET Files, log : Nat, next : Nat, last : Nat]

\* What a write appends to the log and inserts into the memtable.
Records == [seq : Nat, ws : Seq(Writes)]

ASSUME LevelStoreAssumption ==
  /\ BatchSize \in [Writes -> Nat]
  /\ Syncs \subseteq Writes
  /\ {WriteBufferSize, SmallGroup, LargeGroup, MaxErrors, MaxCrashes} \subseteq Nat
  /\ CompactionTrigger \in Nat \ {0}
  /\ StopTrigger \in Nat
  /\ CompactionTrigger <= StopTrigger
  /\ \A start \in Starts : start.files \subseteq Files /\ IsFiniteSet(start.files)
  /\ Nothing \notin Edits
  /\ Nothing # Nothing \cap Records    \* that is, no set of records

VARIABLES
  phase,               \* down, opening, installed, up, failed
  \* the writers
  writers,             \* writers_
  pc,                  \* of each write: new, queued, waiting (on bg_cv_), leading, or its answer
  asleep,              \* those that wait on a condition of their own
  job,                 \* what the first writer is doing
  \* memory
  mem, imm,            \* records in mem_ and imm_
  logfile,             \* logfile_number_
  block_offset,        \* of log_
  version,             \* files of versions_->current()
  next_file,           \* next_file_number_
  log_number,          \* versions_->LogNumber()
  manifest_file,       \* versions_->ManifestFileNumber()
  last_sequence,
  reader,              \* files of the version an iterator holds
  \* the background thread
  bg_error, scheduled, bg, pending_outputs,
  \* the disk
  logs, tables, manifests, current,
  \* history: writes no crash of the process, no crash at all may lose, and the
  \* logs an append to which has failed
  kept, safe, broken,
  errors, crashes

callVars    == <<writers, pc, asleep, job>>
memVars     == <<mem, imm, logfile, block_offset>>
versionVars == <<version, next_file, log_number, manifest_file, last_sequence>>
bgVars      == <<bg_error, scheduled, bg, pending_outputs>>
diskVars    == <<logs, tables, manifests, current>>
history     == <<kept, safe, broken>>
vars == <<phase, callVars, memVars, versionVars, reader, bgVars, diskVars, history, errors, crashes>>

-----------------------------------------------------------------------------
(* Records, tables, versions *)

\* The files f, and over them g: those of both are as in f.
Over(f, g) == [n \in DOMAIN f \cup DOMAIN g |-> IF n \in DOMAIN f THEN f[n] ELSE g[n]]

\* The files g once n is created.
Created(n, file, g) == Over([k \in {n} |-> file], g)

DataSize(ws) ==
  LET size[k \in 0 .. Len(ws)] == IF k = 0 THEN 0 ELSE size[k - 1] + BatchSize[ws[k]]
  IN  size[Len(ws)]

WithData(ws) ==
  LET data[k \in 0 .. Len(ws)] == IF k = 0 THEN <<>>
                                  ELSE IF BatchSize[ws[k]] > 0 THEN Append(data[k - 1], ws[k])
                                  ELSE data[k - 1]
  IN  data[Len(ws)]

\* ApproximateMemoryUsage of a memtable.
Usage(recs) == MapThenSumSet(LAMBDA r : DataSize(r.ws), recs)

Numbers(files) == { f.number : f \in files }

Level0(files) == { f \in files : f.level = 0 }

\* VersionSet::NeedsCompaction, by Finalize's score of level 0.
NeedsCompaction(files) == Cardinality(Level0(files)) >= CompactionTrigger

RecordsIn(files) == UNION { tables[n].recs : n \in Numbers(files) \cap DOMAIN tables }

\* VersionSet::Builder::Apply and the fields Recover takes over.  Nothing stands
\* for a record that was torn; the reader ends at one at the end of the file.
ApplyEdit(v, e) ==
  IF e = Nothing THEN v
  ELSE [files |-> (v.files \ e.del) \cup e.add, log |-> e.log, next |-> e.next, last |-> e.last]

Replayed(edits) ==
  LET v[k \in 0 .. Len(edits)] ==
        IF k = 0 THEN [files |-> {}, log |-> 0, next |-> 0, last |-> 0] ELSE ApplyEdit(v[k - 1], edits[k])
  IN  v[Len(edits)]

\* A record after a torn one fails its checksum; the reporter of
\* VersionSet::Recover turns that into an error.  (Not always: where the rest of
\* the last block is shorter than the torn record says, both are taken for the
\* end of the file.  Such a MANIFEST is refused here too.)
Corrupt(edits) == \E i \in 1 .. Len(edits) - 1 : edits[i] = Nothing

\* The records a log gives back; the parts of one are put together by the reader.
\* WriteBatchInternal::InsertInto refuses what is not a batch.
LogRecords(n) ==
  LET batches[rs \in Seq(Seq(PhysicalsOf(Records)) \ {<<>>})] ==
        IF rs = <<>> THEN <<>>
        ELSE LET r == rs[1][1].of
             IN  IF Complete(rs[1], DataSize(r.ws)) THEN <<r>> \o batches[Tail(rs)] ELSE batches[Tail(rs)]
  IN  batches[ReadRecords(logs[n].bytes)]

IdleJob == [stage |-> "none", ws |-> <<>>, rec |-> Nothing]
IdleBg  == [stage |-> "idle", kind |-> "none", table |-> 0, edit |-> Nothing, in |-> {}, out |-> 0]

-----------------------------------------------------------------------------
(* The disk after DBImpl::NewDB or an earlier process, before DB::Open.  Who  *)
(* wrote what old tables hold is not of interest.                            *)

Init ==
  /\ phase = "down"
  /\ writers = <<>> /\ asleep = {} /\ job = IdleJob
  /\ mem = {} /\ imm = Nothing /\ logfile = 0 /\ block_offset = 0
  /\ version = {} /\ next_file = 2 /\ log_number = 0 /\ manifest_file = 0 /\ last_sequence = 0
  /\ reader = {}
  /\ bg_error = FALSE /\ scheduled = FALSE /\ bg = IdleBg /\ pending_outputs = {}
  /\ logs = <<>>
  /\ \E start \in Starts :
       /\ pc = [w \in Writes |-> IF w \in start.writes THEN "new" ELSE "none"]
       /\ tables = [n \in Numbers(start.files) |-> [recs |-> {}, synced |-> TRUE]]
       /\ manifests = [n \in {1} |-> [edits  |-> <<[add |-> start.files, del |-> {}, log |-> 0,
                                                 next |-> Max({1} \cup Numbers(start.files)) + 1, last |-> 0]>>,
                                   synced |-> 1]]
  /\ current = 1
  /\ kept = {} /\ safe = {} /\ broken = {}
  /\ errors = 0 /\ crashes = 0

MayFail == errors < MaxErrors /\ errors' = errors + 1

\* A mutant of DeleteObsoleteFiles: the versions that readers hold are forgotten.
DeleteUnlessCurrent(ms, files, held, log, pending, err) ==
  IF err THEN manifests' = ms /\ UNCHANGED <<logs, tables>>
  ELSE
    /\ tables' = Restrict(tables, DOMAIN tables \cap (pending \cup Numbers(files)))
    /\ logs' = Restrict(logs, { n \in DOMAIN logs : n >= log })
    /\ manifests' = Restrict(ms, { n \in DOMAIN ms : n >= manifest_file })

\* DBImpl::DeleteObsoleteFiles, once the manifests are ms and files is current.
\* held: files of other versions that are in use.
DeleteObsoleteFiles(ms, files, held, log, pending, err) ==
  IF err THEN manifests' = ms /\ UNCHANGED <<logs, tables>>
  ELSE
    /\ tables' = Restrict(tables, DOMAIN tables \cap (pending \cup Numbers(files \cup held)))
    /\ logs' = Restrict(logs, { n \in DOMAIN logs : n >= log })
    /\ manifests' = Restrict(ms, { n \in DOMAIN ms : n >= manifest_file })

-----------------------------------------------------------------------------
(* DBImpl::Write *)

\* The call joins the queue and sleeps unless it is first.
Write(w) ==
  /\ phase = "up" /\ pc[w] = "new"
  /\ pc' = [pc EXCEPT ![w] = "queued"]
  /\ writers' = Append(writers, w)
  /\ asleep' = IF writers = <<>> THEN asleep ELSE asleep \cup {w}
  /\ UNCHANGED <<phase, job, memVars, versionVars, reader, bgVars, diskVars, history, errors, crashes>>

Leads(w) ==
  /\ phase = "up" /\ writers # <<>>
  /\ Head(writers) = w /\ pc[w] = "queued" /\ w \notin asleep

\* A mutant of Finish: the next of the queue is not signalled.
FinishUnsignalled(ws, answer) ==
  /\ writers' = SubSeq(writers, Len(ws) + 1, Len(writers))
  /\ pc' = [w \in Writes |-> IF w \in Range(ws) THEN answer ELSE pc[w]]
  /\ asleep' = asleep \ Range(ws)
  /\ job' = IdleJob

\* A mutant of Finish: the writers of the group are not signalled.
FinishFirst(ws, answer) ==
  /\ writers' = SubSeq(writers, Len(ws) + 1, Len(writers))
  /\ pc' = [w \in Writes |-> IF w \in Range(ws) THEN answer ELSE pc[w]]
  /\ asleep' = asleep \ IF writers' = <<>> THEN {} ELSE {Head(writers')}
  /\ job' = IdleJob

\* The end of the call: the writers of its group return with its status, and the
\* new head of the queue is woken.
Finish(ws, answer) ==
  /\ writers' = SubSeq(writers, Len(ws) + 1, Len(writers))
  /\ pc' = [w \in Writes |-> IF w \in Range(ws) THEN answer ELSE pc[w]]
  /\ asleep' = asleep \ (Range(ws) \cup IF writers' = <<>> THEN {} ELSE {Head(writers')})
  /\ job' = IdleJob

\* A mutant of BatchGroup: writes with sync join a group without.
BatchGroupAnySync ==
  LET size == BatchSize[Head(writers)]
      limit == IF size <= SmallGroup THEN size + SmallGroup ELSE LargeGroup
      Joins(k) == BatchSize[writers[k]] > 0 => DataSize(SubSeq(writers, 1, k)) <= limit
  IN  SubSeq(writers, 1, Cardinality({ k \in DOMAIN writers : \A j \in 2 .. k : Joins(j) }))

\* BuildBatchGroup: the longest group that starts with the first writer, in which
\* none asks for more sync than the first and the data stays below a limit.  (As many
\* writers as there are places up to which all join.)
BatchGroup ==
  LET size == BatchSize[Head(writers)]
      limit == IF size <= SmallGroup THEN size + SmallGroup ELSE LargeGroup
      Joins(k) == /\ writers[k] \in Syncs => Head(writers) \in Syncs
                  /\ BatchSize[writers[k]] > 0 => DataSize(SubSeq(writers, 1, k)) <= limit
  IN  SubSeq(writers, 1, Cardinality({ k \in DOMAIN writers : \A j \in 2 .. k : Joins(j) }))

StartGroup(w) ==
  /\ pc' = [pc EXCEPT ![w] = "leading"]
  /\ job' = [stage |-> "append", ws |-> BatchGroup,
             rec |-> [seq |-> last_sequence + 1, ws |-> WithData(BatchGroup)]]
  /\ UNCHANGED <<writers, asleep>>

\* MakeRoomForWrite: whether it must change to a new memtable (a NULL batch
\* forces it to), and whether it can.
MustSwitch(w) == BatchSize[w] = 0 \/ Usage(mem) > WriteBufferSize

CanSwitch == imm = Nothing /\ Cardinality(Level0(version)) < StopTrigger

\* An earlier background error is the answer.
RefuseWrite(w) ==
  /\ Leads(w) /\ bg_error
  /\ Finish(<<w>>, "error")
  /\ UNCHANGED <<phase, memVars, versionVars, reader, bgVars, diskVars, history, errors, crashes>>

WaitForRoom(w) ==
  /\ Leads(w) /\ ~bg_error /\ MustSwitch(w) /\ ~CanSwitch
  /\ pc' = [pc EXCEPT ![w] = "waiting"]
  /\ UNCHANGED <<phase, writers, asleep, job, memVars, versionVars, reader, bgVars, diskVars, history,
                 errors, crashes>>

WriteToMem(w) ==
  /\ Leads(w) /\ ~bg_error /\ ~MustSwitch(w)
  /\ StartGroup(w)
  /\ UNCHANGED <<phase, memVars, versionVars, reader, bgVars, diskVars, history, errors, crashes>>

\* The new log cannot be created; ReuseFileNumber takes its number back.
NoNewLog(w) ==
  /\ Leads(w) /\ ~bg_error /\ MustSwitch(w) /\ CanSwitch
  /\ MayFail
  /\ Finish(<<w>>, "error")
  /\ UNCHANGED <<phase, memVars, versionVars, reader, bgVars, diskVars, history, crashes>>

\* A new log and memtable, and the old memtable is left to the background.  A
\* NULL batch is done with that.
SwitchMem(w) ==
  /\ Leads(w) /\ ~bg_error /\ MustSwitch(w) /\ CanSwitch
  /\ logs' = Created(next_file, [bytes |-> <<>>, synced |-> 0], logs)
  /\ logfile' = next_file /\ next_file' = next_file + 1
  /\ block_offset' = 0
  /\ imm' = mem /\ mem' = {}
  /\ scheduled' = TRUE
  /\ IF BatchSize[w] = 0 THEN Finish(<<w>>, "ok") ELSE StartGroup(w)
  /\ UNCHANGED <<phase, version, log_number, manifest_file, last_sequence, reader, bg_error, bg,
                 pending_outputs, tables, manifests, current, history, errors, crashes>>

\* log_->AddRecord, without the mutex.
AppendRecord ==
  LET added == AddRecord(job.rec, DataSize(job.rec.ws), block_offset)
  IN  /\ phase = "up" /\ job.stage = "append"
      /\ logs' = [logs EXCEPT ![logfile].bytes = @ \o added.bytes]
      /\ block_offset' = added.offset
      /\ job' = [job EXCEPT !.stage = IF Head(job.ws) \in Syncs THEN "sync" ELSE "insert"]
      /\ UNCHANGED <<phase, writers, pc, asleep, mem, imm, logfile, versionVars, reader, bgVars, tables,
                     manifests, current, history, errors, crashes>>

AppendFails ==
  /\ phase = "up" /\ job.stage = "append"
  /\ MayFail
  /\ \E added \in FailedAdds(job.rec, DataSize(job.rec.ws), block_offset) :
       /\ logs' = [logs EXCEPT ![logfile].bytes = @ \o added.bytes]
       /\ block_offset' = added.offset
  /\ broken' = broken \cup {logfile}
  /\ job' = [job EXCEPT !.stage = "failed"]
  /\ UNCHANGED <<phase, writers, pc, asleep, mem, imm, logfile, versionVars, reader, bgVars, tables,
                 manifests, current, kept, safe, crashes>>

SyncLog ==
  /\ phase = "up" /\ job.stage = "sync"
  /\ logs' = [logs EXCEPT ![logfile].synced = Len(logs[logfile].bytes)]
  /\ job' = [job EXCEPT !.stage = "insert"]
  /\ UNCHANGED <<phase, writers, pc, asleep, memVars, versionVars, reader, bgVars, tables, manifests, current,
                 history, errors, crashes>>

SyncFails ==
  /\ phase = "up" /\ job.stage = "sync"
  /\ MayFail
  /\ job' = [job EXCEPT !.stage = "sync_error"]
  /\ UNCHANGED <<phase, writers, pc, asleep, memVars, versionVars, reader, bgVars, diskVars, history, crashes>>

\* InsertInto and the rest of the call.  last_sequence_ advances even when the
\* log was not written.  A sync error stops all later writes.
EndWrite ==
  /\ phase = "up" /\ job.stage \in {"insert", "failed", "sync_error"}
  /\ IF job.stage = "insert"
     THEN LET whole == logfile \notin broken
              acked == Range(job.rec.ws)
          IN  /\ mem' = mem \cup {job.rec}
              /\ kept' = kept \cup IF whole THEN acked ELSE {}
              /\ safe' = safe \cup IF whole THEN acked \cap Syncs ELSE {}
              /\ Finish(job.ws, "ok")
     ELSE UNCHANGED <<mem, kept, safe>> /\ Finish(job.ws, "error")
  /\ bg_error' = (bg_error \/ job.stage = "sync_error")
  /\ last_sequence' = last_sequence + Len(job.rec.ws)
  /\ UNCHANGED <<phase, imm, logfile, block_offset, version, next_file, log_number, manifest_file, reader,
                 scheduled, bg, pending_outputs, diskVars, broken, errors, crashes>>

-----------------------------------------------------------------------------
(* The background thread *)

\* A mutant of Woken: nobody is signalled.
NoneWoken == pc

\* bg_cv_.SignalAll.
Woken == [w \in Writes |-> IF pc[w] = "waiting" THEN "queued" ELSE pc[w]]

\* The end of BackgroundCall: MaybeScheduleCompaction, and the waiting are woken.
EndBackground(files, old, err) ==
  /\ bg' = IdleBg
  /\ scheduled' = (~err /\ (old # Nothing \/ NeedsCompaction(files)))
  /\ pc' = Woken

\* CompactMemTable is over: the call ends, or DoCompactionWork goes on.
EndImm(old, err) ==
  IF bg.out = 0 THEN EndBackground(version', old, err)
  ELSE /\ bg' = [bg EXCEPT !.stage = "merge", !.kind = "merge", !.table = 0, !.edit = Nothing]
       /\ pc' = Woken
       /\ UNCHANGED scheduled

\* BackgroundCall when there is nothing to do or after an error.
NothingToDo ==
  /\ phase = "up" /\ scheduled /\ bg.stage = "idle"
  /\ bg_error \/ (imm = Nothing /\ ~NeedsCompaction(version))
  /\ EndBackground(version, imm, bg_error)
  /\ UNCHANGED <<phase, writers, asleep, job, memVars, versionVars, reader, bg_error, pending_outputs, diskVars,
                 history, errors, crashes>>

NewTable(n) == Created(n, [recs |-> {}, synced |-> FALSE], tables)

\* CompactMemTable up to BuildTable, from BackgroundCompaction or, first of all
\* work, from the loop of DoCompactionWork (which does not look at bg_error_).
\* An empty memtable makes no file.
StartTable ==
  /\ phase = "up" /\ imm # Nothing
  /\ \/ scheduled /\ bg.stage = "idle" /\ ~bg_error
     \/ bg.stage = "merge"
  /\ next_file' = next_file + 1
  /\ pending_outputs' = pending_outputs \cup {next_file}
  /\ tables' = IF imm = {} THEN tables ELSE NewTable(next_file)
  /\ bg' = [bg EXCEPT !.stage = "table", !.kind = "imm", !.table = next_file]
  /\ UNCHANGED <<phase, callVars, memVars, version, log_number, manifest_file, last_sequence, reader, bg_error,
                 scheduled, logs, manifests, current, history, errors, crashes>>

\* VersionSet::LogAndApply up to the write of the MANIFEST.
EditOf(add, del, log) == [add |-> add, del |-> del, log |-> log, next |-> next_file, last |-> last_sequence]

\* The table is written and synced.  Where all tables overlap,
\* PickLevelForMemTableOutput leaves level 0 only when there is no other file;
\* it then goes down to kMaxMemCompactLevel, for which level 1 stands here.
\* Logs before the current one are no longer needed.
FinishTable ==
  LET level == IF version = {} THEN 1 ELSE 0
      add == IF imm = {} THEN {} ELSE {[level |-> level, number |-> bg.table]}
  IN  /\ phase = "up" /\ bg.stage = "table"
      /\ tables' = IF bg.table \in DOMAIN tables
                   THEN [tables EXCEPT ![bg.table] = [recs |-> imm, synced |-> TRUE]]
                   ELSE tables
      /\ pending_outputs' = pending_outputs \ {bg.table}
      /\ bg' = [bg EXCEPT !.stage = "manifest", !.edit = EditOf(add, {}, logfile)]
      /\ UNCHANGED <<phase, callVars, memVars, versionVars, reader, bg_error, scheduled, logs, manifests, current,
                     history, errors, crashes>>

TableFails ==
  /\ phase = "up" /\ bg.stage = "table"
  /\ MayFail
  /\ tables' = Restrict(tables, DOMAIN tables \ {bg.table})
  /\ pending_outputs' = pending_outputs \ {bg.table}
  /\ bg_error' = TRUE
  /\ UNCHANGED versionVars
  /\ EndImm(imm, TRUE)
  /\ UNCHANGED <<phase, writers, asleep, job, memVars, reader, logs, manifests, current, history, crashes>>

MayCompact ==
  /\ phase = "up" /\ scheduled /\ bg.stage = "idle"
  /\ ~bg_error /\ imm = Nothing /\ NeedsCompaction(version)

\* Compaction::IsTrivialMove: one file, and none it overlaps in the next level.
IsTrivialMove == Cardinality(version) = 1

StartMove ==
  /\ MayCompact /\ IsTrivialMove
  /\ bg' = [bg EXCEPT !.stage = "manifest", !.kind = "move",
                      !.edit = EditOf({ [f EXCEPT !.level = 1] : f \in version }, version, log_number)]
  /\ UNCHANGED <<phase, callVars, memVars, versionVars, reader, bg_error, scheduled, pending_outputs, diskVars,
                 history, errors, crashes>>

\* DoCompactionWork and its first OpenCompactionOutputFile; its inputs stay in
\* use until ReleaseInputs.
StartMerge ==
  /\ MayCompact /\ ~IsTrivialMove
  /\ next_file' = next_file + 1
  /\ pending_outputs' = pending_outputs \cup {next_file}
  /\ tables' = NewTable(next_file)
  /\ bg' = [bg EXCEPT !.stage = "merge", !.kind = "merge", !.in = version, !.out = next_file]
  /\ UNCHANGED <<phase, callVars, memVars, version, log_number, manifest_file, last_sequence, reader, bg_error,
                 scheduled, logs, manifests, current, history, errors, crashes>>

\* FinishCompactionOutputFile and InstallCompactionResults; bg_error_ is not
\* looked at.
FinishMerge ==
  /\ phase = "up" /\ bg.stage = "merge"
  /\ tables' = IF bg.out \in DOMAIN tables
               THEN [tables EXCEPT ![bg.out] = [recs |-> RecordsIn(bg.in), synced |-> TRUE]]
               ELSE tables
  /\ bg' = [bg EXCEPT !.stage = "manifest",
                      !.edit = EditOf({[level |-> 1, number |-> bg.out]}, bg.in, log_number)]
  /\ UNCHANGED <<phase, callVars, memVars, versionVars, reader, bg_error, scheduled, pending_outputs, logs,
                 manifests, current, history, errors, crashes>>

\* RecordBackgroundError, CleanupCompaction, ReleaseInputs and
\* DeleteObsoleteFiles at the end of a compaction that failed.
AbandonMerge ==
  /\ bg_error' = TRUE
  /\ pending_outputs' = pending_outputs \ {bg.out}
  /\ EndBackground(version, imm, TRUE)

MergeFails ==
  /\ phase = "up" /\ bg.stage = "merge"
  /\ MayFail
  /\ AbandonMerge
  /\ DeleteObsoleteFiles(manifests, version, reader, log_number, pending_outputs', TRUE)
  /\ UNCHANGED <<phase, writers, asleep, job, memVars, versionVars, reader, current, history, crashes>>

\* descriptor_log_->AddRecord, without the mutex.
WriteManifest ==
  /\ phase = "up" /\ bg.stage = "manifest"
  /\ manifests' = [manifests EXCEPT ![manifest_file].edits = Append(@, bg.edit)]
  /\ bg' = [bg EXCEPT !.stage = "sync"]
  /\ UNCHANGED <<phase, callVars, memVars, versionVars, reader, bg_error, scheduled, pending_outputs, logs,
                 tables, current, history, errors, crashes>>

\* The record or its sync fails: there is no record, a part of it, or all of it.
ManifestFails ==
  /\ phase = "up" /\ bg.stage \in {"manifest", "sync"}
  /\ MayFail
  /\ \/ manifests' = manifests
     \/ /\ bg.stage = "manifest"
        /\ \E e \in {Nothing, bg.edit} :
             manifests' = [manifests EXCEPT ![manifest_file].edits = Append(@, e)]
  /\ UNCHANGED versionVars
  /\ \/ /\ bg.kind = "imm" /\ bg_error' = TRUE /\ EndImm(imm, TRUE)
        /\ UNCHANGED <<pending_outputs, logs, tables>>
     \/ /\ bg.kind = "move" /\ bg_error' = TRUE /\ EndBackground(version, imm, TRUE)
        /\ UNCHANGED <<pending_outputs, logs, tables>>
     \/ /\ bg.kind = "merge" /\ AbandonMerge
        /\ DeleteObsoleteFiles(manifests', version, reader, log_number, pending_outputs', TRUE)
  /\ UNCHANGED <<phase, writers, asleep, job, memVars, reader, current, history, crashes>>

\* The MANIFEST is synced: the new version is installed and what follows it runs
\* in the same hold of the mutex.
InstallVersion ==
  LET ms == [manifests EXCEPT ![manifest_file].synced = Len(manifests[manifest_file].edits)]
  IN  /\ phase = "up" /\ bg.stage = "sync"
      /\ version' = (version \ bg.edit.del) \cup bg.edit.add
      /\ log_number' = bg.edit.log
      /\ \/ /\ bg.kind = "imm"
            /\ imm' = Nothing
            /\ EndImm(Nothing, bg_error)
            /\ DeleteObsoleteFiles(ms, version', reader \cup bg.in, log_number', pending_outputs, bg_error)
            /\ UNCHANGED pending_outputs
         \/ /\ bg.kind = "move"
            /\ manifests' = ms
            /\ EndBackground(version', imm, bg_error)
            /\ UNCHANGED <<imm, pending_outputs, logs, tables>>
         \/ /\ bg.kind = "merge"
            /\ pending_outputs' = pending_outputs \ {bg.out}
            /\ EndBackground(version', imm, bg_error)
            /\ DeleteObsoleteFiles(ms, version', reader, log_number', pending_outputs', bg_error)
            /\ UNCHANGED imm
      /\ UNCHANGED <<phase, writers, asleep, job, mem, logfile, block_offset, next_file, manifest_file,
                     last_sequence, reader, bg_error, current, history, errors, crashes>>

-----------------------------------------------------------------------------
(* Iterators *)

\* NewInternalIterator holds the current version, CleanupIteratorState lets go.
OpenIterator ==
  /\ phase = "up" /\ reader = {} /\ version # {}
  /\ reader' = version
  /\ UNCHANGED <<phase, callVars, memVars, versionVars, bgVars, diskVars, history, errors, crashes>>

CloseIterator ==
  /\ phase = "up" /\ reader # {}
  /\ reader' = {}
  /\ UNCHANGED <<phase, callVars, memVars, versionVars, bgVars, diskVars, history, errors, crashes>>

-----------------------------------------------------------------------------
(* Crashes *)

\* What was in memory is gone.
LoseMemory ==
  /\ phase \in {"up", "down", "opening", "installed"}
  /\ crashes < MaxCrashes /\ crashes' = crashes + 1
  /\ phase' = "down"
  /\ writers' = <<>> /\ asleep' = {} /\ job' = IdleJob
  /\ pc' = [w \in Writes |-> IF pc[w] \in {"queued", "waiting", "leading"} THEN "lost" ELSE pc[w]]
  /\ mem' = {} /\ imm' = Nothing /\ logfile' = 0 /\ block_offset' = 0
  /\ version' = {} /\ next_file' = 2 /\ log_number' = 0 /\ manifest_file' = 0 /\ last_sequence' = 0
  /\ reader' = {}
  /\ bg_error' = FALSE /\ scheduled' = FALSE /\ bg' = IdleBg /\ pending_outputs' = {}
  /\ UNCHANGED <<current, safe, broken, errors>>

\* The process ends, perhaps in the middle of an append.
ProcessCrash ==
  /\ LoseMemory
  /\ \/ logs' = logs
     \/ /\ job.stage = "append"
        /\ \E added \in FailedAdds(job.rec, DataSize(job.rec.ws), block_offset) :
             logs' = [logs EXCEPT ![logfile].bytes = @ \o added.bytes]
  /\ UNCHANGED <<tables, manifests, kept>>

\* The machine goes down: of each file a prefix remains that has at least what
\* was synced; what remains cannot be lost again.
MachineCrash ==
  /\ LoseMemory
  /\ \E cut \in [DOMAIN logs -> 0 .. Max({0} \cup { Len(logs[n].bytes) : n \in DOMAIN logs })] :
       /\ \A n \in DOMAIN logs : cut[n] \in logs[n].synced .. Len(logs[n].bytes)
       /\ logs' = [n \in DOMAIN logs |-> [bytes |-> SubSeq(logs[n].bytes, 1, cut[n]), synced |-> cut[n]]]
  /\ \E cut \in [DOMAIN manifests -> 0 .. Max({ Len(manifests[n].edits) : n \in DOMAIN manifests })] :
       /\ \A n \in DOMAIN manifests : cut[n] \in manifests[n].synced .. Len(manifests[n].edits)
       /\ manifests' = [n \in DOMAIN manifests |-> [edits |-> SubSeq(manifests[n].edits, 1, cut[n]),
                                                    synced |-> cut[n]]]
  /\ tables' = Restrict(tables, { n \in DOMAIN tables : tables[n].synced })
  /\ kept' = safe

-----------------------------------------------------------------------------
(* DB::Open *)

\* RecoverLogFile: the memtables a log is replayed into, each written as a table
\* when it is full or the log ends, and the newest sequence number.
MemTables(recs) ==
  LET Insert(ms, r) == IF ms = <<>> \/ Usage(Last(ms)) > WriteBufferSize
                       THEN Append(ms, {r})
                       ELSE [ms EXCEPT ![Len(ms)] = @ \cup {r}]
      tables_of[i \in 0 .. Len(recs)] == IF i = 0 THEN <<>> ELSE Insert(tables_of[i - 1], recs[i])
  IN  tables_of[Len(recs)]

\* A mutant of MaxSequence: a batch counts as one write.
FirstSequence(recs) == Max({0} \cup { r.seq : r \in Range(recs) })

MaxSequence(recs) == Max({0} \cup { r.seq + Len(r.ws) - 1 : r \in Range(recs) })

\* One log in the loop of DBImpl::Recover: its tables get the next numbers, then
\* MarkFileNumberUsed(log).
RecoverLog(r, n) ==
  LET ms == MemTables(LogRecords(n))
      after == r.next + Len(ms)
  IN  [next |-> IF after <= n THEN n + 1 ELSE after,
       made |-> Over(r.made, [t \in r.next .. after - 1 |-> [recs |-> ms[t - r.next + 1], synced |-> TRUE]]),
       last |-> Max({r.last, MaxSequence(LogRecords(n))})]

\* A mutant of RecoverLogs: the log of the MANIFEST is taken to be done with.
RecoverNewerLogs(v) ==
  LET newest == Max({0} \cup DOMAIN logs)
      r[n \in 0 .. newest] ==
        IF n = 0 THEN [next |-> v.next + 1, made |-> [t \in {} |-> Nothing], last |-> v.last]
        ELSE IF n \in DOMAIN logs /\ n > v.log THEN RecoverLog(r[n - 1], n)
        ELSE r[n - 1]
  IN  r[newest]

\* VersionSet::Recover takes next_file for the next MANIFEST.  Logs that are not
\* in the MANIFEST are found in the directory, and replayed in order.
RecoverLogs(v) ==
  LET newest == Max({0} \cup DOMAIN logs)
      r[n \in 0 .. newest] ==
        IF n = 0 THEN [next |-> v.next + 1, made |-> [t \in {} |-> Nothing], last |-> v.last]
        ELSE IF n \in DOMAIN logs /\ n >= v.log THEN RecoverLog(r[n - 1], n)
        ELSE r[n - 1]
  IN  r[newest]

CannotOpen ==
  \/ Corrupt(manifests[current].edits)
  \/ ~(Numbers(Replayed(manifests[current].edits).files) \subseteq DOMAIN tables)

OpenFails ==
  /\ phase = "down" /\ CannotOpen
  /\ phase' = "failed"
  /\ UNCHANGED <<callVars, memVars, versionVars, reader, bgVars, diskVars, history, errors, crashes>>

\* Recover, and DB::Open up to LogAndApply, which writes a new MANIFEST with a
\* snapshot of the version and the edit, and syncs it.
OpenRecover ==
  /\ phase = "down" /\ ~CannotOpen
  /\ LET v == Replayed(manifests[current].edits)
         r == RecoverLogs(v)
         files == v.files \cup { [level |-> 0, number |-> t] : t \in DOMAIN r.made }
     IN  /\ tables' = Over(r.made, tables)
         /\ logs' = Created(r.next, [bytes |-> <<>>, synced |-> 0], logs)
         /\ manifests' = Created(v.next, [edits |-> <<[add |-> files, del |-> {}, log |-> r.next,
                                                       next |-> r.next + 1, last |-> r.last]>>,
                                          synced |-> 1], manifests)
         /\ version' = files /\ logfile' = r.next /\ next_file' = r.next + 1
         /\ log_number' = r.next /\ manifest_file' = v.next /\ last_sequence' = r.last
  /\ phase' = "opening"
  /\ UNCHANGED <<callVars, mem, imm, block_offset, reader, bgVars, current, history, errors, crashes>>

\* SetCurrentFile: a rename.
OpenInstall ==
  /\ phase = "opening"
  /\ current' = manifest_file
  /\ phase' = "installed"
  /\ UNCHANGED <<callVars, memVars, versionVars, reader, bgVars, logs, tables, manifests, history, errors, crashes>>

OpenEnds ==
  /\ phase = "installed"
  /\ DeleteObsoleteFiles(manifests, version, {}, log_number, {}, FALSE)
  /\ scheduled' = NeedsCompaction(version)
  /\ phase' = "up"
  /\ UNCHANGED <<callVars, memVars, versionVars, reader, bg_error, bg, pending_outputs, current, history, errors,
                 crashes>>

-----------------------------------------------------------------------------

LeadWrite(w) == RefuseWrite(w) \/ WaitForRoom(w) \/ WriteToMem(w) \/ NoNewLog(w) \/ SwitchMem(w)

GoOnWriting == AppendRecord \/ AppendFails \/ SyncLog \/ SyncFails \/ EndWrite

Background ==
  \/ NothingToDo
  \/ StartTable \/ FinishTable \/ TableFails
  \/ StartMove
  \/ StartMerge \/ FinishMerge \/ MergeFails
  \/ WriteManifest \/ ManifestFails \/ InstallVersion

Open == OpenFails \/ OpenRecover \/ OpenInstall \/ OpenEnds

Next ==
  \/ \E w \in Writes : Write(w) \/ LeadWrite(w)
  \/ GoOnWriting
  \/ Background
  \/ OpenIterator \/ CloseIterator
  \/ ProcessCrash \/ MachineCrash
  \/ Open

Spec == Init /\ [][Next]_vars

\* The threads run: each is scheduled when it can go on.
Fairness ==
  /\ WF_vars(GoOnWriting \/ \E w \in Writes : LeadWrite(w))
  /\ WF_vars(Background)

FairSpec == Spec /\ Fairness

-----------------------------------------------------------------------------
(* Properties *)

TypeOK ==
  /\ phase \in {"down", "opening", "installed", "up", "failed"}
  /\ writers \in Seq(Writes) /\ IsInjective(writers)
  /\ pc \in [Writes -> {"none", "new", "queued", "waiting", "leading", "ok", "error", "lost"}]
  /\ asleep \subseteq Range(writers)
  /\ job.stage \in {"none", "append", "sync", "insert", "failed", "sync_error"} /\ job.ws \in Seq(Writes)
  /\ {bg_error, scheduled} \subseteq BOOLEAN

\* The queue of writers: the calls under way are in it; its first is awake and all
\* others sleep, so that one writes at a time and nobody is left asleep; and what
\* the first writes for is a group at the head of the queue, itself included.
QueueOK ==
  /\ \A w \in Writes : pc[w] \in {"queued", "waiting", "leading"} <=> w \in Range(writers)
  /\ asleep = { writers[i] : i \in 2 .. Len(writers) }
  /\ \A i \in 2 .. Len(writers) : pc[writers[i]] = "queued"
  /\ writers # <<>> => (pc[writers[1]] = "leading" <=> job.stage # "none")
  /\ job.stage # "none" => /\ Len(job.ws) \in 1 .. Len(writers)
                           /\ job.ws = SubSeq(writers, 1, Len(job.ws))

\* The records that can be read, and the writes in them.
OnDisk ==
  LET v == Replayed(manifests[current].edits)
  IN  RecordsIn(v.files) \cup UNION { Range(LogRecords(n)) : n \in { m \in DOMAIN logs : m >= v.log } }

Contents ==
  IF phase = "up" THEN mem \cup (IF imm = Nothing THEN {} ELSE imm) \cup RecordsIn(version) ELSE OnDisk

Visible == UNION { Range(r.ws) : r \in Contents }

\* A write that was acknowledged is read back after any crash of the process, and
\* after any crash of the machine when it asked for sync (options.h:187), unless an
\* earlier append to its log had failed.
NothingLost == phase = "up" => kept \subseteq Visible

\* Wherever the machine stops now, recovery finds every table that the MANIFEST
\* it will read names, and an iterator every table of its version.
FilesPresent ==
  /\ LET m == manifests[current]
     IN  \A k \in m.synced .. Len(m.edits) :
           ~Corrupt(SubSeq(m.edits, 1, k))
             => \A n \in Numbers(Replayed(SubSeq(m.edits, 1, k)).files) : n \in DOMAIN tables /\ tables[n].synced
  /\ Numbers(reader) \subseteq DOMAIN tables

\* No two batches have a sequence number in common, and the next to be given is
\* higher than all: a read at a snapshot would otherwise see later writes.
SequencesFresh ==
  phase = "up" =>
    /\ \A r \in Contents : r.seq + Len(r.ws) - 1 <= last_sequence
    /\ \A r, q \in Contents : r # q => r.seq + Len(r.ws) <= q.seq \/ q.seq + Len(q.ws) <= r.seq

\* Whatever was torn, the reader never puts parts of different batches, or not
\* all parts of one, together.
RecordsWhole ==
  \A n \in DOMAIN logs : \A ps \in Range(ReadRecords(logs[n].bytes)) : Complete(ps, DataSize(ps[1].of.ws))

\* Every write returns, or its process ends: no writer sleeps for ever, whatever
\* fails.  (A write is called once; all of them have returned in the end.)
WritersReturn ==
  <>[](\A w \in Writes : pc[w] \notin {"queued", "waiting", "leading"})

Atomic == INSTANCE AtomicStore WITH
  stage <- [w \in Writes |-> CASE pc[w] = "none" -> "new"
                               [] pc[w] \in {"queued", "waiting", "leading"} -> "called"
                               [] OTHER -> pc[w]],
  visible <- Visible, kept <- kept, safe <- safe,
  ruined <- phase # "up" /\ CannotOpen

\* The store implements AtomicStore: what is read changes only when a write
\* returns, and in a crash, never by work in the background or by recovery.
ImplementsAtomicStore == Atomic!Spec
=============================================================================
