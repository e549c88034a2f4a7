----------------------------- MODULE DBRecovery -----------------------------
(***************************************************************************)
(* leveldb's files across crashes: log files, table files, MANIFEST files  *)
(* and CURRENT, how DB::Open puts the database together again from them,   *)
(* and when a file is deleted.  A crash of the process keeps what was      *)
(* handed to the operating system; a crash of the machine may take away    *)
(* what no Sync covered, and may leave the first record it takes away torn.*)
(* File creation, deletion and renaming are durable at once.               *)
(*                                                                         *)
(* A write is an entry [id, seq]; keys, levels and the grouping of writers *)
(* are left out: what is at stake here is whether an entry is still there. *)
(***************************************************************************)
EXTENDS Integers, FiniteSets, Sequences, SequencesExt, FiniteSetsExt, Functions

CONSTANTS
  Machine,        \* whether the machine may crash, or only the process
  ReuseLogs,      \* options.reuse_logs
  AppendMayFail,  \* whether appending to a log may fail
  SyncKinds,      \* WriteOptions::sync of the writes: a subset of BOOLEAN
  MemSize,        \* entries a memtable takes before it is full
  MaxWrites, MaxCrashes, MaxFaults, MaxWorks    \* bounds

VARIABLES
  disk,     \* logs and manifests: number -> records; tables: number -> entries; current
  durable,  \* how many records of each log and manifest a Sync covered
  up,       \* "down", a step of DB::Open, "open", or "corrupt" when Open failed
  db,       \* the DBImpl and VersionSet in memory
  edit,     \* the VersionEdit DB::Open builds up, and the logs it has still to read
  flush,    \* CompactMemTable: its table, and whether its edit is in the manifest
  work,     \* DoCompactionWork: inputs, output, and whether its edit is in the manifest
  pinned,   \* files of versions that iterators hold on to
  writer,   \* the write under way
  acked,    \* history: entries whose write returned OK, and those with sync
  count     \* writes, crashes, faults and compactions so far

vars == <<disk, durable, up, db, edit, flush, work, pinned, writer, acked, count>>
bgVars == <<flush, work, pinned>>

Nothing == [none |-> TRUE]
Empty == [n \in {} |-> {}]
Put(f, n, v) == [x \in DOMAIN f \cup {n} |-> IF x = n THEN v ELSE f[x]]

NoDB == [mem |-> {}, imm |-> Nothing, log |-> 0, next |-> 2, manifest |-> 0, files |-> {},
         logNumber |-> 0, seq |-> 0, opened |-> FALSE, error |-> FALSE]
NoEdit == [add |-> {}, logs |-> <<>>, save |-> FALSE]

Init ==
  /\ disk = [log |-> Empty, table |-> Empty, manifest |-> Empty, current |-> 0]
  /\ durable = [log |-> Empty, manifest |-> Empty]
  /\ up = "down" /\ db = NoDB /\ edit = NoEdit
  /\ flush = Nothing /\ work = Nothing /\ pinned = {} /\ writer = Nothing
  /\ acked = [all |-> {}, sync |-> {}]
  /\ count = [writes |-> 0, crashes |-> 0, faults |-> 0, works |-> 0]

-----------------------------------------------------------------------------
(* Files. *)

\* What a log::Reader returns: the records up to a torn one.
Readable(records) ==
  LET torn == {i \in 1..Len(records) : ~records[i].whole}
  IN  IF torn = {} THEN records ELSE SubSeq(records, 1, Min(torn) - 1)

\* A manifest record: tables it adds and deletes, and the numbers it sets, if any.
EditRecord(add, del, logNumber, next, seq) ==
  [add |-> add, del |-> del, meta |-> <<logNumber, next, seq>>, whole |-> TRUE]
SnapshotRecord(files) == [add |-> files, del |-> {}, meta |-> <<>>, whole |-> TRUE]

\* The files a manifest adds up to (Builder::Apply, SaveTo) and its last numbers.
FilesOf(records) == FoldLeft(LAMBDA fs, r : (fs \ r.del) \cup r.add, {}, records)
MetaOf(records) == FoldLeft(LAMBDA m, r : IF r.meta = <<>> THEN m ELSE r.meta, <<>>, records)

\* The current version and every version an iterator or a compaction still holds.
AddLiveFiles(files, w) == files \cup pinned \cup (IF w = Nothing THEN {} ELSE w.ins)
PendingOutputs(w) == IF w = Nothing THEN {} ELSE w.outs

DeleteObsoleteFiles_NoPending(dk, d, w) ==
  IF d.error THEN dk ELSE [dk EXCEPT !.table = Restrict(@, DOMAIN @ \cap AddLiveFiles(d.files, w))]
DeleteObsoleteFiles_NotPinned(dk, d, w) ==
  [dk EXCEPT !.table = Restrict(@, DOMAIN @ \cap (d.files \cup PendingOutputs(w)))]

\* DeleteObsoleteFiles, with d the database and w the compaction after the step.
DeleteObsoleteFiles(dk, d, w) ==
  IF d.error THEN dk
  ELSE [dk EXCEPT !.log      = Restrict(@, {n \in DOMAIN @ : n >= d.logNumber}),
                  !.manifest = Restrict(@, {n \in DOMAIN @ : n >= d.manifest}),
                  !.table    = Restrict(@, DOMAIN @ \cap (AddLiveFiles(d.files, w) \cup PendingOutputs(w)))]

\* An append to the manifest in use, not yet synced.
LogEdit(dk, d, r) == [dk EXCEPT !.manifest[d.manifest] = Append(@, r)]
\* Mutant: the manifest is written, not synced.
SyncManifest_NoSync(n) == UNCHANGED durable

SyncManifest(n) == durable' = [durable EXCEPT !.manifest = Put(@, n, Len(disk.manifest[n]))]

-----------------------------------------------------------------------------
(* DB::Open. *)

\* Recover: with no CURRENT a new database is created.
Open ==
  /\ up = "down"
  /\ up' = IF disk.current = 0 THEN "newdb" ELSE "recover"
  /\ UNCHANGED <<disk, durable, db, edit, bgVars, writer, acked, count>>

\* NewDB, up to SetCurrentFile.  The manifest is closed, not synced.
NewDB ==
  /\ up = "newdb"
  /\ disk' = [disk EXCEPT !.manifest = Put(@, 1, <<EditRecord({}, {}, 0, 2, 0)>>)]
  /\ durable' = [durable EXCEPT !.manifest = Put(@, 1, 0)]
  /\ up' = "newcurrent"
  /\ UNCHANGED <<db, edit, bgVars, writer, acked, count>>

NewDBCurrent ==
  /\ up = "newcurrent"
  /\ disk' = [disk EXCEPT !.current = 1] /\ up' = "recover"
  /\ UNCHANGED <<durable, db, edit, bgVars, writer, acked, count>>

MarkFileNumberUsed(next, n) == IF next <= n THEN n + 1 ELSE next

\* The files Recover expects are looked for by number, whatever their type.
MissingFiles(files) == files \ (DOMAIN disk.log \cup DOMAIN disk.manifest \cup DOMAIN disk.table)

\* The logs to read, in the order in which they were generated.
LogsToRecover(minLog) == SetToSortSeq({n \in DOMAIN disk.log : n >= minLog}, <)

\* The manifest to go on with: the one CURRENT names, or a new one.
ReuseManifest(next) == IF ReuseLogs THEN disk.current ELSE next

\* VersionSet::Recover.  A record that cannot be read ends the manifest silently at
\* its end and is a corruption in front of others.
RecoverVersions ==
  LET all     == disk.manifest[disk.current]
      records == Readable(all)
      meta    == MetaOf(records)
  IN  /\ up = "recover"
      /\ IF \/ disk.current \notin DOMAIN disk.manifest \/ meta = <<>>
            \/ Len(all) > Len(records) + 1 \/ MissingFiles(FilesOf(records)) # {}
         THEN up' = "corrupt" /\ UNCHANGED <<db, edit>>
         ELSE /\ up' = "replay"
              /\ db' = [NoDB EXCEPT !.logNumber = meta[1], !.next = meta[2] + 1, !.seq = meta[3],
                                    !.files = FilesOf(records), !.opened = ReuseLogs,
                                    !.manifest = ReuseManifest(meta[2])]
              /\ edit' = [add |-> {}, save |-> ~ReuseLogs, logs |-> LogsToRecover(meta[1])]
      /\ UNCHANGED <<disk, durable, bgVars, writer, acked, count>>

\* The last sequence number after the entries of a log were read.
MaxSequence(entries, seq) == Max({r.seq : r \in entries} \cup {seq})

\* RecoverLogFile of the next log: its entries go into a table of their own,
\* or stay in the memtable when the log is the last and goes on being used.
RecoverLogFile ==
  LET n       == Head(edit.logs)
      entries == ToSet(Readable(disk.log[n]))
      keep    == ReuseLogs /\ Len(edit.logs) = 1 /\ Cardinality(entries) <= MemSize
      table   == db.next
      number  == IF keep \/ entries = {} THEN db.next ELSE db.next + 1
  IN  /\ up = "replay" /\ edit.logs # <<>>
      /\ db' = [db EXCEPT !.next = MarkFileNumberUsed(number, n), !.seq = MaxSequence(entries, @),
                          !.mem = IF keep THEN entries ELSE @, !.log = IF keep THEN n ELSE @]
      /\ IF keep \/ entries = {}
         THEN edit' = [edit EXCEPT !.logs = Tail(@)] /\ UNCHANGED disk
         ELSE /\ disk' = [disk EXCEPT !.table = Put(@, table, entries)]
              /\ edit' = [add |-> edit.add \cup {table}, logs |-> Tail(edit.logs), save |-> TRUE]
      /\ UNCHANGED <<durable, up, bgVars, writer, acked, count>>

\* A new log unless the last one is used on.
NewLog ==
  /\ up = "replay" /\ edit.logs = <<>>
  /\ IF db.log # 0 THEN UNCHANGED <<disk, durable, db>>
     ELSE /\ disk' = [disk EXCEPT !.log = Put(@, db.next, <<>>)]
          /\ durable' = [durable EXCEPT !.log = Put(@, db.next, 0)]
          /\ db' = [db EXCEPT !.log = db.next, !.next = @ + 1]
  /\ up' = "manifest"
  /\ UNCHANGED <<edit, bgVars, writer, acked, count>>

\* LogAndApply of the recovery's edit, up to its Sync: with no manifest open, into
\* a new one that starts with a snapshot of the version.
SaveManifest ==
  LET r == EditRecord(edit.add, {}, db.log, db.next, db.seq)
  IN  /\ up = "manifest" /\ edit.save
      /\ disk' = IF db.opened THEN LogEdit(disk, db, r)
                 ELSE [disk EXCEPT !.manifest = Put(@, db.manifest, <<SnapshotRecord(db.files), r>>)]
      /\ durable' = IF db.opened THEN durable ELSE [durable EXCEPT !.manifest = Put(@, db.manifest, 0)]
      /\ up' = "sync"
      /\ UNCHANGED <<db, edit, bgVars, writer, acked, count>>

SyncedManifest ==
  /\ up = "sync"
  /\ SyncManifest(db.manifest) /\ up' = "current"
  /\ UNCHANGED <<disk, db, edit, bgVars, writer, acked, count>>

\* SetCurrentFile for a new manifest; the version is installed and old files go.
Opened ==
  LET d == IF edit.save THEN [db EXCEPT !.files = @ \cup edit.add, !.logNumber = db.log, !.opened = TRUE]
           ELSE db
  IN  /\ up = "current" \/ (up = "manifest" /\ ~edit.save)
      /\ db' = d /\ edit' = NoEdit /\ up' = "open"
      /\ disk' = DeleteObsoleteFiles([disk EXCEPT !.current = db.manifest], d, Nothing)
      /\ UNCHANGED <<durable, bgVars, writer, acked, count>>

-----------------------------------------------------------------------------
(* The open database: writes, the memtable, compactions, iterators. *)

Running == up = "open" /\ ~db.error
Full == Cardinality(db.mem) >= MemSize

\* Write, up to AddRecord.
AppendRecord(sync) ==
  LET e == [id |-> count.writes + 1, seq |-> db.seq + 1, whole |-> TRUE]
  IN  /\ Running /\ writer = Nothing /\ ~Full /\ count.writes < MaxWrites
      /\ count' = [count EXCEPT !.writes = @ + 1]
      /\ disk' = [disk EXCEPT !.log[db.log] = Append(@, e)]
      /\ writer' = [entry |-> e, sync |-> sync]
      /\ UNCHANGED <<durable, up, db, edit, bgVars, acked>>

\* AddRecord fails, having written nothing or a part; the write returns an error.
AppendFails ==
  LET e == [id |-> count.writes + 1, seq |-> db.seq + 1, whole |-> FALSE]
  IN  /\ AppendMayFail /\ Running /\ writer = Nothing /\ ~Full /\ count.faults < MaxFaults
      /\ count' = [count EXCEPT !.writes = @ + 1, !.faults = @ + 1]
      /\ disk' \in {disk, [disk EXCEPT !.log[db.log] = Append(@, e)]}
      /\ db' = [db EXCEPT !.seq = @ + 1]
      /\ UNCHANGED <<durable, up, edit, bgVars, writer, acked>>

\* Sync if asked for, the memtable, and the answer.
FinishWrite ==
  /\ Running /\ writer # Nothing
  /\ durable' = IF writer.sync THEN [durable EXCEPT !.log[db.log] = Len(disk.log[db.log])] ELSE durable
  /\ db' = [db EXCEPT !.mem = @ \cup {writer.entry}, !.seq = @ + 1]
  /\ acked' = [all |-> acked.all \cup {writer.entry},
               sync |-> IF writer.sync THEN acked.sync \cup {writer.entry} ELSE acked.sync]
  /\ writer' = Nothing
  /\ UNCHANGED <<disk, up, edit, bgVars, count>>

\* MakeRoomForWrite switches to a new log; the old one is closed, not synced.
SwitchMemTable ==
  /\ Running /\ writer = Nothing /\ Full /\ db.imm = Nothing
  /\ disk' = [disk EXCEPT !.log = Put(@, db.next, <<>>)]
  /\ durable' = [durable EXCEPT !.log = Put(@, db.next, 0)]
  /\ db' = [db EXCEPT !.imm = [entries |-> db.mem], !.mem = {}, !.log = db.next, !.next = @ + 1]
  /\ UNCHANGED <<up, edit, bgVars, writer, acked, count>>

\* CompactMemTable: BuildTable writes and syncs the table; then its edit is logged,
\* then synced and installed.  It may run in the middle of a compaction.
BuildTable ==
  /\ Running /\ db.imm # Nothing /\ flush = Nothing /\ (work # Nothing => ~work.logged)
  /\ disk' = [disk EXCEPT !.table = Put(@, db.next, db.imm.entries)]
  /\ flush' = [out |-> db.next, log |-> 0, logged |-> FALSE]
  /\ db' = [db EXCEPT !.next = @ + 1]
  /\ UNCHANGED <<durable, up, edit, work, pinned, writer, acked, count>>

LogFlush ==
  /\ Running /\ flush # Nothing /\ ~flush.logged
  /\ disk' = LogEdit(disk, db, EditRecord({flush.out}, {}, db.log, db.next, db.seq))
  /\ flush' = [flush EXCEPT !.logged = TRUE, !.log = db.log]
  /\ UNCHANGED <<durable, up, db, edit, work, pinned, writer, acked, count>>

InstallFlush ==
  LET d == [db EXCEPT !.files = @ \cup {flush.out}, !.logNumber = flush.log, !.imm = Nothing]
  IN  /\ Running /\ flush # Nothing /\ flush.logged
      /\ SyncManifest(db.manifest)
      /\ db' = d /\ flush' = Nothing
      /\ disk' = DeleteObsoleteFiles(disk, d, work)
      /\ UNCHANGED <<up, edit, work, pinned, writer, acked, count>>

\* DoCompactionWork: the tables are merged into one or two, pending until the end.
StartWork ==
  LET entries == UNION {disk.table[n] : n \in db.files}
      first   == CHOOSE e \in entries : \A f \in entries : e.id <= f.id
  IN  /\ Running /\ flush = Nothing /\ work = Nothing /\ Cardinality(db.files) >= 2
      /\ count.works < MaxWorks /\ count' = [count EXCEPT !.works = @ + 1]
      /\ \/ /\ disk' = [disk EXCEPT !.table = Put(@, db.next, entries)]
            /\ work' = [ins |-> db.files, outs |-> {db.next}, logged |-> FALSE]
            /\ db' = [db EXCEPT !.next = @ + 1]
         \/ /\ disk' = [disk EXCEPT !.table = Put(Put(@, db.next, {first}), db.next + 1, entries \ {first})]
            /\ work' = [ins |-> db.files, outs |-> {db.next, db.next + 1}, logged |-> FALSE]
            /\ db' = [db EXCEPT !.next = @ + 2]
      /\ UNCHANGED <<durable, up, edit, flush, pinned, writer, acked>>

LogWork ==
  /\ Running /\ flush = Nothing /\ work # Nothing /\ ~work.logged
  /\ disk' = LogEdit(disk, db, EditRecord(work.outs, work.ins, db.logNumber, db.next, db.seq))
  /\ work' = [work EXCEPT !.logged = TRUE]
  /\ UNCHANGED <<durable, up, db, edit, flush, pinned, writer, acked, count>>

InstallWork ==
  LET d == [db EXCEPT !.files = (@ \ work.ins) \cup work.outs]
  IN  /\ Running /\ work # Nothing /\ work.logged
      /\ SyncManifest(db.manifest)
      /\ db' = d /\ work' = Nothing
      /\ disk' = DeleteObsoleteFiles(disk, d, Nothing)
      /\ UNCHANGED <<up, edit, flush, pinned, writer, acked, count>>

\* The manifest's Sync fails: the edit may or may not survive, the database stops.
ManifestFails ==
  /\ Running /\ count.faults < MaxFaults
  /\ (flush # Nothing /\ flush.logged) \/ (work # Nothing /\ work.logged)
  /\ count' = [count EXCEPT !.faults = @ + 1]
  /\ db' = [db EXCEPT !.error = TRUE]
  /\ flush' = Nothing /\ work' = Nothing
  /\ UNCHANGED <<disk, durable, up, edit, pinned, writer, acked>>

NewIterator ==
  /\ up = "open" /\ pinned = {} /\ db.files # {}
  /\ pinned' = db.files
  /\ UNCHANGED <<disk, durable, up, db, edit, flush, work, writer, acked, count>>

DeleteIterator ==
  /\ pinned # {} /\ pinned' = {}
  /\ UNCHANGED <<disk, durable, up, db, edit, flush, work, writer, acked, count>>

-----------------------------------------------------------------------------
(* Crashes, and the deletion of the database. *)

\* What the machine may leave of a file of which k records are durable.
Leftovers(records, k) ==
  {SubSeq(records, 1, j) : j \in k..Len(records)}
    \cup {Append(SubSeq(records, 1, j), [records[j + 1] EXCEPT !.whole = FALSE]) : j \in k..(Len(records) - 1)}

AllDurable(f) == [n \in DOMAIN f |-> Len(f[n])]

Crash ==
  /\ up \notin {"down", "corrupt"} /\ count.crashes < MaxCrashes
  /\ count' = [count EXCEPT !.crashes = @ + 1]
  /\ IF ~Machine THEN UNCHANGED disk
     ELSE \E ls \in [DOMAIN disk.log -> UNION {Leftovers(disk.log[n], durable.log[n]) : n \in DOMAIN disk.log}],
             ms \in [DOMAIN disk.manifest -> UNION {Leftovers(disk.manifest[n], durable.manifest[n])
                                                      : n \in DOMAIN disk.manifest}] :
            /\ \A n \in DOMAIN ls : ls[n] \in Leftovers(disk.log[n], durable.log[n])
            /\ \A n \in DOMAIN ms : ms[n] \in Leftovers(disk.manifest[n], durable.manifest[n])
            /\ disk' = [disk EXCEPT !.log = ls, !.manifest = ms]
  /\ durable' = IF Machine THEN [log |-> AllDurable(disk'.log), manifest |-> AllDurable(disk'.manifest)]
                ELSE durable
  /\ up' = "down" /\ db' = NoDB /\ edit' = NoEdit
  /\ flush' = Nothing /\ work' = Nothing /\ pinned' = {} /\ writer' = Nothing
  /\ UNCHANGED acked

DestroyDB ==
  /\ up = "down" /\ disk.current # 0 /\ count.crashes < MaxCrashes
  /\ count' = [count EXCEPT !.crashes = @ + 1]
  /\ disk' = [log |-> Empty, table |-> Empty, manifest |-> Empty, current |-> 0]
  /\ durable' = [log |-> Empty, manifest |-> Empty]
  /\ acked' = [all |-> {}, sync |-> {}]
  /\ UNCHANGED <<up, db, edit, bgVars, writer>>

OpenStep ==
  Open \/ NewDB \/ NewDBCurrent \/ RecoverVersions \/ RecoverLogFile \/ NewLog \/ SaveManifest
  \/ SyncedManifest \/ Opened

WriteStep == (\E s \in SyncKinds : AppendRecord(s)) \/ AppendFails \/ FinishWrite \/ SwitchMemTable

Background == BuildTable \/ LogFlush \/ InstallFlush \/ StartWork \/ LogWork \/ InstallWork

Next ==
  \/ OpenStep \/ WriteStep \/ Background \/ ManifestFails
  \/ NewIterator \/ DeleteIterator \/ Crash \/ DestroyDB

Spec == Init /\ [][Next]_vars /\ WF_vars(OpenStep)

-----------------------------------------------------------------------------
(* Properties. *)

Contents == db.mem \cup (IF db.imm = Nothing THEN {} ELSE db.imm.entries)
              \cup UNION {disk.table[n] : n \in db.files}

TypeOK ==
  /\ up \in {"down", "newdb", "newcurrent", "recover", "replay", "manifest", "sync", "current", "open",
             "corrupt"}
  /\ DOMAIN disk.log \subseteq DOMAIN durable.log /\ DOMAIN disk.manifest \subseteq DOMAIN durable.manifest
  /\ \A n \in DOMAIN disk.log : durable.log[n] \in 0..Len(disk.log[n])
  /\ \A n \in DOMAIN disk.log \cup DOMAIN disk.table \cup DOMAIN disk.manifest : up = "open" => n < db.next

\* Nothing promised is lost.  When only the process crashes "no writes will be
\* lost even if sync==false"; when the machine does, the writes that asked for
\* Sync are there (WriteOptions::sync, DBImpl::Recover).
NothingLost == up = "open" => (IF Machine THEN acked.sync ELSE acked.all) \subseteq Contents

\* A database can always be opened again: whatever moment a crash picked, CURRENT
\* names a manifest that can be read and the tables it lists exist.
CanBeOpened == up # "corrupt"

\* A database that cannot be opened again never held a write.
UnopenableIsEmpty == up = "corrupt" => acked.all = {}

\* No file in use is deleted: the tables of the current version, of versions held
\* by iterators, and the inputs and output of a compaction exist, and so does
\* the log of every entry that is in no table yet (DeleteObsoleteFiles).
UsedFilesExist ==
  up = "open" =>
    /\ AddLiveFiles(db.files, work) \cup PendingOutputs(work) \subseteq DOMAIN disk.table
    /\ db.manifest = disk.current /\ db.manifest \in DOMAIN disk.manifest
    /\ \A e \in db.mem \cup (IF db.imm = Nothing THEN {} ELSE db.imm.entries) :
         \E n \in DOMAIN disk.log : n >= db.logNumber /\ e \in ToSet(disk.log[n])

\* Two entries never share a sequence number, although the numbers of lost
\* writes are given out again (max_sequence in Recover).
SequencesUnique == up = "open" => \A d, e \in Contents : d.seq = e.seq => d = e

\* A file number is not given out again while the file has something to lose: no step
\* but a deletion or a crash changes a table, and logs and manifests only grow.
FilesKept ==
  up' # "down" =>
    /\ \A n \in DOMAIN disk.table \cap DOMAIN disk'.table :
         n \in db.files \cup edit.add \cup pinned => disk'.table[n] = disk.table[n]
    /\ \A n \in DOMAIN disk.log \cap DOMAIN disk'.log : IsPrefix(disk.log[n], disk'.log[n])
    /\ disk.current # 0 /\ disk.current \in DOMAIN disk'.manifest =>
         IsPrefix(disk.manifest[disk.current], disk'.manifest[disk.current])

\* After a crash DB::Open comes to an end.
Opening == up \notin {"open", "corrupt", "down"}
OpenEnds == Opening ~> ~Opening

\* "A DB write with sync==true has similar crash semantics to a write() system call
\* followed by fsync()": where it survives, so do the writes before it.
SyncCoversEarlier ==
  up = "open" => \A e \in acked.sync, d \in acked.all : d.id < e.id => d \in Contents
=============================================================================
