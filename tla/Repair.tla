------------------------------- MODULE Repair -------------------------------
(***************************************************************************)
(* RepairDB: the descriptor of a database is made anew from the files that *)
(* are there.  Logs become tables, tables are scanned, what can be read of *)
(* a damaged one is copied, and every table goes to level 0.               *)
(*                                                                         *)
(* First a database writes, flushes and compacts; then files are damaged   *)
(* and the Repairer runs.  It may crash and be run again, and an operation *)
(* on a file may fail.  An entry is a key with its sequence number.        *)
(***************************************************************************)
EXTENDS Integers, Sequences, FiniteSets, SequencesExt, FiniteSetsExt, Functions

CONSTANTS
  Keys,
  MaxPuts,      \* bound: entries written
  MaxFiles,     \* bound: file numbers of the database before the repair
  MaxLevel,     \* kNumLevels - 1, 6 in the code
  Damages,      \* bound: damaged tables
  LogDamages,   \* bound: damaged records of logs
  Faults,       \* bound: operations that fail
  Crashes       \* bound

VARIABLES
  db,         \* the database before: sequence number, next file, level of each table
  tables,     \* table files: what they hold, and what of it can be read
  logs,       \* log files: their records
  lost,       \* the lost directory: table files by number, and the logs' entries
  manifest,   \* the descriptor CURRENT names: "old", "none" or the new one
  rep,        \* the Repairer, and where it is
  used        \* damages, faults and crashes so far
vars == <<db, tables, logs, lost, manifest, rep, used>>

Huge == 99       \* a sequence number that was never written
Entry(k, s) == [k |-> k, seq |-> s]
Whole(es) == [all |-> es, read |-> es]
Ok(t) == t.read = t.all
With(f, n, x) == [m \in DOMAIN f \union {n} |-> IF m = n THEN x ELSE f[m]]
Without(f, n) == Restrict(f, DOMAIN f \ {n})
Off == [pc |-> "off"]

Init ==
  /\ db = [seq |-> 0, next |-> 2, level |-> <<>>, log |-> 1, had |-> {}]
  /\ tables = <<>>
  /\ logs = [n \in {1} |-> <<>>]
  /\ lost = [tables |-> <<>>, logs |-> {}]
  /\ manifest = [kind |-> "old"]
  /\ rep = Off
  /\ used = [damage |-> 0, log |-> 0, fault |-> 0, crash |-> 0]
-----------------------------------------------------------------------------
(* The database, as DBWrite and Compaction have it. *)
Before == manifest.kind = "old" /\ rep.pc = "off" /\ used.fault = 0 /\ used.crash = 0
Running == Before /\ used.damage = 0 /\ used.log = 0

Put(k) ==
  /\ Running /\ db.seq < MaxPuts
  /\ db' = [db EXCEPT !.seq = @ + 1]
  /\ logs' = [logs EXCEPT ![db.log] = Append(@, [entry |-> Entry(k, db.seq + 1), ok |-> TRUE])]
  /\ UNCHANGED <<tables, lost, manifest, rep, used>>

\* MakeRoomForWrite: the old log stays until its table is there.
SwitchLog ==
  /\ Running /\ db.next <= MaxFiles
  /\ Cardinality(DOMAIN logs) = 1 /\ logs[db.log] # <<>>
  /\ logs' = With(logs, db.next, <<>>)
  /\ db' = [db EXCEPT !.log = db.next, !.next = @ + 1]
  /\ UNCHANGED <<tables, lost, manifest, rep, used>>

Flush ==
  /\ Running /\ db.next <= MaxFiles
  /\ \E n \in DOMAIN logs \ {db.log} :
       /\ tables' = With(tables, db.next, Whole({logs[n][i].entry : i \in DOMAIN logs[n]}))
       /\ logs' = Without(logs, n)
  /\ db' = [db EXCEPT !.level = With(@, db.next, 0), !.next = @ + 1]
  /\ UNCHANGED <<lost, manifest, rep, used>>

\* All tables of a level and the next one become one, with the newest entry of
\* each key.
Compact(l) ==
  LET in == {n \in DOMAIN tables : db.level[n] \in {l, l + 1}}
      all == UNION {tables[n].all : n \in in}
      newest == {e \in all : \A f \in all : f.k = e.k => f.seq <= e.seq}
  IN /\ Running /\ db.next <= MaxFiles
     /\ \E n \in in : db.level[n] = l
     /\ tables' = With(Restrict(tables, DOMAIN tables \ in), db.next, Whole(newest))
     /\ db' = [db EXCEPT !.level = With(Restrict(@, DOMAIN tables \ in), db.next, l + 1), !.next = @ + 1]
     /\ UNCHANGED <<logs, lost, manifest, rep, used>>

\* Part of a table cannot be read any more; an iterator stops there.
DamageTable(n) ==
  /\ Before /\ used.damage < Damages
  /\ Ok(tables[n])
  /\ \E r \in SUBSET tables[n].all :
       /\ r # tables[n].all
       /\ tables' = [tables EXCEPT ![n].read = r]
  /\ used' = [used EXCEPT !.damage = @ + 1]
  /\ UNCHANGED <<db, logs, lost, manifest, rep>>

DamageLog(n, i) ==
  /\ Before /\ used.log < LogDamages
  /\ logs' = [logs EXCEPT ![n][i].ok = FALSE]
  /\ used' = [used EXCEPT !.log = @ + 1]
  /\ UNCHANGED <<db, tables, lost, manifest, rep>>
-----------------------------------------------------------------------------
(* The Repairer. *)
MayFail == used.fault < Faults
Fault(f) == used' = IF f THEN [used EXCEPT !.fault = @ + 1] ELSE used
FaultChoice == {f \in BOOLEAN : f => MayFail}

\* History: what could be read when the first repair began.
Readable == (UNION {tables[n].read : n \in DOMAIN tables})
              \union UNION {{logs[n][i].entry : i \in {i \in DOMAIN logs[n] : logs[n][i].ok}} : n \in DOMAIN logs}

NextNumber == Max(DOMAIN logs \union DOMAIN tables \union {0}) + 1

\* FindFiles: logs and tables in the order of the directory, the next number above
\* those of logs and tables.
FindFiles ==
  /\ rep.pc = "off" /\ manifest.kind # "new"
  /\ \E order \in SetToSeqs(DOMAIN logs), scan \in SetToSeqs(DOMAIN tables) :
       rep' = [pc |-> "logs", logs |-> order, numbers |-> scan, found |-> <<>>,
               next |-> NextNumber]
  /\ db' = IF used.crash + used.fault > 0 THEN db ELSE [db EXCEPT !.had = Readable]
  /\ UNCHANGED <<tables, logs, lost, manifest, used>>

\* What ReadRecord and InsertInto make of a record: the reader does not verify
\* checksums, so that a damaged record may be taken for a batch.
RecordEntry(r) == IF r.ok THEN {r.entry} ELSE {Entry(r.entry.k, Huge)}

\* table_numbers_ with the table made from a log.
Scanned(numbers, n) == Append(numbers, n)

\* ConvertLogToTable, up to its table; a table that cannot be built is removed.
ConvertLog ==
  /\ rep.pc = "logs" /\ rep.logs # <<>>
  /\ \E noLog \in FaultChoice, noTable \in FaultChoice :
       LET entries == UNION {RecordEntry(logs[Head(rep.logs)][i]) : i \in DOMAIN logs[Head(rep.logs)]}
           built == ~noLog /\ ~noTable /\ entries # {}
       IN /\ ~(noLog /\ noTable)
          /\ rep' = [rep EXCEPT !.pc = "archive", !.next = IF noLog THEN @ ELSE @ + 1,
                                !.numbers = IF built THEN Scanned(@, rep.next) ELSE @]
          /\ tables' = IF built THEN With(tables, rep.next, Whole(entries)) ELSE tables
          /\ Fault(noLog \/ noTable)
  /\ UNCHANGED <<db, logs, lost, manifest>>

\* ArchiveFile, whether or not the log was converted; the rename may fail.
ArchiveLog ==
  /\ rep.pc = "archive"
  /\ \E f \in FaultChoice :
       /\ IF f THEN UNCHANGED <<logs, lost>>
          ELSE /\ lost' = [lost EXCEPT !.logs = @ \union {logs[Head(rep.logs)][i].entry : i \in DOMAIN logs[Head(rep.logs)]}]
               /\ logs' = Without(logs, Head(rep.logs))
       /\ Fault(f)
  /\ rep' = [rep EXCEPT !.pc = "logs", !.logs = Tail(@)]
  /\ UNCHANGED <<db, tables, manifest>>

ExtractMetaData ==
  /\ rep.pc = "logs" /\ rep.logs = <<>>
  /\ rep' = [rep EXCEPT !.pc = "scan"]
  /\ UNCHANGED <<db, tables, logs, lost, manifest, used>>

KeyRange(es) == [smallest |-> Min({e.k : e \in es}), largest |-> Max({e.k : e \in es})]

\* Over the entries in the order of the table.
MaxSequence(es) == Max({e.seq : e \in es})

Info(n, es) == [number |-> n, range |-> KeyRange(es), max_sequence |-> MaxSequence(es)]

\* ScanTable of a table that can be read to its end; an empty one has no range.
ScanTable ==
  /\ rep.pc = "scan" /\ rep.numbers # <<>>
  /\ LET n == Head(rep.numbers)
     IN /\ n \in DOMAIN tables /\ Ok(tables[n])
        /\ rep' = [rep EXCEPT !.numbers = Tail(@), !.found = Append(@, Info(n, tables[n].read))]
  /\ UNCHANGED <<db, tables, logs, lost, manifest, used>>

\* A table whose size cannot be told is dropped.
DropTable ==
  /\ rep.pc = "scan" /\ rep.numbers # <<>> /\ MayFail
  /\ lost' = [lost EXCEPT !.tables = With(@, Head(rep.numbers), tables[Head(rep.numbers)])]
  /\ tables' = Without(tables, Head(rep.numbers))
  /\ rep' = [rep EXCEPT !.numbers = Tail(@)]
  /\ Fault(TRUE)
  /\ UNCHANGED <<db, logs, manifest>>

\* RepairTable: the file of the copy, or nothing if it cannot be made.  Until it
\* is finished the entry 0 stands for the footer it does not have.
NewCopy ==
  /\ rep.pc = "scan" /\ rep.numbers # <<>>
  /\ ~Ok(tables[Head(rep.numbers)])
  /\ \E f \in FaultChoice :
       /\ rep' = IF f THEN [rep EXCEPT !.numbers = Tail(@), !.next = @ + 1] ELSE [rep EXCEPT !.pc = "copied", !.next = @ + 1]
       /\ tables' = IF f THEN tables ELSE With(tables, rep.next, [all |-> tables[Head(rep.numbers)].read \union {Entry(0, 0)}, read |-> {}])
       /\ Fault(f)
  /\ UNCHANGED <<db, logs, lost, manifest>>

\* The source goes to lost before the copy is finished.
ArchiveSource ==
  /\ rep.pc = "copied"
  /\ \E f \in FaultChoice :
       /\ IF f THEN UNCHANGED <<tables, lost>>
          ELSE /\ lost' = [lost EXCEPT !.tables = With(@, Head(rep.numbers), tables[Head(rep.numbers)])]
               /\ tables' = Without(tables, Head(rep.numbers))
       /\ rep' = [rep EXCEPT !.pc = "finish"]
       /\ Fault(f)
  /\ UNCHANGED <<db, logs, manifest>>

\* Finish, Close and RenameFile: the copy gets the number of its source.
\* An empty copy is abandoned, one that fails is deleted.
FinishCopy ==
  LET copy == rep.next - 1
      n == Head(rep.numbers)
      es == tables[copy].all \ {Entry(0, 0)}
  IN /\ rep.pc = "finish"
     /\ \E f \in FaultChoice :
          /\ IF es # {} /\ ~f
             THEN /\ tables' = With(Without(tables, copy), n, Whole(es))
                  /\ rep' = [rep EXCEPT !.pc = "scan", !.numbers = Tail(@), !.found = Append(@, Info(n, es))]
             ELSE /\ tables' = IF f THEN Without(tables, copy) ELSE tables
                  /\ rep' = [rep EXCEPT !.pc = "scan", !.numbers = Tail(@)]
          /\ Fault(f)
     /\ UNCHANGED <<db, logs, lost, manifest>>

\* WriteDescriptor, its temporary file: an error ends the repair.
WriteDescriptor ==
  /\ rep.pc = "scan" /\ rep.numbers = <<>>
  /\ \E f \in FaultChoice :
       /\ rep' = IF f THEN Off ELSE [rep EXCEPT !.pc = "install"]
       /\ Fault(f)
  /\ UNCHANGED <<db, tables, logs, lost, manifest>>

\* The old manifests are archived before the new one is renamed.
ArchiveManifests ==
  /\ rep.pc = "install"
  /\ \E f \in FaultChoice :
       /\ manifest' = IF f THEN manifest ELSE [kind |-> "none"]
       /\ Fault(f)
  /\ rep' = [rep EXCEPT !.pc = "rename"]
  /\ UNCHANGED <<db, tables, logs, lost>>

NextFile(r) == r.next

Install ==
  /\ rep.pc = "rename"
  /\ \E f \in FaultChoice :
       /\ manifest' = IF f THEN manifest
                      ELSE [kind |-> "new", files |-> ToSet(rep.found), next |-> NextFile(rep),
                            last |-> Max({rep.found[i].max_sequence : i \in DOMAIN rep.found} \union {0})]
       /\ Fault(f)
  /\ rep' = Off
  /\ UNCHANGED <<db, tables, logs, lost>>

\* The process dies: tables and manifests that are renamed stay, a copy that
\* is not finished cannot be read.
Crash ==
  /\ rep.pc # "off" /\ used.crash < Crashes
  /\ used' = [used EXCEPT !.crash = @ + 1]
  /\ rep' = Off
  /\ UNCHANGED <<db, tables, logs, lost, manifest>>

Database == (\E k \in Keys : Put(k)) \/ SwitchLog \/ Flush \/ \E l \in 0..(MaxLevel - 1) : Compact(l)
Damage == (\E n \in DOMAIN tables : DamageTable(n)) \/ \E n \in DOMAIN logs : \E i \in DOMAIN logs[n] : DamageLog(n, i)
Run ==
  \/ FindFiles \/ ConvertLog \/ ArchiveLog \/ ExtractMetaData \/ ScanTable \/ DropTable
  \/ NewCopy \/ ArchiveSource \/ FinishCopy
  \/ WriteDescriptor \/ ArchiveManifests \/ Install
Next == Database \/ Damage \/ Run \/ Crash
Spec == Init /\ [][Next]_vars
-----------------------------------------------------------------------------
Done == manifest.kind = "new"
Recovered == UNION {tables[t.number].read : t \in manifest.files}

\* The state is well formed: the numbers the Repairer goes through are those
\* of files, and it gives no number twice.
TypeOK ==
  /\ \A n \in DOMAIN tables : tables[n].read \subseteq tables[n].all
  /\ rep.pc # "off" => /\ \A n \in DOMAIN tables \union DOMAIN logs : n < rep.next
                        /\ \A i \in DOMAIN rep.found : rep.found[i].number \in DOMAIN tables
                        /\ IsInjective(rep.numbers)

\* A repair destroys nothing that could be read when it began, whichever
\* operations fail and whenever it crashes: every entry is in a table, in a
\* log or in the lost directory.
NothingDestroyed ==
  db.had \subseteq (UNION {tables[n].read : n \in DOMAIN tables})
              \union (UNION {{logs[n][i].entry : i \in DOMAIN logs[n]} : n \in DOMAIN logs})
              \union lost.logs \union (UNION {lost.tables[n].read : n \in DOMAIN lost.tables})

\* RepairDB is to "resurrect as much of the contents of the database as
\* possible" (db.h): if no operation fails, every entry that could be read is
\* in a table of the new descriptor.
AllRecovered == Done /\ used.fault = 0 => db.had \subseteq Recovered

\* The descriptor fits the files: its tables are there and can be read, their
\* ranges cover their entries, new files and new writes get numbers that were
\* not used before.
DescriptorRight ==
  Done =>
    /\ \A t \in manifest.files :
         /\ t.number \in DOMAIN tables /\ Ok(tables[t.number])
         /\ \A e \in tables[t.number].read : t.range.smallest <= e.k /\ e.k <= t.range.largest
    /\ \A n \in DOMAIN tables \union DOMAIN logs : n < manifest.next
    /\ \A e \in Recovered : e.seq <= manifest.last

\* "Level-0 files may overlap each other.  Find all files that overlap user_key
\* and process them in order from newest to oldest" (version_set.cc,
\* Version::Get): the table with the largest number that has a key has its
\* newest entry.
NewestFirst ==
  Done => \A k \in Keys :
    LET of(n) == {e \in tables[n].read : e.k = k}
        having == {t.number : t \in {t \in manifest.files : of(t.number) # {}}}
    IN having # {} => Max({e.seq : e \in of(Max(having))}) = Max({e.seq : e \in {e \in Recovered : e.k = k}})

\* "We intentionally make log::Reader do checksumming so that corruptions cause
\* entire commits to be skipped instead of propagating bad information (like
\* overly large sequence numbers)" (repair.cc, ConvertLogToTable).
NoBadSequence == Done => manifest.last <= db.seq
=============================================================================
