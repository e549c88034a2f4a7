----------------------------- MODULE Compaction -----------------------------
(***************************************************************************)
(* leveldb's tree of table files under way: memtables are flushed into it, *)
(* the background thread moves and merges its files (db/db_impl.cc,        *)
(* db/version_set.cc), and readers read through snapshots and through the  *)
(* versions they hold on to.  The mutex makes a step of each stretch of    *)
(* code that holds it; DoCompactionWork releases it and takes one step for *)
(* each entry it reads, between which it may flush a memtable.             *)
(*                                                                         *)
(* An entry is an internal key [k, s, t]: user key, sequence number, and   *)
(* the type of the write; its value is known by s.  A file is [num, ents]; *)
(* a version maps each level to its set of files, which the code keeps as  *)
(* a vector in the order Builder::SaveTo gives it.  A null Slice* is NoLow *)
(* or NoHigh.                                                              *)
(***************************************************************************)
EXTENDS Integers, FiniteSets, Sequences, FiniteSetsExt

CONSTANTS
  MaxKey,           \* user keys are 1..MaxKey
  MaxSeq,           \* bound: sequence numbers given out
  NumLevels,        \* config::kNumLevels
  MaxMemLevel,      \* config::kMaxMemCompactLevel
  L0Trigger,        \* config::kL0_CompactionTrigger
  MaxFileSize,      \* options.max_file_size, in entries
  LevelBytes,       \* MaxBytesForLevel of the levels 1.., in entries
  MaxGrandParent,   \* MaxGrandParentOverlapBytes, in entries
  ExpandLimit       \* ExpandedCompactionByteSizeLimit, in entries

SizesAssumption ==
  /\ NumLevels > 2 /\ MaxMemLevel \in 0..(NumLevels - 1) /\ L0Trigger > 0
  /\ MaxFileSize > 0 /\ \A l \in 1..(NumLevels - 2) : LevelBytes[l] > 0

Levels == 0..(NumLevels - 1)
NoLow == 0
NoHigh == MaxKey + 1
Nothing == [none |-> TRUE]
NoFiles == [l \in Levels |-> {}]

\* InternalKeyComparator::Compare: user key up, then sequence number down.
IKLess(a, b) == a.k < b.k \/ (a.k = b.k /\ a.s > b.s)

\* The key a search for user key k at sequence number s starts from, and the
\* one before every entry of k.
LookupKey(k, s) == [k |-> k, s |-> s]
SeekKey(k) == LookupKey(k, MaxSeq + 1)

Least(ents) == CHOOSE e \in ents : \A o \in ents : o = e \/ IKLess(e, o)
Greatest(ents) == CHOOSE e \in ents : \A o \in ents : o = e \/ IKLess(o, e)
Smallest(f) == Least(f.ents)
Largest(f) == Greatest(f.ents)
EntriesOf(files) == UNION {f.ents : f \in files}
TotalFileSize(files) == Cardinality(UNION {{f.num} \X f.ents : f \in files})

\* The entries of an input iterator, in its order.
InKeyOrder(ents) ==
  [i \in 1..Cardinality(ents) |->
     CHOOSE e \in ents : Cardinality({o \in ents : IKLess(o, e)}) = i - 1]

\* Builder::BySmallestKey, and the vector files_[level] it gives.
BySmallestKey(f, g) ==
  IKLess(Smallest(f), Smallest(g)) \/ (Smallest(f) = Smallest(g) /\ f.num < g.num)
FileList(files) ==
  [i \in 1..Cardinality(files) |->
     CHOOSE f \in files : Cardinality({g \in files : BySmallestKey(g, f)}) = i - 1]

\* Newest first, as level 0 is searched (NewestFirst).
NewestFirst(files) ==
  [i \in 1..Cardinality(files) |->
     CHOOSE f \in files : Cardinality({g \in files : g.num > f.num}) = i - 1]

-----------------------------------------------------------------------------
(* Looking for files. *)

Mid(left, right) == (left + right) \div 2

\* The (zero based) index of the first file whose largest key is at or after
\* `key', as the binary search finds it.
FindFile(list, key) ==
  LET search[left \in 0..Len(list), right \in 0..Len(list)] ==
        IF left >= right THEN right
        ELSE IF IKLess(Largest(list[Mid(left, right) + 1]), key) THEN search[Mid(left, right) + 1, right]
        ELSE search[left, Mid(left, right)]
  IN search[0, Len(list)]

AfterFile(k, f) == k # NoLow /\ k > Largest(f).k
BeforeFile(k, f) == k # NoHigh /\ k < Smallest(f).k

EndsInside(list, index, high) == index < Len(list) /\ ~BeforeFile(high, list[index + 1])
OverlapsList(list, low, high) ==
  EndsInside(list, IF low = NoLow THEN 0 ELSE FindFile(list, SeekKey(low)), high)
SomeFileOverlapsRange(disjoint, files, low, high) ==
  IF disjoint THEN OverlapsList(FileList(files), low, high)
  ELSE \E f \in files : ~AfterFile(low, f) /\ ~BeforeFile(high, f)

OverlapInLevel(v, level, low, high) == SomeFileOverlapsRange(level > 0, v[level], low, high)

\* The files of a level that share user keys with [low, high].  On level 0 a
\* file that reaches beyond the range widens it, and the search starts again.
SharingKeys(files, lo, hi) == {f \in files : Largest(f).k >= lo /\ Smallest(f).k <= hi}
LowEnd(files, lo) == Min({lo} \cup {Smallest(f).k : f \in files})
HighEnd(files, hi) == Max({hi} \cup {Largest(f).k : f \in files})
GetOverlappingInputs(v, level, low, high) ==
  LET found[lo \in NoLow..NoHigh, hi \in NoLow..NoHigh] ==
        LET hit == SharingKeys(v[level], lo, hi)
        IN IF level > 0 \/ (LowEnd(hit, lo) = lo /\ HighEnd(hit, hi) = hi) THEN hit
           ELSE found[LowEnd(hit, lo), HighEnd(hit, hi)]
  IN found[low, high]

\* How deep a new table may go without passing a file it overlaps.
MayEnter(v, l, low, high) ==    \* from level l - 1
  /\ ~OverlapInLevel(v, l, low, high)
  /\ l + 1 < NumLevels =>
       TotalFileSize(GetOverlappingInputs(v, l + 1, low, high)) <= MaxGrandParent
PickLevelForMemTableOutput(v, low, high) ==
  IF OverlapInLevel(v, 0, low, high) THEN 0
  ELSE Max({l \in 0..MaxMemLevel : \A m \in 1..l : MayEnter(v, m, low, high)})

-----------------------------------------------------------------------------
(* Reading. *)

\* The files of a level that Version::Get and ForEachOverlapping search for
\* the entries of k at s, in their order: on level 0 newest first.
FileAt(list, index, k) ==
  IF index < Len(list) /\ Smallest(list[index + 1]).k <= k THEN <<list[index + 1]>> ELSE <<>>
FoundIn(list, k, s) == FileAt(list, FindFile(list, LookupKey(k, s)), k)
FilesToSearch(v, level, k, s) ==
  IF level = 0 THEN NewestFirst({f \in v[0] : Smallest(f).k <= k /\ k <= Largest(f).k})
  ELSE FoundIn(FileList(v[level]), k, s)

\* Every file searched, with its level.
OnLevel(files, l) == [i \in 1..Len(files) |-> [file |-> files[i], level |-> l]]
SearchPath(v, k, s) ==
  LET from[l \in 0..NumLevels] ==
        IF l = NumLevels THEN <<>> ELSE OnLevel(FilesToSearch(v, l, k, s), l) \o from[l + 1]
  IN from[0]

\* The first entry at or after the lookup key, if it is one of k: what a
\* table or a memtable finds (SaveValue, MemTable::Get).
EntryIn(ents, k, s) ==
  IF \E e \in ents : e.k = k /\ e.s <= s THEN Least({e \in ents : e.k = k /\ e.s <= s}) ELSE Nothing

\* Version::Get: the entry of the first file that has one, and the file to
\* charge for a second seek.
Hits(path, k, s) == {i \in 1..Len(path) : EntryIn(path[i].file.ents, k, s) # Nothing}
GetAlong(path, hits, reads, k, s) ==
  [entry |-> IF hits = {} THEN Nothing ELSE EntryIn(path[reads].file.ents, k, s),
   seek |-> IF reads > 1 THEN path[1] ELSE Nothing,
   read |-> {path[i].file.num : i \in 1..reads}]
GetUpTo(path, hits, k, s) ==
  GetAlong(path, hits, IF hits = {} THEN Len(path) ELSE Min(hits), k, s)
GetOn(path, k, s) == GetUpTo(path, Hits(path, k, s), k, s)
VersionGet(v, k, s) == GetOn(SearchPath(v, k, s), k, s)

\* Version::RecordReadSample: the file to charge when two hold the key.
FirstOfTwo(path) == IF Len(path) >= 2 THEN path[1] ELSE Nothing
SampleCharge(v, k, s) == FirstOfTwo(SearchPath(v, k, s))

-----------------------------------------------------------------------------
(* Choosing what to compact. *)

\* VersionSet::Finalize: the level furthest over its limit, the first such.
\* Scores are fractions, compared by cross multiplication.
Amount(v, l) == IF l = 0 THEN Cardinality(v[0]) ELSE TotalFileSize(v[l])
Limit(l) == IF l = 0 THEN L0Trigger ELSE LevelBytes[l]
CompactionLevel(v) ==
  CHOOSE l \in 0..(NumLevels - 2) : \A m \in 0..(NumLevels - 2) :
    /\ Amount(v, l) * Limit(m) >= Amount(v, m) * Limit(l)
    /\ m < l => Amount(v, l) * Limit(m) > Amount(v, m) * Limit(l)
SizeCompaction(v) == Amount(v, CompactionLevel(v)) >= Limit(CompactionLevel(v))

\* AddBoundaryInputs: while the largest key of `files' is continued by the
\* smallest key of another file of the level, that file joins.
ContinuedBy(level, last) == {f \in level : IKLess(last, Smallest(f)) /\ Smallest(f).k = last.k}
WithFirst(files, next) ==
  files \cup (IF next = {} THEN {} ELSE {CHOOSE f \in next : \A g \in next : g = f \/ BySmallestKey(f, g)})
WithBoundaryFile(level, files) ==
  WithFirst(files, ContinuedBy(level, Greatest(EntriesOf(files))))

AddBoundaryInputs(level, files) ==
  LET add[n \in 0..Cardinality(level)] ==
        IF n = 0 \/ files = {} THEN files ELSE WithBoundaryFile(level, add[n - 1])
  IN add[Cardinality(level)]

\* VersionSet::SetupOtherInputs: the files of the next level, the files of
\* this level that can join without drawing in more of the next, and the
\* grandparents.  GetRange and GetRange2 are Least and Greatest.
OverlappingAll(v, level, ents) == GetOverlappingInputs(v, level, Least(ents).k, Greatest(ents).k)
Overlapping(v, level, inputs) == OverlappingAll(v, level, EntriesOf(inputs))
Inputs(v, level, in0, in1) ==
  [level |-> level, in0 |-> in0, in1 |-> in1,
   grandparents |-> IF level + 2 < NumLevels THEN Overlapping(v, level + 2, in0 \cup in1) ELSE {},
   pointer |-> Greatest(EntriesOf(in0))]
Narrower(v, level, in0, in1, more0, more1) ==
  IF Cardinality(more1) = Cardinality(in1) THEN Inputs(v, level, more0, more1)
  ELSE Inputs(v, level, in0, in1)
Expanded(v, level, in0, in1, more0) ==
  IF /\ in1 # {} /\ Cardinality(more0) > Cardinality(in0)
     /\ TotalFileSize(in1) + TotalFileSize(more0) < ExpandLimit
  THEN Narrower(v, level, in0, in1, more0, Overlapping(v, level + 1, more0))
  ELSE Inputs(v, level, in0, in1)
WithNextLevel(v, level, in0, in1) ==
  Expanded(v, level, in0, in1,
           AddBoundaryInputs(v[level], Overlapping(v, level, in0 \cup in1)))
WithBoundary(v, level, in0) == WithNextLevel(v, level, in0, Overlapping(v, level + 1, in0))
SetupOtherInputs(v, level, files) == WithBoundary(v, level, AddBoundaryInputs(v[level], files))

\* The file a size compaction starts from: the first after the level's
\* pointer, or the first of all.
PastPointer(list, pointer) ==
  {i \in 1..Len(list) : pointer = Nothing \/ IKLess(pointer, Largest(list[i]))}
FirstOf(list, chosen) == list[IF chosen = {} THEN 1 ELSE Min(chosen)]
FirstPast(list, pointer) == FirstOf(list, PastPointer(list, pointer))
SizeFile(v, level, pointer) == FirstPast(FileList(v[level]), pointer)

\* VersionSet::PickCompaction, from a file of a level: on level 0 with all the
\* files it overlaps.
PickedInputs(v, level, file) ==
  SetupOtherInputs(v, level,
    IF level = 0 THEN GetOverlappingInputs(v, 0, Smallest(file).k, Largest(file).k) ELSE {file})

\* VersionSet::CompactRange: below level 0 only as many files as make up one
\* full output.  `Nothing' is the null compaction.
FullAt(list) == {i \in 1..Len(list) : TotalFileSize({list[j] : j \in 1..i}) >= MaxFileSize}
UpToFirst(list, full) == {list[j] : j \in 1..(IF full = {} THEN Len(list) ELSE Min(full))}
OneOutput(list) == UpToFirst(list, FullAt(list))
CompactFiles(v, level, files) ==
  IF files = {} THEN Nothing
  ELSE SetupOtherInputs(v, level, IF level = 0 THEN files ELSE OneOutput(FileList(files)))
CompactRange(v, level, low, high) == CompactFiles(v, level, GetOverlappingInputs(v, level, low, high))

\* Compaction::IsTrivialMove.

IsTrivialMove(c) ==
  Cardinality(c.in0) = 1 /\ c.in1 = {} /\ TotalFileSize(c.grandparents) <= MaxGrandParent

\* Compaction::IsBaseLevelForKey: no file below the output level may hold k.

IsBaseLevelForKey(v, level, k) ==
  \A l \in (level + 2)..(NumLevels - 1) : \A f \in v[l] : ~(Smallest(f).k <= k /\ k <= Largest(f).k)

\* Builder::Apply and SaveTo: a version after an edit.
SaveTo(v, deleted, added) ==
  [l \in Levels |-> {f \in v[l] : <<l, f.num>> \notin deleted}
                    \cup {a.file : a \in {b \in added : b.level = l}}]

-----------------------------------------------------------------------------
(* The tree under way *)

CONSTANTS
  StartWritten,     \* the entries of the database at the start,
  StartLevels,      \*   and where they are: it was opened just now
  Readers,          \* threads that hold snapshots, read and iterate
  Types,            \* kinds of writes: "put", "del"
  AllowedSeeks,     \* FileMetaData::allowed_seeks of a new file
  ManualRanges,     \* ranges given to CompactRange
  MayFail,          \* whether writing a table may fail
  Pins,             \* whether readers keep versions across steps
  Sampling          \* whether iterators sample what they read

VARIABLES
  written,    \* history: every entry, in the order of its sequence number
  mem, imm,   \* entries of the memtables; no immutable memtable is {}
  levels,     \* versions_->current()
  pointers,   \* compact_pointer_
  nextFile,   \* next_file_number_
  disk,       \* numbers of the table files in the directory
  seeks,      \* allowed_seeks that are left to the files, by level and number
  toCompact,  \* file_to_compact_ of the current version
  c,          \* the compaction DoCompactionWork is doing
  manual,     \* a CompactRange under way
  snap,       \* the snapshot of each reader
  pin,        \* what each reader's Get or iterator holds on to
  error       \* bg_error_

vars == <<written, mem, imm, levels, pointers, nextFile, disk, seeks, toCompact, c, manual,
          snap, pin, error>>
fileVars == <<levels, pointers, nextFile, disk, seeks, toCompact, c, error>>
userVars == <<written, mem, snap, pin>>

FilesOf(v) == UNION {v[l] : l \in Levels}
Numbers(files) == {f.num : f \in files}
Places(v) == UNION {{<<l, f.num>> : f \in v[l]} : l \in Levels}

Init ==
  /\ written = StartWritten /\ mem = {} /\ imm = {}
  /\ levels = StartLevels /\ pointers = [l \in Levels |-> Nothing]
  /\ disk = Numbers(FilesOf(StartLevels)) /\ nextFile = Cardinality(disk) + 1
  /\ seeks = [x \in Places(StartLevels) |-> AllowedSeeks] /\ toCompact = Nothing
  /\ c = Nothing /\ manual = Nothing /\ error = FALSE
  /\ snap = [r \in Readers |-> Nothing] /\ pin = [r \in Readers |-> Nothing]

LastSequence == Len(written)

-----------------------------------------------------------------------------
(* The client. *)

\* DBImpl::Write, down to WriteBatchInternal::InsertInto.
Write(k, t) ==
  /\ ~error /\ LastSequence < MaxSeq
  /\ LET e == [k |-> k, s |-> LastSequence + 1, t |-> t]
     IN written' = Append(written, e) /\ mem' = mem \cup {e}
  /\ UNCHANGED <<fileVars, imm, manual, snap, pin>>

\* MakeRoomForWrite switches to a new memtable: how many entries fill one
\* depends on their sizes.
SwitchMemTable ==
  /\ ~error /\ mem # {} /\ imm = {}
  /\ imm' = mem /\ mem' = {}
  /\ UNCHANGED <<fileVars, written, manual, snap, pin>>

GetSnapshot(r) ==
  /\ snap[r] = Nothing
  /\ snap' = [snap EXCEPT ![r] = [s |-> LastSequence]]
  /\ UNCHANGED <<fileVars, written, mem, imm, manual, pin>>

\* A snapshot is released after the reads that use it.
ReleaseSnapshot(r) ==
  /\ snap[r] # Nothing /\ pin[r] = Nothing
  /\ snap' = [snap EXCEPT ![r] = Nothing]
  /\ UNCHANGED <<fileVars, written, mem, imm, manual, pin>>

\* The first half of DBImpl::Get and NewInternalIterator: under the mutex, a
\* reader takes a sequence number, the memtables and the current version.
\* Later writes to the memtable are after its sequence number.
Pin(r) ==
  /\ Pins /\ pin[r] = Nothing
  /\ pin' = [pin EXCEPT ![r] =
       [s |-> IF snap[r] # Nothing THEN snap[r].s ELSE LastSequence,
        mem |-> mem, imm |-> imm, version |-> levels]]
  /\ UNCHANGED <<fileVars, written, mem, imm, manual, snap>>

\* DBImpl::Get: the memtable, the immutable memtable, the files.
ReadAt(m, i, v, k, s) ==
  IF EntryIn(m, k, s) # Nothing THEN EntryIn(m, k, s)
  ELSE IF EntryIn(i, k, s) # Nothing THEN EntryIn(i, k, s)
  ELSE VersionGet(v, k, s).entry

\* Version::UpdateStats on version v.  Versions share their files, and so the
\* seeks; the file to compact is each version's own, and is of no use in one
\* that is not current any more.
ChargeAt(v, x, at) ==
  IF x = Nothing \/ at \notin DOMAIN seeks THEN UNCHANGED <<seeks, toCompact>>
  ELSE /\ seeks' = [seeks EXCEPT ![at] = Max({@ - 1, 0})]
       /\ toCompact' = IF v = levels /\ seeks[at] <= 1 /\ toCompact = Nothing THEN x ELSE toCompact
Charge(v, x) == ChargeAt(v, x, <<x.level, x.file.num>>)

\* The second half of Get: the files are searched, a second seek is charged,
\* the version and the memtables are let go.
FinishGet(r, k) ==
  /\ pin[r] # Nothing
  /\ IF \E e \in pin[r].mem \cup pin[r].imm : e.k = k /\ e.s <= pin[r].s
     THEN UNCHANGED <<seeks, toCompact>>
     ELSE Charge(pin[r].version, VersionGet(pin[r].version, k, pin[r].s).seek)
  /\ pin' = [pin EXCEPT ![r] = Nothing]
  /\ UNCHANGED <<written, mem, imm, levels, pointers, nextFile, disk, c, manual, snap, error>>

\* CleanupIteratorState, when the iterator is deleted.
CloseIterator(r) ==
  /\ pin[r] # Nothing
  /\ pin' = [pin EXCEPT ![r] = Nothing]
  /\ UNCHANGED <<fileVars, written, mem, imm, manual, snap>>

\* DBImpl::RecordReadSample, from an iterator that has read a lot up to e.
RecordReadSample(e) ==
  /\ Sampling
  /\ SampleCharge(levels, e.k, e.s) # Nothing
  /\ Charge(levels, SampleCharge(levels, e.k, e.s))
  /\ UNCHANGED <<userVars, imm, levels, pointers, nextFile, disk, c, manual, error>>

-----------------------------------------------------------------------------
(* The version set. *)

\* VersionSet::LogAndApply: the next version, whose new files have all their
\* seeks before them, and which has no file to compact for seeks yet.

LogAndApply(deleted, added) ==
  /\ levels' = SaveTo(levels, deleted, added)
  /\ seeks' = [x \in Places(levels') |-> IF x \in {<<a.level, a.file.num>> : a \in added}
                                          THEN AllowedSeeks ELSE seeks[x]]
  /\ toCompact' = Nothing

\* DBImpl::DeleteObsoleteFiles: what no version that is held on to uses and no
\* compaction is writing goes; nothing does after an error.  v is the current
\* version, `old' are the files of the version a compaction holds.

LiveFiles(v, old, pending) ==
  (IF error THEN disk ELSE {}) \cup Numbers(FilesOf(v)) \cup pending \cup old
    \cup UNION {Numbers(FilesOf(pin[r].version)) : r \in {q \in Readers : pin[q] # Nothing}}

\* pending_outputs_: the tables a compaction has opened.
Outputs(x) ==
  {x.outs[i].num : i \in 1..Len(x.outs)} \cup IF x.open = Nothing THEN {} ELSE {x.open.num}

PendingOutputs(x) == IF x = Nothing THEN {} ELSE Outputs(x)
\* The files a compaction's input_version_ keeps.
HeldInputs(x) == IF x = Nothing THEN {} ELSE Numbers(FilesOf(x.base))

\* DBImpl::CompactMemTable, at the start of BackgroundCompaction or before an
\* entry of DoCompactionWork, which tries again and again whatever happened to
\* the last attempt: WriteLevel0Table, LogAndApply, and the clean up.
CompactMemTable ==
  /\ imm # {}
  /\ IF c = Nothing THEN ~error ELSE c.rest # <<>>
  /\ LogAndApply({}, {[file |-> [num |-> nextFile, ents |-> imm],
                       level |-> PickLevelForMemTableOutput(levels, Least(imm).k, Greatest(imm).k)]})
  /\ disk' = (disk \cup {nextFile}) \cap LiveFiles(levels', HeldInputs(c), PendingOutputs(c))
  /\ nextFile' = nextFile + 1
  /\ imm' = {}
  /\ UNCHANGED <<userVars, pointers, c, manual, error>>

\* BuildTable or LogAndApply fails: RecordBackgroundError, and the memtable
\* stays.  BuildTable removes its file.
CompactMemTableFails ==
  /\ MayFail /\ ~error /\ imm # {}
  /\ c # Nothing => c.rest # <<>>
  /\ error' = TRUE /\ nextFile' = nextFile + 1
  /\ UNCHANGED <<userVars, imm, levels, pointers, disk, seeks, toCompact, c, manual>>

-----------------------------------------------------------------------------
(* BackgroundCompaction. *)

\* The background thread turns to compactions when no memtable waits.
MayCompact == ~error /\ imm = {} /\ c = Nothing

\* What rule (A) compares sequence numbers with.
\* Mutant: snapshots are not looked at.
SmallestSnapshot_Latest == LastSequence

SmallestSnapshot ==
  Min({LastSequence} \cup {snap[r].s : r \in {q \in Readers : snap[q] # Nothing}})

\* DoCompactionWork up to its loop: MakeInputIterator merges the inputs.
StartWork(x, isManual) ==
  /\ c' = [level |-> x.level, in0 |-> x.in0, in1 |-> x.in1,
           grandparents |-> FileList(x.grandparents), base |-> levels, manual |-> isManual,
           smallest |-> SmallestSnapshot, rest |-> InKeyOrder(EntriesOf(x.in0 \cup x.in1)),
           key |-> 0, last |-> MaxSeq + 1, gp |-> 0, seen |-> FALSE, overlapped |-> 0,
           outs |-> <<>>, open |-> Nothing]
  /\ UNCHANGED <<levels, disk, seeks, toCompact>>

\* A trivial move changes the level of a file and nothing else.

MoveFile(x) ==
  /\ LogAndApply({<<x.level, f.num>> : f \in x.in0}, {[file |-> f, level |-> x.level + 1] : f \in x.in0})
  /\ UNCHANGED <<c, disk>>

PickedBySize(level) == PickedInputs(levels, level, SizeFile(levels, level, pointers[level]))

\* PickCompaction, by size or by seeks, and what BackgroundCompaction does
\* with the result.  While a CompactRange is under way this happens when its
\* caller has not asked for its next round yet.
PickCompaction ==
  IF SizeCompaction(levels) THEN PickedBySize(CompactionLevel(levels))
  ELSE PickedInputs(levels, toCompact.level, toCompact.file)
AutomaticCompaction ==
  /\ MayCompact
  /\ SizeCompaction(levels) \/ toCompact # Nothing
  /\ \E x \in {PickCompaction} :
       /\ pointers' = [pointers EXCEPT ![x.level] = x.pointer]
       /\ IF IsTrivialMove(x) THEN MoveFile(x) ELSE StartWork(x, FALSE)
  /\ UNCHANGED <<userVars, imm, nextFile, manual, error>>

\* Compaction::ShouldStopBefore: the grandparents the key has passed, and
\* whether they are too many for one output.
Passed(e) == Cardinality({i \in 1..Len(c.grandparents) : IKLess(Largest(c.grandparents[i]), e)})
Overlapped(e) ==
  c.overlapped + IF c.seen THEN TotalFileSize({c.grandparents[i] : i \in (c.gp + 1)..Passed(e)}) ELSE 0
ShouldStopBefore(e) == Overlapped(e) > MaxGrandParent

\* The rules under which an entry is not copied.
LastSequenceForKey(e) == IF e.k = c.key THEN c.last ELSE MaxSeq + 1

Dropped(e) ==
  \/ LastSequenceForKey(e) <= c.smallest
  \/ e.t = "del" /\ e.s <= c.smallest /\ IsBaseLevelForKey(c.base, c.level, e.k)

\* One turn of DoCompactionWork's loop: an output may be finished before the
\* entry, opened for it, and finished after it.
Finished(x) == IF x.open = Nothing THEN x
               ELSE [x EXCEPT !.outs = Append(@, x.open), !.open = Nothing]
Stepped(e, stop) ==
  [c EXCEPT !.rest = Tail(@), !.key = e.k, !.last = e.s, !.gp = Passed(e),
            !.seen = TRUE, !.overlapped = IF stop THEN 0 ELSE Overlapped(e)]
StoppedBefore(e, stop) == IF stop THEN Finished(Stepped(e, stop)) ELSE Stepped(e, stop)
FinishedIfFull(x) == IF Cardinality(x.open.ents) >= MaxFileSize THEN Finished(x) ELSE x
Opened(x) == IF x.open = Nothing THEN [x EXCEPT !.open = [num |-> nextFile, ents |-> {}]] ELSE x
Copy(e, x) ==
  /\ c' = FinishedIfFull([Opened(x) EXCEPT !.open.ents = @ \cup {e}])
  /\ nextFile' = IF x.open = Nothing THEN nextFile + 1 ELSE nextFile
  /\ disk' = disk \cup {Opened(x).open.num}
ProcessEntry(e) ==
  \E x \in {StoppedBefore(e, ShouldStopBefore(e))} :
    IF Dropped(e) THEN c' = x /\ UNCHANGED <<nextFile, disk>> ELSE Copy(e, x)
ProcessKey ==
  /\ c # Nothing /\ c.rest # <<>>
  /\ ProcessEntry(Head(c.rest))
  /\ UNCHANGED <<userVars, imm, levels, pointers, seeks, toCompact, manual, error>>

\* The end of a manual compaction: the rest of the range is still to be done.
\* manual_end is the largest key of the last input.
LastFile(list) == list[Len(list)]
ManualRest(x) == [manual EXCEPT !.low = Largest(LastFile(FileList(x.in0))).k]

\* The loop has ended: the last output, InstallCompactionResults, the clean up.
InputDeletions(x) == {<<x.level, f.num>> : f \in x.in0} \cup {<<x.level + 1, f.num>> : f \in x.in1}
OutputAdditions(x) == {[file |-> x.outs[i], level |-> x.level + 1] : i \in 1..Len(x.outs)}
FinishCompaction ==
  /\ c # Nothing /\ c.rest = <<>>
  /\ LogAndApply(InputDeletions(c), OutputAdditions(Finished(c)))
  /\ disk' = disk \cap LiveFiles(levels', {}, {})
  /\ manual' = IF c.manual THEN ManualRest(c) ELSE manual
  /\ c' = Nothing
  /\ UNCHANGED <<userVars, imm, pointers, nextFile, error>>

\* A table cannot be written, or the database is being closed: nothing is
\* installed, and after an error no file is deleted either.
AbandonCompaction ==
  /\ MayFail /\ c # Nothing
  /\ error' = TRUE /\ c' = Nothing /\ manual' = Nothing
  /\ UNCHANGED <<userVars, imm, levels, pointers, nextFile, disk, seeks, toCompact>>

-----------------------------------------------------------------------------
(* DBImpl::CompactRange. *)

\* Which levels it will compact is settled before the memtable is flushed.
StartCompactRange ==
  /\ manual = Nothing /\ ~error
  /\ \E r \in ManualRanges :
       manual' = [level |-> -1, from |-> r[1], low |-> r[1], high |-> r[2], seq |-> LastSequence,
                  max |-> Max({1} \cup {l \in Levels \ {0} : OverlapInLevel(levels, l, r[1], r[2])})]
  /\ UNCHANGED <<fileVars, userVars, imm>>

\* TEST_CompactMemTable: a new memtable, and the old one flushed.

ManualMemTable ==
  /\ manual # Nothing /\ manual.level = -1 /\ imm = {} /\ ~error
  /\ imm' = mem /\ mem' = {}
  /\ manual' = [manual EXCEPT !.level = 0]
  /\ UNCHANGED <<fileVars, written, snap, pin>>

\* CompactRange goes on to the next level, up to the last it found files in.
NextManualLevel ==
  IF manual.level + 1 < manual.max
  THEN [manual EXCEPT !.level = @ + 1, !.low = manual.from] ELSE Nothing

\* TEST_CompactRange(level, begin, end), one background compaction of it.  A
\* null compaction ends the level.
ManualCompaction ==
  /\ manual # Nothing /\ manual.level >= 0 /\ MayCompact
  /\ \E x \in {CompactRange(levels, manual.level, manual.low, manual.high)} :
       IF x # Nothing
       THEN /\ pointers' = [pointers EXCEPT ![manual.level] = x.pointer]
            /\ StartWork(x, TRUE) /\ UNCHANGED manual
       ELSE /\ manual' = NextManualLevel
            /\ UNCHANGED <<levels, disk, seeks, toCompact, c, pointers>>
  /\ UNCHANGED <<userVars, imm, nextFile, error>>

-----------------------------------------------------------------------------
Next ==
  \/ \E k \in 1..MaxKey, t \in Types : Write(k, t)
  \/ SwitchMemTable
  \/ \E r \in Readers : GetSnapshot(r) \/ ReleaseSnapshot(r) \/ Pin(r) \/ CloseIterator(r)
  \/ \E r \in Readers, k \in 1..MaxKey : FinishGet(r, k)
  \/ \E i \in 1..LastSequence : RecordReadSample(written[i])
  \/ CompactMemTable \/ CompactMemTableFails
  \/ AutomaticCompaction \/ ProcessKey \/ FinishCompaction \/ AbandonCompaction
  \/ StartCompactRange \/ ManualMemTable \/ ManualCompaction

Background ==
  CompactMemTable \/ AutomaticCompaction \/ ProcessKey \/ FinishCompaction \/ ManualCompaction

Spec == Init /\ [][Next]_vars

\* What MaybeScheduleCompaction schedules the background thread for: just when
\* Background is enabled.
NeedsWork ==
  \/ c # Nothing
  \/ /\ ~error
     /\ \/ imm # {} \/ SizeCompaction(levels) \/ toCompact # Nothing
        \/ manual # Nothing /\ manual.level >= 0

\* The background thread is rescheduled as long as there is work for it, which
\* is weak fairness of Background with ENABLED spelled out as NeedsWork; the
\* caller of CompactRange is woken when it may go on.
BackgroundRuns == []<>(~NeedsWork) \/ []<><<Background>>_vars
FairSpec == Spec /\ BackgroundRuns /\ WF_vars(ManualMemTable)

-----------------------------------------------------------------------------
(* Properties. *)

\* Types: entries are what was written, in files that are not empty and whose
\* numbers have been given out.
TypeOK ==
  /\ \A i \in 1..Len(written) : written[i].s = i
  /\ mem \cup imm \cup EntriesOf(FilesOf(levels)) \subseteq {written[i] : i \in 1..Len(written)}
  /\ \A f \in FilesOf(levels) : f.ents # {} /\ f.num < nextFile
  /\ \A f, g \in FilesOf(levels) : f.num = g.num => f = g
  /\ DOMAIN seeks = Places(levels)
  /\ error \in BOOLEAN

\* What the client sees of an entry.
Visible(e) == IF e = Nothing \/ e.t = "del" THEN Nothing ELSE e
Expected(k, s) == Visible(EntryIn({written[i] : i \in 1..Len(written)}, k, s))

\* A Get through a live snapshot, or of the latest state, returns what was
\* written last before it, whatever flushes, moves and merges have done.
ReadsRight ==
  \A k \in 1..MaxKey :
    \A s \in {LastSequence} \cup {snap[r].s : r \in {q \in Readers : snap[q] # Nothing}} :
      Visible(ReadAt(mem, imm, levels, k, s)) = Expected(k, s)

\* A Get or an iterator that still uses an older version reads the state it
\* started in, and finds every file it needs.
PinnedReadsRight ==
  \A r \in Readers : pin[r] # Nothing =>
    \A k \in 1..MaxKey :
      /\ Visible(ReadAt(pin[r].mem, pin[r].imm, pin[r].version, k, pin[r].s))
           = Expected(k, pin[r].s)
      /\ VersionGet(pin[r].version, k, pin[r].s).read \subseteq disk

\* The inputs and outputs of a compaction and the current files are on disk.
FilesExist ==
  Numbers(FilesOf(levels)) \cup HeldInputs(c) \cup (IF c = Nothing THEN {} ELSE Outputs(c)) \subseteq disk

\* "Must not overlap" (Builder::MaybeAddFile): below level 0, each file ends
\* before the next begins.
LevelsDisjoint ==
  \A l \in 1..(NumLevels - 1) : \A f, g \in levels[l] :
    f # g => IKLess(Largest(f), Smallest(g)) \/ IKLess(Largest(g), Smallest(f))

\* "entries never hop across levels" (Version::Get): of two entries of a key,
\* the one found first in the memtables, the level 0 files by number and the
\* levels downwards is the newer.
NewerFirst ==
  LET rank(f, l) == IF l = 0 THEN -f.num ELSE l
      placed == {<<-1000, e>> : e \in imm} \cup {<<-2000, e>> : e \in mem} \cup
                UNION {UNION {{<<rank(f, l), e>> : e \in f.ents} : f \in levels[l]} : l \in Levels}
  IN \A x, y \in placed : x[2].k = y[2].k /\ x[1] < y[1] => x[2].s > y[2].s

\* "deleted and overwritten versions are discarded" (DB::CompactRange): when it
\* returns, and nothing was written meanwhile and no snapshot is held, the
\* range has one entry for each key that is there and none for the others.
CompactRangeDiscards ==
  [][(/\ manual # Nothing /\ manual' = Nothing /\ ~error'
      /\ LastSequence = manual.seq /\ \A r \in Readers : snap[r] = Nothing)
     => \A e \in EntriesOf(FilesOf(levels')) :
          e.k \in manual.from..manual.high => e = Expected(e.k, LastSequence)]_vars

\* Once writes and CompactRange calls end, the tree comes to rest: no level
\* stays over its limit.
RangeUnderWay == manual # Nothing /\ ~error
AtRest == error \/ (imm = {} /\ c = Nothing /\ ~SizeCompaction(levels))
TreeSettles == <>[](~RangeUnderWay) => <>[]AtRest

\* A CompactRange returns.
CompactRangeEnds == RangeUnderWay ~> ~RangeUnderWay
=============================================================================
