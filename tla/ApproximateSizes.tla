-------------------------- MODULE ApproximateSizes --------------------------
(***************************************************************************)
(* DB::GetApproximateSizes (db/db_impl.cc): a version is held while the     *)
(* offsets of the ends of ranges are added up over its files, which may be  *)
(* replaced meanwhile and of which some may not open.  An internal key is a *)
(* number: those of entries are even, and the first possible one of a user  *)
(* key, which a range starts or ends with, is odd.  A block is a unit long.  *)
(***************************************************************************)
EXTENDS Integers, Sequences, FiniteSets, FiniteSetsExt

CONSTANTS
  Versions,       \* bound: level -> sequence of files [smallest, largest, index],
                  \* where index has the keys of the index block
  Keys,           \* bound: the odd keys
  MaxFailures,    \* bound: tables that do not open
  Trailer,        \* size of what follows the blocks of a table
  Wrap            \* 2^64 in the code

VARIABLES
  current,    \* versions_->current()
  live,       \* files that exist
  v,          \* the version of the call, or none
  range,      \* <<start, limit>>
  pc,         \* "idle", "start", "limit", "done"
  start,      \* offset of the start
  size,       \* sizes[i]
  failures,
  failed      \* history: a table of this call did not open
vars == <<current, live, v, range, pc, start, size, failures, failed>>

NoVersion == <<>>
FilesOf(version) == UNION {Range(version[level]) : level \in DOMAIN version}

MetaIndex(f) == Len(f.index)
FileSize(f) == MetaIndex(f) + Trailer
TotalSize(version) == MapThenSumSet(FileSize, FilesOf(version))

\* Table::ApproximateOffsetOf: the block that the index gives, or the end.
TableOffset(f, key) == Cardinality({i \in DOMAIN f.index : f.index[i] < key})

\* Files other than level 0 are sorted by smallest.
Sorted(level) == level > 0

\* What the i-th file of a level adds; a table in missing does not open.
Part(version, level, i, key, missing) ==
  LET f == version[level][i]
      After(j) == version[level][j].smallest > key
  IN IF Sorted(level) /\ \E j \in 1..(i - 1) : After(j) THEN 0
     ELSE IF f.largest <= key THEN FileSize(f)
     ELSE IF f.smallest > key \/ f \in missing THEN 0
     ELSE TableOffset(f, key)

ApproximateOffsetOf(version, key, missing) ==
  LET places == UNION {{<<level, i>> : i \in DOMAIN version[level]} : level \in DOMAIN version}
      At(p) == Part(version, p[1], p[2], key, missing)
  IN MapThenSumSet(At, places)
-----------------------------------------------------------------------------
Init ==
  /\ current \in Versions /\ live = FilesOf(current) /\ v = NoVersion
  /\ range = <<0, 0>> /\ pc = "idle" /\ start = 0 /\ size = 0 /\ failures = 0 /\ failed = FALSE

\* The files of a version that has a reference stay.
Held(version) == IF version = NoVersion THEN {} ELSE FilesOf(version)

\* A compaction installs another version, and obsolete files are deleted.
InstallVersion ==
  /\ \E new \in Versions : current' = new /\ live' = FilesOf(new) \union Held(v)
  /\ UNCHANGED <<v, range, pc, start, size, failures, failed>>

\* The version is held, under mutex_.
GetApproximateSizes ==
  /\ pc = "idle"
  /\ v' = current /\ range' \in Keys \X Keys
  /\ pc' = "start" /\ failed' = FALSE
  /\ UNCHANGED <<current, live, start, size, failures>>

\* A table that cannot be read, or is gone, adds nothing.
Offset(key, Assigned(_)) ==
  LET gone == FilesOf(v) \ live
  IN \/ Assigned(ApproximateOffsetOf(v, key, gone)) /\ UNCHANGED <<failures, failed>>
     \/ /\ failures < MaxFailures /\ failures' = failures + 1 /\ failed' = TRUE
        /\ \E f \in FilesOf(v) : Assigned(ApproximateOffsetOf(v, key, gone \union {f}))

StartOffset ==
  /\ pc = "start" /\ pc' = "limit"
  /\ LET Assigned(n) == start' = n IN Offset(range[1], Assigned)
  /\ UNCHANGED <<current, live, v, range, size>>

Difference(limit, from) == IF limit >= from THEN limit - from ELSE 0

LimitOffset ==
  /\ pc = "limit" /\ pc' = "done"
  /\ LET Assigned(n) == size' = Difference(n, start) IN Offset(range[2], Assigned)
  /\ UNCHANGED <<current, live, v, range, start>>

\* v->Unref(), under mutex_.
Return ==
  /\ pc = "done"
  /\ v' = NoVersion /\ live' = FilesOf(current) /\ pc' = "idle"
  /\ UNCHANGED <<current, range, start, size, failures, failed>>

Next == InstallVersion \/ GetApproximateSizes \/ StartOffset \/ LimitOffset \/ Return
Spec == Init /\ [][Next]_vars
-----------------------------------------------------------------------------
\* Blocks of a file that lie within the range, or have part of it.
First(f, i) == IF i = 1 THEN f.smallest ELSE f.index[i - 1] + 1
Last(f, i) == IF i = Len(f.index) THEN f.largest ELSE f.index[i]
Inside(f) == Cardinality({i \in DOMAIN f.index : First(f, i) >= range[1] /\ Last(f, i) < range[2]})
Touched(f) ==
  LET n == Cardinality({i \in DOMAIN f.index : Last(f, i) >= range[1] /\ First(f, i) < range[2]})
  IN IF n = 0 THEN 0 ELSE n + Trailer

\* The size of a range is at least that of the blocks within it and at most that
\* of the blocks with part of it, for the version of the call: whatever becomes
\* current meanwhile, and if its tables open.
SizesRight ==
  pc = "done" /\ ~failed => /\ MapThenSumSet(Inside, FilesOf(v)) <= size
                            /\ size <= MapThenSumSet(Touched, FilesOf(v))

\* Even if a table opens for one end and not for the other, and for ranges that
\* end before they start, no size is larger than the database.
NoWrap == pc = "done" => size <= TotalSize(v)
=============================================================================
