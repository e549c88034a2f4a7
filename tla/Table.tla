------------------------------- MODULE Table -------------------------------
(***************************************************************************)
(* An sstable: TableBuilder cuts a sorted run of entries into blocks with  *)
(* an index and filters, BuildTable keeps the file or deletes it, and      *)
(* Table::InternalGet finds an entry again.                                *)
(*                                                                         *)
(* A key is an internal key: user keys ascend, sequence numbers descend.   *)
(* A block is the list of its entries (module Block has what is inside);   *)
(* its size is the sum of the sizes of its values.                         *)
(***************************************************************************)
EXTENDS Integers, Sequences, FiniteSets, SequencesExt, FiniteSetsExt, Functions, TLC

CONSTANTS
  Users,         \* user keys: numbers, with gaps for the separators
  Seqs,          \* sequence numbers
  Sizes,         \* sizes of values
  BlockSizes,    \* options.block_size
  FilterBase,    \* kFilterBase
  MaxEntries,    \* bound
  Fails,         \* which operation on the file fails, 0 for none
  Unreadable     \* bound: blocks that cannot be read back

TableConstants == Users \subseteq Nat /\ Seqs \subseteq Nat \ {0} /\ Sizes \subseteq Nat \ {0} /\ FilterBase \in Nat \ {0}

VARIABLES
  r,         \* TableBuilder::Rep
  added,     \* history: the entries passed to Add
  failAt,    \* the operation on the file that fails
  fate,      \* of the file: "building", "kept", "deleted" or "abandoned"
  meta,      \* FileMetaData: smallest, largest, file_size
  bad        \* offsets of blocks that cannot be read
vars == <<r, added, failAt, fate, meta, bad>>

Trailer == 1                   \* kBlockTrailerSize
MaxSeq == Max(Seqs) + 1        \* kMaxSequenceNumber
Key(u, s) == [user |-> u, seq |-> s]
None == [key |-> Key(0, 0), size |-> 0]         \* handle_result is not called
Error == [key |-> Key(0, 0), size |-> -1]
InternalKeys == [user : Users, seq : Seqs]
Before(a, b) == a.user < b.user \/ (a.user = b.user /\ a.seq > b.seq)
Size(block) == FoldLeft(LAMBDA n, e : n + e.size, 0, block)

\* Mutant: the separator is the limit itself.
FindShortestSeparator_Limit(start, limit) == {limit}

\* InternalKeyComparator: the key itself, or a shorter user key between the two.
FindShortestSeparator(start, limit) ==
  {start} \cup {Key(u, MaxSeq) : u \in (start.user + 1)..(limit.user - 1)}

FindShortSuccessor(start) == {start} \cup {Key(u, MaxSeq) : u \in (start.user + 1)..(Max(Users) + 1)}
-----------------------------------------------------------------------------
(* The filters: one for every FilterBase bytes of the file. *)
GenerateFilter(b) == [b EXCEPT !.filters = Append(@, b.keys), !.keys = {}]

\* Filters up to the one of the block that starts now; the first of them takes the keys.
StartBlock(b) ==
  LET missing == b.offset \div FilterBase - Len(b.filters)
  IN IF missing <= 0 THEN b
     ELSE [b EXCEPT !.filters = @ \o <<b.keys>> \o [i \in 1..(missing - 1) |-> {}], !.keys = {}]

FilterFinish(b) == IF b.keys = {} THEN b ELSE GenerateFilter(b)

KeyMayMatch(filters, offset, user) ==
  LET index == offset \div FilterBase
  IN index < Len(filters) => user \in filters[index + 1]
-----------------------------------------------------------------------------
(* TableBuilder. *)
NewBuilder(size) ==
  [ok |-> TRUE, ops |-> 0, offset |-> 0, file |-> << >>, data |-> <<>>, index |-> <<>>, block_size |-> size,
   pending |-> FALSE, handle |-> 0, metaindex |-> 0, last |-> Key(0, 1), filters |-> <<>>, keys |-> {}, closed |-> FALSE]

\* One operation on the file.
Op(b) == [b EXCEPT !.ops = @ + 1, !.ok = b.ops + 1 # failAt]

\* A step that is taken only while everything has gone well.
Then(b, Step(_)) == IF b.ok THEN Step(b) ELSE b

\* The contents, then the trailer; only then does the offset move on.
WriteRawBlock(b, k, contents, size) ==
  Then(Then(Op(b), Op),
       LAMBDA t : [t EXCEPT !.offset = @ + size + Trailer, !.file = @ @@ (b.offset :> [k |-> k, list |-> contents])])

\* Compressed if that saves an eighth.
Stored(raw, shrink) == IF shrink /\ raw - 1 < raw - raw \div 8 THEN raw - 1 ELSE raw

\* After the block is written: the index entry is due, and the file is flushed.
Flushed(b) == IF b.ok THEN Op([b EXCEPT !.pending = TRUE]) ELSE b

Flush(b, shrink) ==
  IF ~b.ok \/ b.data = <<>> THEN b
  ELSE StartBlock(Flushed([WriteRawBlock(b, "data", b.data, Stored(Size(b.data), shrink)) EXCEPT !.handle = b.offset, !.data = <<>>]))

\* The index entry for the last block, once the next key or the end is known.
IndexEntry(b, sep) ==
  IF b.pending THEN [b EXCEPT !.index = Append(@, [key |-> sep, handle |-> b.handle]), !.pending = FALSE] ELSE b

FlushIfFull(b, shrink) == IF Size(b.data) >= b.block_size THEN Flush(b, shrink) ELSE b

AddEntry(b, key, size, sep, shrink) ==
  IF ~b.ok THEN b
  ELSE FlushIfFull([IndexEntry(b, sep) EXCEPT !.keys = @ \cup {key.user}, !.last = key,
                                              !.data = Append(@, [key |-> key, size |-> size])], shrink)

\* The handles of the metaindex and of the index, and the magic number.
Footer(offset) == offset :> [k |-> "footer", list |-> <<>>]

WriteFilter(b) == WriteRawBlock(b, "filter", b.filters, 1)
WriteMetaindex(b) == [WriteRawBlock(b, "metaindex", <<>>, 1) EXCEPT !.metaindex = b.offset]
WriteIndex(b) == WriteRawBlock(b, "index", b.index, 1)
WriteFooter(b) == Then(Op(b), LAMBDA o : [o EXCEPT !.offset = @ + 1, !.file = @ @@ Footer(o.offset)])

\* The filter block, the metaindex block, the index block and the footer.
FinishTable(b, sep, shrink) ==
  LET f == Then(Then(Flush(b, shrink), FilterFinish), WriteFilter)
      i == Then(Then(Then(f, WriteMetaindex), LAMBDA m : IndexEntry(m, sep)), WriteIndex)
  IN [Then(i, WriteFooter) EXCEPT !.closed = TRUE]
-----------------------------------------------------------------------------
(* Table: the index and the filter are read when it is opened. *)
Readable(offset) == offset \in DOMAIN r.file /\ offset \notin bad
\* Table::Open: no table without its footer and its index block.
Opened == \A o \in DOMAIN r.file : r.file[o].k \in {"footer", "index"} => Readable(o)
FilterBlock == CHOOSE o \in DOMAIN r.file : r.file[o].k = "filter"
\* ReadMeta: without its metaindex or filter block a table has no filter.
HasFilter == Readable(r.metaindex) /\ Readable(FilterBlock)
FirstFrom(list, k) == {n \in DOMAIN list : ~Before(list[n].key, k) /\ \A m \in 1..(n - 1) : Before(list[m].key, k)}

\* What handle_result is given: an entry, None or Error.
InternalGet(k) ==
  LET at == FirstFrom(r.index, k)
      handle == r.index[Min(at)].handle
      found == FirstFrom(r.file[handle].list, k)
  IN CASE ~Opened -> Error
       [] at = {} -> None
       [] HasFilter /\ ~KeyMayMatch(r.filters, handle, k.user) -> None
       [] ~Readable(handle) -> Error
       [] found = {} -> None
       [] OTHER -> r.file[handle].list[Min(found)]

\* The offset of the block that may hold k, or of the metaindex block.
ApproximateOffsetOf(k) ==
  LET at == FirstFrom(r.index, k) IN IF at = {} THEN r.metaindex ELSE r.index[Min(at)].handle
-----------------------------------------------------------------------------
Init ==
  /\ \E size \in BlockSizes : r = StartBlock(NewBuilder(size))
  /\ failAt \in Fails
  /\ added = <<>> /\ fate = "building" /\ bad = {}
  /\ meta = [smallest |-> Key(0, 1), largest |-> Key(0, 1), file_size |-> 0]

\* The loop of BuildTable passes an entry on.
Add(key, size, sep, shrink) ==
  /\ fate = "building" /\ Len(added) < MaxEntries
  /\ added # <<>> => Before(Last(added).key, key)
  /\ IF r.pending THEN sep \in FindShortestSeparator(r.last, key) ELSE sep = key
  /\ r' = AddEntry(r, key, size, sep, shrink)
  /\ added' = Append(added, [key |-> key, size |-> size])
  /\ meta' = [meta EXCEPT !.smallest = IF added = <<>> THEN key ELSE @, !.largest = key]
  /\ UNCHANGED <<failAt, fate, bad>>

\* What decides whether the file stays.
Kept(b, done, inputOk) == done.ok /\ inputOk /\ b.offset > 0

\* The file after Finish, and after Sync, Close and the table's one opening.
Finished(b, done, inputOk) ==
  /\ r' = done
  /\ fate' = IF Kept(b, done, inputOk) THEN "kept" ELSE "deleted"
  /\ meta' = [meta EXCEPT !.file_size = IF b.ok THEN b.offset ELSE 0]

\* The end of BuildTable: Finish, Sync, Close, and the table is opened once; the
\* input may have failed.
Build(sep, shrink, inputOk) ==
  LET SyncCloseOpen(b) == Finished(b, Then(Then(Then(b, Op), Op), Op), inputOk)
  IN /\ fate = "building" /\ added # <<>>
     /\ sep \in FindShortSuccessor(r.last)
     /\ SyncCloseOpen(FinishTable(r, sep, shrink))
     /\ UNCHANGED <<added, failAt, bad>>

\* An input without entries makes no file; nor does one for which none can be created.
BuildNothing ==
  /\ fate = "building" /\ added = <<>>
  /\ fate' = "deleted"
  /\ UNCHANGED <<r, added, failAt, meta, bad>>

Abandon ==
  /\ fate = "building"
  /\ fate' = "abandoned" /\ r' = [r EXCEPT !.closed = TRUE]
  /\ UNCHANGED <<added, failAt, meta, bad>>

\* Other options while the table is built: the block size takes effect at once.
ChangeOptions(size) ==
  /\ fate = "building" /\ size # r.block_size
  /\ r' = [r EXCEPT !.block_size = size]
  /\ UNCHANGED <<added, failAt, fate, meta, bad>>

\* A block of the file cannot be read back: the disk fails, or its checksum.
Damage ==
  /\ fate = "kept" /\ Cardinality(bad) < Unreadable
  /\ \E o \in DOMAIN r.file : bad' = bad \cup {o}
  /\ UNCHANGED <<r, added, failAt, fate, meta>>

Separators == {Key(u, s) : u \in 0..(Max(Users) + 1), s \in Seqs \cup {MaxSeq}}
Next ==
  \/ \E key \in InternalKeys, size \in Sizes, sep \in Separators, shrink \in BOOLEAN : Add(key, size, sep, shrink)
  \/ \E sep \in Separators, shrink, inputOk \in BOOLEAN : Build(sep, shrink, inputOk)
  \/ BuildNothing \/ Abandon \/ Damage \/ \E size \in BlockSizes : ChangeOptions(size)
Spec == Init /\ [][Next]_vars
-----------------------------------------------------------------------------
TypeOK ==
  /\ fate \in {"building", "kept", "deleted", "abandoned"}
  /\ r.ok /\ r.pending => r.data = <<>>
  /\ r.offset \div FilterBase >= Len(r.filters) \/ r.closed

\* The newest entry of a user key at or before a sequence number, as added.
Newest(u, s) ==
  LET own == {n \in DOMAIN added : added[n].key.user = u /\ added[n].key.seq <= s}
  IN IF own = {} THEN None ELSE added[Min(own)]

\* InternalGet on a table that was kept answers as the entries do, wherever the
\* blocks end, whatever separators the index has and however the filters fall;
\* where a block cannot be read it says so, and never takes a lost block for an
\* absent key.
GetRight ==
  fate = "kept" =>
    \A u \in Users, s \in Seqs :
      LET got == InternalGet(Key(u, s))
          hit == IF got = Error \/ got.key.user = u THEN got ELSE None
      IN hit = Newest(u, s) \/ (hit = Error /\ bad # {})

\* BuildTable keeps only a file that has every entry, was synced and closed, and
\* describes it truly.
KeptIsWhole ==
  fate = "kept" =>
    /\ r.ok /\ meta.file_size = r.offset
    /\ meta.smallest = added[1].key /\ meta.largest = Last(added).key
    /\ FoldLeft(LAMBDA all, e : all \o r.file[e.handle].list, <<>>, r.index) = added
    /\ failAt = 0 \/ r.ops < failAt

\* ApproximateOffsetOf grows with the key: the sizes computed from it are never negative.
OffsetsGrow ==
  fate = "kept" =>
    \A a, b \in InternalKeys : Before(a, b) => ApproximateOffsetOf(a) <= ApproximateOffsetOf(b)
=============================================================================
