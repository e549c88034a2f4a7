------------------------------- MODULE Block -------------------------------
(***************************************************************************)
(* A block of a table: BlockBuilder cuts the shared prefix off every key   *)
(* but those at restart points, Block::Iter finds its way back, also in a  *)
(* block of which a byte is not what was written.                          *)
(*                                                                         *)
(* Keys, values and the block are sequences of bytes; an offset o is the   *)
(* code's, that of byte o + 1.  Keys and values are shorter than 128 bytes *)
(* and blocks than 65536, so that a length is written in one byte and a    *)
(* restart point in the first two of its four.                             *)
(***************************************************************************)
EXTENDS Integers, Sequences, FiniteSets, SequencesExt, FiniteSetsExt

CONSTANTS
  Keys,          \* the keys, as sequences of bytes
  Values,        \* the values, as sequences of bytes
  Intervals,     \* block_restart_interval
  MaxEntries,    \* bound
  Damages        \* what one byte of the block may be in place of what was written

IntervalsPositive == Intervals \subseteq Nat \ {0}

VARIABLES
  interval,   \* options.block_restart_interval
  builder,    \* BlockBuilder
  added,      \* history: the entries added, in order
  block,      \* Block, once the builder is finished
  it,         \* Block::Iter
  call,       \* the last call of the iterator
  damaged     \* history: the offset of the damaged byte, or Sound
vars == <<interval, builder, added, block, it, call, damaged>>

Fixed32 == 4
Far == 65536       \* stands for every number that takes more than two bytes
Sound == -1
Nothing == [off |-> -1]

\* BytewiseComparator.
Before(a, b) ==
  \E i \in 1..Min({Len(a) + 1, Len(b)}) :
     /\ SubSeq(a, 1, i - 1) = SubSeq(b, 1, i - 1)
     /\ i <= Len(a) => a[i] < b[i]

PutFixed32(n) == <<n % 256, n \div 256, 0, 0>>
DecodeFixed32(data, off) ==
  IF data[off + 3] = 0 /\ data[off + 4] = 0 THEN data[off + 1] + 256 * data[off + 2] ELSE Far
-----------------------------------------------------------------------------
(* BlockBuilder. *)
Reset == [buffer |-> <<>>, restarts |-> <<0>>, counter |-> 0, last_key |-> <<>>, finished |-> FALSE]

\* How many bytes of the key are those of the last one; none at a restart point.
Shared(b, key) ==
  IF b.counter < interval
  THEN Cardinality({n \in 1..Min({Len(b.last_key), Len(key)}) : SubSeq(b.last_key, 1, n) = SubSeq(key, 1, n)})
  ELSE 0

\* counter_ after one more entry.
Counter(b) == IF b.counter < interval THEN b.counter + 1 ELSE 1

Add(b, key, value) ==
  LET shared == Shared(b, key)
      lengths == <<shared, Len(key) - shared, Len(value)>>
  IN [b EXCEPT !.buffer = @ \o lengths \o SubSeq(key, shared + 1, Len(key)) \o value,
               !.restarts = IF b.counter >= interval THEN Append(@, Len(b.buffer)) ELSE @,
               !.counter = Counter(b), !.last_key = key]

\* The restart points and their number follow the entries.
Finish(b) ==
  [b EXCEPT !.buffer = @ \o FlattenSeq([n \in DOMAIN b.restarts |-> PutFixed32(b.restarts[n])])
                         \o PutFixed32(Len(b.restarts)),
            !.finished = TRUE]
-----------------------------------------------------------------------------
(* Block. *)
NumRestarts(data) == DecodeFixed32(data, Len(data) - Fixed32)

\* size 0 marks contents too small for the number of restart points they end in.
Open(data) ==
  IF Len(data) < Fixed32 \/ NumRestarts(data) > (Len(data) - Fixed32) \div Fixed32
  THEN [data |-> data, size |-> 0, num |-> 0, restarts |-> 0]
  ELSE [data |-> data, size |-> Len(data), num |-> NumRestarts(data),
        restarts |-> Len(data) - (1 + NumRestarts(data)) * Fixed32]

\* GetVarint32Ptr.  At most one byte of a block is damaged and every other is
\* below 128: the byte behind one of 128 or more is the varint's last.
Varint(b, off) ==
  IF off >= b.restarts THEN Nothing
  ELSE IF b.data[off + 1] < 128 THEN [off |-> off + 1, n |-> b.data[off + 1]]
  ELSE IF off + 1 >= b.restarts THEN Nothing
  ELSE [off |-> off + 2, n |-> b.data[off + 1] - 128 + 128 * b.data[off + 2]]

\* The lengths at off and the offset behind them, or nothing where no whole
\* entry is left before the restart points.
DecodeEntry(b, off) ==
  LET shared == Varint(b, off)
      non_shared == Varint(b, shared.off)
      value_length == Varint(b, non_shared.off)
  IN IF \/ b.restarts - off < 3
        \/ shared = Nothing \/ non_shared = Nothing \/ value_length = Nothing
        \/ b.restarts - value_length.off < non_shared.n + value_length.n
     THEN Nothing
     ELSE [off |-> value_length.off, shared |-> shared.n, non_shared |-> non_shared.n,
           value_length |-> value_length.n]

\* The n bytes at off.
Slice(b, off, n) == SubSeq(b.data, off + 1, off + n)

GetRestartPoint(b, index) == DecodeFixed32(b.data, b.restarts + index * Fixed32)

\* An error iterator where the block is too small for its restart points, an
\* empty one where it has none.
Readable(b) == b.size >= Fixed32 /\ b.num > 0
NewIterator(b) ==
  [current |-> b.restarts, index |-> b.num, key |-> <<>>, value |-> <<>>, end |-> 0, ok |-> b.size >= Fixed32]
Valid(b, i) == i.current < b.restarts

\* The iterator is not valid from here on, and its status tells why.
CorruptionError(b, i) ==
  [i EXCEPT !.current = b.restarts, !.index = b.num, !.ok = FALSE, !.key = <<>>, !.value = <<>>]

\* end is NextEntryOffset, where value_ ends.
SeekToRestartPoint(b, i, index) ==
  [i EXCEPT !.key = <<>>, !.index = index, !.end = GetRestartPoint(b, index), !.value = <<>>]

\* The restart point the entry at current belongs to, seen from that of i.
RestartIndex(b, i, current) ==
  Max({n \in i.index..(b.num - 1) : \A m \in (i.index + 1)..n : GetRestartPoint(b, m) < current})

\* The key before this one does not have as many bytes as the entry wants of it.
KeyTooShort(i, e) == Len(i.key) < e.shared

\* std::string::resize.
Resize(key, n) == [j \in 1..n |-> IF j <= Len(key) THEN key[j] ELSE 0]

\* The iterator at the entry behind the last one parsed, and whether there is one.
ParseNextKey(b, i) ==
  LET current == i.end
      e == DecodeEntry(b, current)
  IN IF current >= b.restarts THEN [ok |-> FALSE, i |-> [i EXCEPT !.current = b.restarts, !.index = b.num]]
     ELSE IF e = Nothing \/ KeyTooShort(i, e) THEN [ok |-> FALSE, i |-> CorruptionError(b, i)]
     ELSE [ok |-> TRUE,
           i |-> [i EXCEPT !.current = current,
                           !.key = Resize(@, e.shared) \o Slice(b, e.off, e.non_shared),
                           !.value = Slice(b, e.off + e.non_shared, e.value_length),
                           !.end = e.off + e.non_shared + e.value_length,
                           !.index = RestartIndex(b, i, current)]]

RECURSIVE SkipTo(_, _, _)
\* ParseNextKey until an entry ends at limit or behind it.
SkipTo(b, i, limit) ==
  LET p == ParseNextKey(b, i) IN IF p.ok /\ p.i.end < limit THEN SkipTo(b, p.i, limit) ELSE p.i

RECURSIVE ScanTo(_, _, _)
\* ParseNextKey until a key is not before the target.
ScanTo(b, i, target) ==
  LET p == ParseNextKey(b, i) IN IF p.ok /\ Before(p.i.key, target) THEN ScanTo(b, p.i, target) ELSE p.i

SeekToFirst(b, i) == ParseNextKey(b, SeekToRestartPoint(b, i, 0)).i
SeekToLast(b, i) == SkipTo(b, SeekToRestartPoint(b, i, b.num - 1), b.restarts)

\* Mutant: the restart point of the entry itself is taken for one before it.
PrevPoints_Same(b, i) == {n \in 0..Min({i.index, b.num - 1}) : GetRestartPoint(b, n) <= i.current}

\* The restart points before the current entry, from the index downwards.
PrevPoints(b, i) == {n \in 0..i.index : GetRestartPoint(b, n) < i.current}

Prev(b, i) ==
  IF PrevPoints(b, i) = {} THEN [i EXCEPT !.current = b.restarts, !.index = b.num]
  ELSE SkipTo(b, SeekToRestartPoint(b, i, Max(PrevPoints(b, i))), i.current)

RECURSIVE BinarySearch(_, _, _, _)
\* The last restart point with a key before the target, or -1 for damage.
BinarySearch(b, target, left, right) ==
  LET mid == (left + right + 1) \div 2
      e == DecodeEntry(b, GetRestartPoint(b, mid))
  IN CASE left >= right -> left
       [] e = Nothing \/ e.shared # 0 -> -1
       [] Before(Slice(b, e.off, e.non_shared), target) -> BinarySearch(b, target, mid, right)
       [] OTHER -> BinarySearch(b, target, left, mid - 1)

Seek(b, i, target) ==
  LET left == BinarySearch(b, target, 0, b.num - 1)
  IN IF left = -1 THEN CorruptionError(b, i)
     ELSE ScanTo(b, SeekToRestartPoint(b, i, left), target)
-----------------------------------------------------------------------------
NoBlock == [data |-> <<>>, size |-> -1, num |-> 0, restarts |-> 0]
NoIter == [current |-> 0, index |-> 0, key |-> <<>>, value |-> <<>>, end |-> 0, ok |-> TRUE]

Init ==
  /\ interval \in Intervals
  /\ builder = Reset /\ added = <<>> /\ block = NoBlock /\ it = NoIter /\ call = <<"new">>
  /\ damaged = Sound

BuilderAdd(key, value) ==
  /\ ~builder.finished /\ Len(added) < MaxEntries
  /\ added = <<>> \/ Before(builder.last_key, key)
  /\ builder' = Add(builder, key, value)
  /\ added' = Append(added, [key |-> key, value |-> value])
  /\ UNCHANGED <<interval, block, it, call, damaged>>

\* The block is finished and read again.
BuilderFinish ==
  /\ ~builder.finished
  /\ builder' = Finish(builder)
  /\ block' = Open(builder'.buffer)
  /\ it' = NewIterator(block')
  /\ UNCHANGED <<interval, added, call, damaged>>

\* The block is read without its checksum, and one byte of it, of an entry, of
\* a restart point or of their number, is not what was written.
ReadDamaged ==
  /\ ~builder.finished
  /\ builder' = Finish(builder)
  /\ \E n \in DOMAIN builder'.buffer, byte \in Damages :
       /\ byte # builder'.buffer[n]
       /\ block' = Open([builder'.buffer EXCEPT ![n] = byte])
       /\ damaged' = n - 1
  /\ it' = NewIterator(block')
  /\ UNCHANGED <<interval, added, call>>

Call(name, i) == call' = name /\ it' = (IF Readable(block) THEN i ELSE it) /\ UNCHANGED <<interval, builder, added, block, damaged>>

IterFirst == builder.finished /\ Call(<<"first">>, SeekToFirst(block, it))
IterLast == builder.finished /\ Call(<<"last">>, SeekToLast(block, it))
IterSeek(t) == builder.finished /\ Call(<<"seek", t>>, Seek(block, it, t))
IterNext == builder.finished /\ Valid(block, it) /\ Call(<<"next">>, ParseNextKey(block, it).i)
IterPrev == builder.finished /\ Valid(block, it) /\ Call(<<"prev">>, Prev(block, it))

Next ==
  \/ \E key \in Keys, value \in Values : BuilderAdd(key, value)
  \/ BuilderFinish \/ ReadDamaged \/ IterFirst \/ IterLast \/ IterNext \/ IterPrev
  \/ \E t \in Keys : IterSeek(t)
Spec == Init /\ [][Next]_vars
-----------------------------------------------------------------------------
TypeOK ==
  /\ builder.counter \in 0..interval
  /\ builder.finished => it.current \in 0..block.restarts /\ it.index \in 0..block.num

\* Where the iterator is in the list: at the entry whose key and value it shows.
At ==
  IF ~builder.finished \/ ~Valid(block, it) THEN 0
  ELSE IF \E n \in DOMAIN added : added[n] = [key |-> it.key, value |-> it.value]
       THEN CHOOSE n \in DOMAIN added : added[n] = [key |-> it.key, value |-> it.value]
       ELSE -1
Cursor == INSTANCE SortedCursor WITH entries <- added, at <- At, call <- call, Targets <- Keys, Before <- Before

\* Block::Iter is a cursor in the list of what was added: whatever prefixes the
\* keys share and wherever the restart points fall, every call ends at the entry
\* that the interface promises, with its key and value put together again.
IsCursor == Cursor!Spec

\* Whatever a damaged byte says of lengths, restart points or their number, what
\* the iterator shows lies within the entries, and its restart point exists
\* (DecodeEntry, Block::Block).
WithinBlock ==
  builder.finished /\ Valid(block, it) => it.end <= block.restarts /\ it.index < block.num

\* Damage in an entry stays behind it: what ends before the damaged byte is shown
\* as it was added, and so is what SeekToLast finds behind a later restart point.
\* (At or behind the damage, keys that were never added may be shown with a status
\* that is ok: only the block's checksum tells.)
UndamagedShown ==
  LET written == Len(builder.buffer) - Fixed32 * (1 + Len(builder.restarts))
  IN builder.finished /\ damaged \in 0..(written - 1) /\ Valid(block, it)
     /\ (it.end <= damaged \/ (call = <<"last">> /\ Last(builder.restarts) > damaged))
       => [key |-> it.key, value |-> it.value] \in Range(added)

\* A walk that ends without an error has come to the end of the entries: damage
\* in the middle of a block is not mistaken for its end.
EndIsReal ==
  call' = <<"next">> /\ builder.finished /\ ~Valid(block', it') /\ it'.ok
    => it.end = block.restarts

\* A walk ends, in a damaged block as well: Next only goes forward and Prev only
\* back.
WalkEnds ==
  builder.finished /\ Valid(block', it') =>
    /\ call' = <<"next">> => it'.current > it.current
    /\ call' = <<"prev">> => it'.current < it.current
=============================================================================
