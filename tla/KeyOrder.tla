------------------------------ MODULE KeyOrder ------------------------------
(***************************************************************************)
(* Internal keys as bytes (db/dbformat, util/comparator): a table is built  *)
(* from keys in their order, its index keys are shortened, and it is looked *)
(* up with a LookupKey as Table::InternalGet does, in one block only.       *)
(***************************************************************************)
EXTENDS Coding

CONSTANTS
  UserKeys, Tags,       \* bound: keys of the entries, and their <<sequence, type>>
  Snapshots,            \* bound: sequence numbers of lookups
  MaxEntries,           \* bound
  Space                 \* 200 in the code: size of space_

kTypeDeletion == 0
kTypeValue == 1
kValueTypeForSeek == kTypeValue
kMaxSequenceNumber == 2^(Width64 - Group - 1) - 1
MaxByte == 2 * B - 1

VARIABLES
  blocks,     \* data blocks: sequences of internal keys
  index,      \* index keys of the blocks that are finished
  pending,    \* pending_index_entry: the last block waits for its index key
  closed,     \* Finish was called
  key,        \* the last LookupKey: its buffer's size and its bytes, or none
  got         \* what the lookup found
vars == <<blocks, index, pending, closed, key, got>>

PackSequenceAndType(seq, t) == seq * 2 * B + t
AppendInternalKey(user, seq, t) == user \o EncodeFixed64(PackSequenceAndType(seq, t))
TagBytes == FixedBytes(Width64)
ExtractUserKey(k) == SubSeq(k, 1, Len(k) - TagBytes)
Num(k) == DecodeFixed(SubSeq(k, Len(k) - TagBytes + 1, Len(k)))

\* The last byte is the type, and is refused if it is none.
ParseInternalKey(k) ==
  IF Len(k) < TagBytes \/ Num(k) % (2 * B) > kTypeValue THEN Failed
  ELSE [ok |-> TRUE, user_key |-> ExtractUserKey(k), sequence |-> Num(k) \div (2 * B), type |-> Num(k) % (2 * B)]

\* The first byte in which two slices differ, or one more than the shorter has.
Shorter(a, b) == IF Len(a) < Len(b) THEN Len(a) ELSE Len(b)
DiffIndex(a, b) == Min({i \in 1..Shorter(a, b) : a[i] # b[i]} \union {Shorter(a, b) + 1})

\* Slice::compare: the first byte that differs, then the length.
UserLess(a, b) ==
  LET d == DiffIndex(a, b) IN IF d <= Shorter(a, b) THEN a[d] < b[d] ELSE Len(a) < Len(b)

\* InternalKeyComparator::Compare: decreasing numbers of the same user key.
Less(a, b) ==
  IF ExtractUserKey(a) = ExtractUserKey(b) THEN Num(a) > Num(b) ELSE UserLess(ExtractUserKey(a), ExtractUserKey(b))

\* diff_byte < 0xff && diff_byte + 1 < limit[diff_index]
HasRoom(b, limit) == b < MaxByte /\ b + 1 < limit

Incremented(s, i) == Append(SubSeq(s, 1, i - 1), s[i] + 1)

\* BytewiseComparatorImpl::FindShortestSeparator
ShortestSeparator(start, limit) ==
  LET d == DiffIndex(start, limit)
  IN IF d > Shorter(start, limit) THEN start
     ELSE IF HasRoom(start[d], limit[d]) THEN Incremented(start, d) ELSE start

\* BytewiseComparatorImpl::FindShortSuccessor: a run of 0xff is left alone.
ShortSuccessor(s) ==
  LET can == {i \in DOMAIN s : s[i] # MaxByte} IN IF can = {} THEN s ELSE Incremented(s, Min(can))

\* Shorter and larger, with the number that comes first; or the key as it was.
Shortened(k, tmp) ==
  IF Len(tmp) < Len(ExtractUserKey(k)) /\ UserLess(ExtractUserKey(k), tmp)
  THEN AppendInternalKey(tmp, kMaxSequenceNumber, kValueTypeForSeek) ELSE k

FindShortestSeparator(start, limit) == Shortened(start, ShortestSeparator(ExtractUserKey(start), ExtractUserKey(limit)))
FindShortSuccessor(k) == Shortened(k, ShortSuccessor(ExtractUserKey(k)))
-----------------------------------------------------------------------------
NoKey == [size |-> 0, bytes |-> <<>>, kstart |-> 0]
Nothing == [state |-> "not found", sequence |-> 0]

Init == blocks = <<<<>>>> /\ index = <<>> /\ pending = FALSE /\ closed = FALSE /\ key = NoKey /\ got = Nothing

Entries == FlattenSeq(blocks)
LastKey == Entries[Len(Entries)]

\* A sequence number is given once.
NumberUsed(k) == \E i \in DOMAIN Entries : ExtractUserKey(Entries[i]) = ExtractUserKey(k) /\ Num(Entries[i]) \div (2 * B) = Num(k) \div (2 * B)

\* TableBuilder::Add: the first key of a block gives the last one its index key.
Add(k) ==
  /\ ~closed /\ Len(Entries) < MaxEntries
  /\ Entries # <<>> => Less(LastKey, k) /\ ~NumberUsed(k)
  /\ IF pending THEN /\ index' = Append(index, FindShortestSeparator(LastKey, k))
                     /\ blocks' = Append(blocks, <<k>>)
     ELSE /\ blocks' = [blocks EXCEPT ![Len(blocks)] = Append(@, k)]
          /\ UNCHANGED index
  /\ pending' = FALSE
  /\ UNCHANGED <<closed, key, got>>

\* TableBuilder::Flush
Flush ==
  /\ ~closed /\ ~pending /\ blocks[Len(blocks)] # <<>>
  /\ pending' = TRUE
  /\ UNCHANGED <<blocks, index, closed, key, got>>

Finish ==
  /\ pending /\ ~closed
  /\ index' = Append(index, FindShortSuccessor(LastKey))
  /\ pending' = FALSE /\ closed' = TRUE
  /\ UNCHANGED <<blocks, key, got>>

\* A conservative estimate: 13 bytes more, 5 for the length and 8 for the tag.
Needed(user) == Len(user) + MaxBytes(Width32) + TagBytes

SeekType == kValueTypeForSeek

\* The LookupKey, in space_ or allocated: the length, the user key and the tag.
LookupKey(user, seq) ==
  LET length == EncodeVarint32(Len(user) + TagBytes)
  IN [size |-> IF Needed(user) <= Space THEN Space ELSE Needed(user),
      bytes |-> length \o AppendInternalKey(user, seq, SeekType),
      kstart |-> Len(length)]
internal_key(k) == SubSeq(k.bytes, k.kstart + 1, Len(k.bytes))

\* The first of a sequence of keys that is not less than the target, or none.
Seek(s, target) == {i \in DOMAIN s : ~Less(s[i], target) /\ \A j \in 1..(i - 1) : Less(s[j], target)}

\* Table::InternalGet, and the SaveValue that it calls with the entry.  It changes
\* nothing, so one of them is enough.
Get(user, seq) ==
  LET k == LookupKey(user, seq)
      target == internal_key(k)
      block == Seek(index, target)
      found == {blocks[b][i] : b \in block, i \in UNION {Seek(blocks[c], target) : c \in block}}
      parsed == ParseInternalKey(CHOOSE f \in found : TRUE)
  IN /\ closed /\ key = NoKey
     /\ key' = k
     /\ got' = IF found = {} THEN Nothing
               ELSE IF ~parsed.ok THEN [state |-> "corrupt", sequence |-> 0]
               ELSE IF parsed.user_key # user THEN Nothing
               ELSE [state |-> IF parsed.type = kTypeValue THEN "found" ELSE "deleted", sequence |-> parsed.sequence]
     /\ UNCHANGED <<blocks, index, pending, closed>>

Next ==
  \/ \E u \in UserKeys, t \in Tags : Add(AppendInternalKey(u, t[1], t[2]))
  \/ Flush \/ Finish
  \/ \E u \in UserKeys, s \in Snapshots : Get(u, s)
Spec == Init /\ [][Next]_vars
-----------------------------------------------------------------------------
\* An index key separates its block from the next one, user keys included: it
\* is at or behind every key of its block, and before the next block's; that is
\* what FindShortestSeparator asserts.
Between ==
  \A i \in DOMAIN index :
    /\ \A j \in DOMAIN blocks[i] : ~Less(index[i], blocks[i][j])
    /\ i < Len(blocks) =>
         /\ Less(index[i], blocks[i + 1][1])
         /\ Len(index[i]) < Len(blocks[i][Len(blocks[i])]) =>
              UserLess(ExtractUserKey(index[i]), ExtractUserKey(blocks[i + 1][1]))

\* A lookup finds the newest entry of the user key that the snapshot can see,
\* a deletion included, whatever the index keys became, and nothing if there is
\* none.
Visible(user, seq) ==
  {k \in {ParseInternalKey(Entries[i]) : i \in DOMAIN Entries} : k.user_key = user /\ k.sequence <= seq}
Newest(user, seq) ==
  LET all == Visible(user, seq)
      k == CHOOSE k \in all : \A o \in all : o.sequence <= k.sequence
  IN IF all = {} THEN Nothing
     ELSE [state |-> IF k.type = kTypeValue THEN "found" ELSE "deleted", sequence |-> k.sequence]
LookupRight ==
  key # NoKey =>
    LET p == ParseInternalKey(internal_key(key)) IN got = Newest(p.user_key, p.sequence)

\* A LookupKey stays within the buffer it chose, on both sides of the limit.
WithinBuffer == Len(key.bytes) <= key.size
=============================================================================
