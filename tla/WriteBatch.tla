----------------------------- MODULE WriteBatch -----------------------------
(***************************************************************************)
(* A batch of updates as the bytes it is logged as.  Two batches are filled *)
(* and appended to each other; one of them is logged, perhaps damaged in   *)
(* one byte there, read again and inserted into a MemTable, one record per   *)
(* step.                                                                    *)
(***************************************************************************)
EXTENDS Coding

CONSTANTS
  Keys, Values,       \* bound: slices
  Sequences,          \* bound: of the batch
  MaxOps,             \* bound: calls on the batches
  Damage              \* bound: values of a damaged byte

kTypeDeletion == 0
kTypeValue == 1

VARIABLES
  rep,        \* rep_ of the batches 1 and 2
  ops,        \* history: the updates of each
  calls,      \* calls so far
  contents,   \* rep_ of the batch that is read
  input,      \* Iterate: what is left of it
  found,      \* and how many records it has found
  mem,        \* what the MemTableInserter has added
  logged,     \* history: the updates that were logged, with their numbers
  status,     \* of Iterate
  pc,         \* "fill", "iterate", "done"
  whole       \* history: the log is as it was written
vars == <<rep, ops, calls, contents, input, found, mem, logged, status, pc, whole>>

kHeader == FixedBytes(Width64) + FixedBytes(Width32)
Empty == [i \in 1..kHeader |-> 0]

Sequence(r) == DecodeFixed(SubSeq(r, 1, FixedBytes(Width64)))
Count(r) == DecodeFixed(SubSeq(r, FixedBytes(Width64) + 1, kHeader))
SetSequence(r, n) == EncodeFixed64(n) \o From(r, FixedBytes(Width64) + 1)
SetCount(r, n) == SubSeq(r, 1, FixedBytes(Width64)) \o EncodeFixed32(n) \o From(r, kHeader + 1)

Init ==
  /\ rep = [b \in {1, 2} |-> Empty] /\ ops = [b \in {1, 2} |-> <<>>] /\ calls = 0
  /\ contents = Empty /\ input = <<>> /\ found = 0 /\ mem = <<>> /\ logged = <<>> /\ status = "ok" /\ pc = "fill" /\ whole = TRUE

Fill(b, r, o) ==
  /\ pc = "fill" /\ calls < MaxOps
  /\ rep' = [rep EXCEPT ![b] = r] /\ ops' = [ops EXCEPT ![b] = o] /\ calls' = calls + 1
  /\ UNCHANGED <<contents, input, found, mem, logged, status, pc, whole>>

Put(b, k, v) ==
  Fill(b, SetCount(rep[b], Count(rep[b]) + 1) \o <<kTypeValue>> \o PutLengthPrefixedSlice(k) \o PutLengthPrefixedSlice(v),
       Append(ops[b], [type |-> kTypeValue, key |-> k, value |-> v]))

Delete(b, k) ==
  Fill(b, SetCount(rep[b], Count(rep[b]) + 1) \o <<kTypeDeletion>> \o PutLengthPrefixedSlice(k),
       Append(ops[b], [type |-> kTypeDeletion, key |-> k, value |-> <<>>]))

Clear(b) == Fill(b, Empty, <<>>)

\* WriteBatchInternal::Append, the bytes.
Appended(dst, src) == SetCount(dst, Count(dst) + Count(src)) \o From(src, kHeader + 1)

AppendBatch(b, c) == Fill(b, Appended(rep[b], rep[c]), ops[b] \o ops[c])
-----------------------------------------------------------------------------
\* The writer numbers its batch and logs it; recovery or repair gives what it
\* reads to SetContents and InsertInto.
SetContents(b, n, r, ok) ==
  /\ pc = "fill"
  /\ contents' = r /\ input' = From(r, kHeader + 1)
  /\ logged' = [i \in DOMAIN ops[b] |-> [seq |-> n + i - 1, op |-> ops[b][i]]]
  /\ whole' = ok /\ pc' = "iterate"
  /\ UNCHANGED <<rep, ops, calls, found, mem, status>>

Read(b, n) == SetContents(b, n, SetSequence(rep[b], n), TRUE)

\* Repair reads logs without looking at checksums.
ReadDamaged(b, n) ==
  \E i \in 1..Len(rep[b]), d \in Damage : SetContents(b, n, [SetSequence(rep[b], n) EXCEPT ![i] = d], FALSE)

Corruption == status' = "corruption" /\ pc' = "done" /\ UNCHANGED <<mem, input>>

\* sequence_ of the MemTableInserter, which each update increments.
NextNumber == Sequence(contents) + Len(mem)

Insert(type, k, v, rest) ==
  /\ mem' = Append(mem, [seq |-> NextNumber, op |-> [type |-> type, key |-> k, value |-> v]])
  /\ input' = rest
  /\ UNCHANGED <<status, pc>>

\* One turn of the loop of Iterate, with the MemTableInserter.
IterateRecord ==
  /\ pc = "iterate" /\ input # <<>>
  /\ found' = found + 1
  /\ LET key == GetLengthPrefixedSlice(Tail(input))
         value == GetLengthPrefixedSlice(key.rest)
     IN IF Head(input) \notin {kTypeValue, kTypeDeletion} \/ ~key.ok THEN Corruption
        ELSE IF Head(input) = kTypeDeletion THEN Insert(kTypeDeletion, key.value, <<>>, key.rest)
        ELSE IF ~value.ok THEN Corruption
        ELSE Insert(kTypeValue, key.value, value.value, value.rest)
  /\ UNCHANGED <<rep, ops, calls, contents, logged, whole>>

WrongCount == found # Count(contents)

IterateEnd ==
  /\ pc = "iterate" /\ input = <<>>
  /\ status' = IF WrongCount THEN "corruption" ELSE "ok"
  /\ pc' = "done"
  /\ UNCHANGED <<rep, ops, calls, contents, input, found, mem, logged, whole>>

Updates(b) ==
  \/ \E k \in Keys : Delete(b, k) \/ \E v \in Values : Put(b, k, v)
  \/ Clear(b)
  \/ AppendBatch(b, 3 - b)
Reads(b) == \E n \in Sequences : Read(b, n) \/ ReadDamaged(b, n)
Iterate == IterateRecord \/ IterateEnd
Next == (\E b \in {1, 2} : Updates(b) \/ Reads(b)) \/ Iterate
Spec == Init /\ [][Next]_vars
-----------------------------------------------------------------------------
\* The count in the header is the number of updates, through appends (of a
\* group of writers' batches too) and clears.
CountRight == \A b \in {1, 2} : Count(rep[b]) = Len(ops[b])

\* Inserting a batch that is read as it was written adds its updates in their
\* order, with consecutive numbers.
InsertsAll == pc = "done" /\ whole => status = "ok" /\ mem = logged

\* Whatever the bytes are, a batch that is accepted has inserted as many
\* updates as it counts, each with its own number: those a recovery adds to
\* the last sequence number.
AcceptedCounts ==
  pc = "done" /\ status = "ok" =>
    /\ Len(mem) = Count(contents)
    /\ \A i \in DOMAIN mem : mem[i].seq = Sequence(contents) + i - 1

\* "WriteBatch holds a collection of updates to apply atomically to a DB."
\* (write_batch.h): a batch that is refused has no effect.
Atomic == pc = "done" /\ status # "ok" => mem = <<>>
=============================================================================
