---------------------------- MODULE VersionEdit ----------------------------
(***************************************************************************)
(* The records of a MANIFEST: an edit is made, encoded, perhaps cut off or  *)
(* damaged in one byte, and decoded, one field per step.                    *)
(***************************************************************************)
EXTENDS Coding, TLC

CONSTANTS
  kNumLevels,
  Names, Numbers, Keys,   \* bound: names of comparators, numbers, internal keys
  Levels,                 \* bound: of the edits made
  MaxSets,                \* bound: calls that make an edit
  Damage                  \* bound: values of a damaged byte

kComparator == 1
kLogNumber == 2
kNextFileNumber == 3
kLastSequence == 4
kCompactPointer == 5
kDeletedFile == 6
kNewFile == 7
kPrevLogNumber == 9

VARIABLES
  edit,     \* the edit that is made: an optional field is a sequence of at most one value
  sets,     \* calls so far
  input,    \* the record that is left to decode
  out,      \* the edit that is decoded
  msg,      \* why it is refused, or "ok"
  pc,       \* "make", "decode", "done"
  whole     \* history: the record is as it was encoded, is "cut" or "damaged"
vars == <<edit, sets, input, out, msg, pc, whole>>

Clear == [comparator |-> <<>>, log_number |-> <<>>, prev_log_number |-> <<>>, next_file_number |-> <<>>,
          last_sequence |-> <<>>, compact_pointers |-> <<>>, deleted_files |-> {}, new_files |-> <<>>]

Init == edit = Clear /\ sets = 0 /\ input = <<>> /\ out = Clear /\ msg = "ok" /\ pc = "make" /\ whole = "whole"

Make(e) ==
  /\ pc = "make" /\ sets < MaxSets
  /\ edit' = e /\ sets' = sets + 1
  /\ UNCHANGED <<input, out, msg, pc, whole>>

SetComparatorName == \E n \in Names : Make([edit EXCEPT !.comparator = <<n>>])
SetNumber(field) == \E n \in Numbers : Make([edit EXCEPT ![field] = <<n>>])
SetCompactPointer == \E l \in Levels, k \in Keys : Make([edit EXCEPT !.compact_pointers = Append(@, <<l, k>>)])
DeleteFile == \E l \in Levels, n \in Numbers : Make([edit EXCEPT !.deleted_files = @ \union {<<l, n>>}])
AddFile ==
  \E l \in Levels, n \in Numbers, size \in Numbers, small \in Keys, large \in Keys :
    Make([edit EXCEPT !.new_files = Append(@, [level |-> l, number |-> n, size |-> size, smallest |-> small, largest |-> large])])
-----------------------------------------------------------------------------
Encoded(tag, optional, Put(_)) == IF optional = <<>> THEN <<>> ELSE EncodeVarint32(tag) \o Put(optional[1])
EncodedList(s, Bytes(_)) == FlattenSeq([i \in DOMAIN s |-> Bytes(s[i])])

\* In the order of the set: by level, then by number.
Before(a, b) == a[1] < b[1] \/ (a[1] = b[1] /\ a[2] < b[2])
EncodedPointer(p) == EncodeVarint32(kCompactPointer) \o EncodeVarint32(p[1]) \o PutLengthPrefixedSlice(p[2])
EncodedDeleted(d) == EncodeVarint32(kDeletedFile) \o EncodeVarint32(d[1]) \o EncodeVarint64(d[2])
EncodedNew(f) ==
  EncodeVarint32(kNewFile) \o EncodeVarint32(f.level) \o EncodeVarint64(f.number) \o EncodeVarint64(f.size)
    \o PutLengthPrefixedSlice(f.smallest) \o PutLengthPrefixedSlice(f.largest)

EncodeTo(e) ==
  Encoded(kComparator, e.comparator, PutLengthPrefixedSlice)
    \o Encoded(kLogNumber, e.log_number, EncodeVarint64)
    \o Encoded(kPrevLogNumber, e.prev_log_number, EncodeVarint64)
    \o Encoded(kNextFileNumber, e.next_file_number, EncodeVarint64)
    \o Encoded(kLastSequence, e.last_sequence, EncodeVarint64)
    \o EncodedList(e.compact_pointers, EncodedPointer)
    \o EncodedList(SetToSortSeq(e.deleted_files, Before), EncodedDeleted)
    \o EncodedList(e.new_files, EncodedNew)

Write(bytes, how) ==
  /\ pc = "make"
  /\ input' = bytes /\ whole' = how /\ pc' = "decode"
  /\ UNCHANGED <<edit, sets, out, msg>>
Store == Write(EncodeTo(edit), "whole")
StoreCut == \E n \in 0..(Len(EncodeTo(edit)) - 1) : Write(SubSeq(EncodeTo(edit), 1, n), "cut")
StoreDamaged == \E i \in DOMAIN EncodeTo(edit), b \in Damage : Write([EncodeTo(edit) EXCEPT ![i] = b], "damaged")
-----------------------------------------------------------------------------

LevelOf(g) == IF ~g.ok THEN Failed ELSE IF g.value < kNumLevels THEN g ELSE Failed
GetLevel(s) == LevelOf(GetVarint32(s))

GetInternalKey(s) == GetLengthPrefixedSlice(s)

\* Several Gets one after the other, each from what the last one left.
GetOne(kind, s) == IF kind = "level" THEN GetLevel(s) ELSE IF kind = "number" THEN GetVarint64(s) ELSE GetInternalKey(s)
Appended(g, h) == IF ~h.ok THEN Failed ELSE Got(Append(g.value, h.value), h.rest)
Then(g, kind) == IF ~g.ok THEN Failed ELSE Appended(g, GetOne(kind, g.rest))
GetAll(s, kinds) == FoldLeft(Then, Got(<<>>, s), kinds)

\* What follows a tag.
Kinds ==
  (kComparator :> <<"key">>) @@ (kLogNumber :> <<"number">>) @@ (kPrevLogNumber :> <<"number">>)
    @@ (kNextFileNumber :> <<"number">>) @@ (kLastSequence :> <<"number">>) @@ (kCompactPointer :> <<"level", "key">>)
    @@ (kDeletedFile :> <<"level", "number">>) @@ (kNewFile :> <<"level", "number", "number", "key", "key">>)

Accept(g, e) ==
  IF g.ok THEN out' = e /\ input' = g.rest /\ UNCHANGED msg
  ELSE msg' = "corruption" /\ UNCHANGED <<out, input>>

Single == (kComparator :> "comparator") @@ (kLogNumber :> "log_number") @@ (kPrevLogNumber :> "prev_log_number")
            @@ (kNextFileNumber :> "next_file_number") @@ (kLastSequence :> "last_sequence")

\* The edit with the field that v was read for.
With(tag, v) ==
  CASE tag \in DOMAIN Single -> [out EXCEPT ![Single[tag]] = v]
    [] tag = kCompactPointer -> [out EXCEPT !.compact_pointers = Append(@, v)]
    [] tag = kDeletedFile -> [out EXCEPT !.deleted_files = @ \union {v}]
    [] tag = kNewFile -> [out EXCEPT !.new_files = Append(@, [level |-> v[1], number |-> v[2], size |-> v[3],
                                                              smallest |-> v[4], largest |-> v[5]])]

Taken(tag, g) == Accept(g, IF g.ok THEN With(tag, g.value) ELSE out)
FieldAt(tag) ==
  /\ tag.ok
  /\ IF tag.value \in DOMAIN Kinds THEN Taken(tag.value, GetAll(tag.rest, Kinds[tag.value]))
     ELSE msg' = "corruption" /\ UNCHANGED <<out, input>>

\* One turn of the loop of DecodeFrom.
DecodeField ==
  /\ pc = "decode" /\ msg = "ok"
  /\ FieldAt(GetVarint32(input))
  /\ UNCHANGED <<edit, sets, pc, whole>>

\* msg == nullptr && !input.empty()
Leftover == input # <<>>

DecodeEnd ==
  /\ pc = "decode" /\ (msg # "ok" \/ ~GetVarint32(input).ok)
  /\ msg' = IF msg = "ok" /\ Leftover THEN "corruption" ELSE msg
  /\ pc' = "done"
  /\ UNCHANGED <<edit, sets, input, out, whole>>

Setters ==
  \/ SetComparatorName \/ SetCompactPointer \/ DeleteFile \/ AddFile
  \/ \E f \in {"log_number", "prev_log_number", "next_file_number", "last_sequence"} : SetNumber(f)
DecodeFrom == DecodeField \/ DecodeEnd
Next == Setters \/ Store \/ StoreCut \/ StoreDamaged \/ DecodeFrom
Spec == Init /\ [][Next]_vars
-----------------------------------------------------------------------------
Accepted == pc = "done" /\ msg = "ok"

\* Recovery decodes the edit that LogAndApply encoded, whatever was set in
\* whichever order.
RoundTrip == pc = "done" /\ whole = "whole" => msg = "ok" /\ out = edit

\* A record that is cut is refused, or is cut between two fields: what is
\* decoded is part of the edit, and nothing else.
CutIsPart ==
  Accepted /\ whole = "cut" =>
    /\ \A f \in {"comparator", "log_number", "prev_log_number", "next_file_number", "last_sequence",
                  "compact_pointers", "new_files"} : IsPrefix(out[f], edit[f])
    /\ out.deleted_files \subseteq edit.deleted_files
    /\ input = <<>> /\ out # edit

\* Whatever the bytes are, the levels of a decoded edit index the arrays of
\* VersionSet.
LevelsInRange ==
  /\ \A d \in out.deleted_files : d[1] < kNumLevels
  /\ \A i \in DOMAIN out.new_files : out.new_files[i].level < kNumLevels
  /\ \A i \in DOMAIN out.compact_pointers : out.compact_pointers[i][1] < kNumLevels

\* DecodeFrom comes to an end on every record: each field it takes shortens
\* the input, or is refused.
Shortens == pc = "decode" => pc' = "done" \/ msg' # "ok" \/ Len(input') < Len(input) \/ UNCHANGED vars
=============================================================================
