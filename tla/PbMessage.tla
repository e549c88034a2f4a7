----------------------------- MODULE PbMessage -----------------------------
(***************************************************************************)
(* nanopb's messages: pb_decode reads a stream of bytes into a structure   *)
(* that a table of field descriptors lays out, allocating the pointer      *)
(* fields on the way, pb_release gives the allocations back, pb_encode     *)
(* writes the structure out again.                                         *)
(*                                                                         *)
(* The bytes are real ones, the varints short (PbWire has the long ones).  *)
(* The decoder's state w is the stream (pos and bytes left, of the current *)
(* substream) and the heap: the live allocations, and how many more        *)
(* pb_realloc will grant.  A structure m has a slot for each field: f by   *)
(* tag, the one union u with its which.  A slot has has (has_ field), cnt  *)
(* (the count of an array), id (its allocation, 0 for NULL) and items; a   *)
(* string or bytes field of pointer type is an item of its own [id, v].    *)
(***************************************************************************)
EXTENDS Integers, Sequences, FiniteSets, SequencesExt, FiniteSetsExt, TLC

CONSTANTS
  Fields,        \* the descriptors of the message type, a sequence
  Chunks,        \* the pieces the input is put together from
  MaxChunks,     \* bound: pieces in an input
  MaxCalls,      \* bound: calls on one structure
  Grants,        \* how many allocations succeed before pb_realloc fails
  PB_SIZE_MAX,
  PB_MAX_REQUIRED_FIELDS

NanopbBounds ==
  /\ MaxChunks \in Nat /\ MaxCalls \in Nat /\ Grants \subseteq Nat
  /\ PB_SIZE_MAX \in Nat \ {0} /\ PB_MAX_REQUIRED_FIELDS \in Nat \ {0}

VARIABLES
  input,   \* the bytes that have arrived
  chunks,  \* in how many pieces
  msg,     \* the structure
  heap,    \* [live, next, bad]: allocations, the next identity, a bad free
  state,   \* "fresh", "ok", "failed" or "released"
  calls,
  left     \* what the last call left of the stream: [pos, left]
vars == <<input, chunks, msg, heap, state, calls, left>>
-----------------------------------------------------------------------------
(* Field descriptors (pb.h). *)
Packable(fd) == fd.lt \in {"varint", "fixed32"}
Text(fd) == fd.lt \in {"string", "bytes"}
Field(tag, at, ht, lt, size, n, sized, sub) ==
  [tag |-> tag, at |-> at, ht |-> ht, lt |-> lt, data_size |-> size,
   array_size |-> n, sized |-> sized, sub |-> sub]
REQUIRED_STATIC(tag, lt, size, sub) == Field(tag, "static", "required", lt, size, 0, FALSE, sub)
OPTIONAL_STATIC(tag, lt, size, sub) == Field(tag, "static", "optional", lt, size, 0, TRUE, sub)
SINGULAR_STATIC(tag, lt, size, sub) == Field(tag, "static", "optional", lt, size, 0, FALSE, sub)
REPEATED_STATIC(tag, lt, size, n, sub) == Field(tag, "static", "repeated", lt, size, n, TRUE, sub)
REPEATED_FIXED_COUNT(tag, lt, size, n) == Field(tag, "static", "repeated", lt, size, n, FALSE, <<>>)
ONEOF_STATIC(tag, lt, size, sub) == Field(tag, "static", "oneof", lt, size, 0, TRUE, sub)
REQUIRED_POINTER(tag, lt, size, sub) == Field(tag, "pointer", "required", lt, size, 0, FALSE, sub)
OPTIONAL_POINTER(tag, lt, size, sub) == Field(tag, "pointer", "optional", lt, size, 0, FALSE, sub)
REPEATED_POINTER(tag, lt, size, sub) == Field(tag, "pointer", "repeated", lt, size, 0, TRUE, sub)
ONEOF_POINTER(tag, lt, size, sub) == Field(tag, "pointer", "oneof", lt, size, 0, TRUE, sub)
\* sub holds the extensions that are registered.
EXTENSION(tag, exts) == Field(tag, "static", "optional", "extension", 0, 0, FALSE, exts)
\* The decoding callback reads what it is given; sub holds what the encoding
\* callback writes, when the size is taken and when the message is written.
CALLBACK(tag, decodes, written) == Field(tag, "callback", "optional", "string", 0, 0, decodes, written)

Get(m, fd) == IF fd.ht = "oneof" THEN m.u ELSE m.f[fd.tag]
Put(m, fd, slot) == IF fd.ht = "oneof" THEN [m EXCEPT !.u = slot]
                    ELSE [m EXCEPT !.f[fd.tag] = slot]
NoSlot == [has |-> FALSE, cnt |-> 0, id |-> 0, items |-> <<>>]
NullText == [id |-> 0, v |-> <<>>]
Zeros(n) == [i \in 1..n |-> 0]
-----------------------------------------------------------------------------
(* Streams and the heap.  Every operation returns [ok, w, d]. *)
Ok(w, d) == [ok |-> TRUE, w |-> w, d |-> d]
Fail(w, d) == [ok |-> FALSE, w |-> w, d |-> d]

pb_read(w, n) ==
  IF w.left < n THEN Fail(w, <<>>)
  ELSE Ok([w EXCEPT !.pos = @ + n, !.left = @ - n],
          SubSeq(w.bytes, w.pos, w.pos + n - 1))

RECURSIVE Value(_, _)
Value(bytes, pos) == (bytes[pos] % 128) + (IF bytes[pos] < 128 THEN 0 ELSE 128 * Value(bytes, pos + 1))

VarintLength(w) == {n \in 1..w.left : w.bytes[w.pos + n - 1] < 128 /\ \A k \in 1..(n - 1) : w.bytes[w.pos + k - 1] >= 128}
varint(w) ==
  IF VarintLength(w) = {} THEN Fail([w EXCEPT !.pos = @ + w.left, !.left = 0], 0)
  ELSE LET n == CHOOSE n \in VarintLength(w) : TRUE
       IN Ok([w EXCEPT !.pos = @ + n, !.left = @ - n], Value(w.bytes, w.pos))

Substream(size) ==
  IF ~size.ok \/ size.w.left < size.d THEN Fail(size.w, 0)
  ELSE Ok([size.w EXCEPT !.left = size.d], size.w.left - size.d)
pb_make_string_substream(w) == Substream(varint(w))

pb_close_string_substream(sub, parent) ==
  Ok([sub EXCEPT !.pos = @ + sub.left, !.left = parent], 0)

\* What was read of the substream, with the parent's stream again.
Closed(r, parent) == [r EXCEPT !.w = pb_close_string_substream(@, parent).w]

SkipString(size) == IF size.ok THEN pb_read(size.w, size.d) ELSE size
pb_skip_field(w, wire_type) ==
  CASE wire_type = 0 -> varint(w)
    [] wire_type = 1 -> pb_read(w, 8)
    [] wire_type = 2 -> SkipString(varint(w))
    [] wire_type = 5 -> pb_read(w, 4)
    [] OTHER -> Fail(w, 0)

pb_free(w, id) ==
  [w EXCEPT !.live = @ \ {id}, !.bad = @ \/ (id # 0 /\ id \notin w.live)]
\* allocate_field: a new identity for what it returns, the old one is gone.
allocate_field(w, id) ==
  IF w.mem = 0 THEN Fail(w, id)
  ELSE Ok([pb_free(w, id) EXCEPT !.live = @ \cup {w.next}, !.next = @ + 1, !.mem = @ - 1],
          w.next)
-----------------------------------------------------------------------------
(* Defaults and release. *)
RECURSIVE pb_message_set_to_defaults(_, _)
DefaultItem(fd) ==
  CASE fd.lt = "submessage" -> pb_message_set_to_defaults(fd.sub, <<>>)
    [] fd.lt \in {"varint", "fixed32"} -> 0
    [] fd.lt = "fixed_length_bytes" -> Zeros(fd.data_size)
    [] Text(fd) -> IF fd.at = "pointer" THEN NullText ELSE <<>>
\* NULL, and no entries.
NullPointer(fd) == IF Text(fd) /\ fd.ht \in {"required", "optional"} THEN [NoSlot EXCEPT !.items = <<NullText>>] ELSE NoSlot
\* A callback is not overwritten.  An array of fixed count has no counter: it is
\* its first entry that is set to zero, the others keep what they had.
pb_field_set_to_default(fd, old) ==
  CASE fd.lt = "extension" ->
         [NoSlot EXCEPT !.items = [i \in DOMAIN fd.sub |->
            [fd |-> fd.sub[i], found |-> FALSE,
             m |-> pb_message_set_to_defaults(<<fd.sub[i]>>, <<>>)]]]
    [] fd.at = "callback" -> old
    [] fd.ht = "repeated" /\ ~fd.sized ->
         [NoSlot EXCEPT !.items = [(IF old.items = <<>> THEN Zeros(fd.array_size) ELSE old.items)
                                     EXCEPT ![1] = 0]]
    [] fd.at = "pointer" -> NullPointer(fd)
    [] fd.ht \in {"repeated", "oneof"} -> NoSlot
    [] OTHER -> [NoSlot EXCEPT !.items = <<DefaultItem(fd)>>]
pb_message_set_to_defaults(fields, m) ==
  [f |-> [tag \in {fields[i].tag : i \in {j \in DOMAIN fields : fields[j].ht # "oneof"}} |->
            LET fd == CHOOSE d \in Range(fields) : d.tag = tag
            IN pb_field_set_to_default(fd, IF m = <<>> THEN NoSlot ELSE m.f[tag])],
   which |-> 0, u |-> NoSlot]

RECURSIVE pb_release(_, _, _), pb_release_single_field(_, _, _)

FreeTexts(w, items, n) ==
  FoldLeftDomain(LAMBDA v, i : IF i <= n THEN pb_free(v, items[i].id) ELSE v, w, items)

\* How many items of a slot are there.
Count(fd, slot) ==
  CASE fd.ht # "repeated" -> Len(slot.items)
    [] fd.at = "static" -> Min({slot.cnt, fd.array_size, Len(slot.items)})
    [] OTHER -> slot.cnt

\* The submessages of a slot, whether they are allocated or not, and its extensions.
TypeOf(fd, item) == IF fd.lt = "extension" THEN <<item.fd>> ELSE fd.sub
InnerOf(fd, item) == IF fd.lt = "extension" THEN item.m ELSE item
ReleasedItem(fd, r, i, one) ==
  Ok(one.w, [r.d EXCEPT ![i] = IF fd.lt = "extension" THEN [@ EXCEPT !.m = one.d] ELSE one.d])
ReleaseInner(w, fd, slot) ==
  IF fd.lt \notin {"extension", "submessage"} \/ fd.at = "callback" THEN Ok(w, slot.items)
  ELSE FoldLeftDomain(LAMBDA r, i : ReleasedItem(fd, r, i, pb_release(r.w, TypeOf(fd, slot.items[i]), InnerOf(fd, slot.items[i]))),
                      Ok(w, slot.items), SubSeq(slot.items, 1, Count(fd, slot)))

\* What is allocated is freed and its pointer cleared, once its own contents are released.
ReleaseSlot(inner, fd, m, slot) ==
  IF fd.at = "pointer"
  THEN Ok(pb_free(IF Text(fd) THEN FreeTexts(inner.w, slot.items, Count(fd, slot)) ELSE inner.w, slot.id),
          Put(m, fd, NullPointer(fd)))
  ELSE Ok(inner.w, Put(m, fd, [slot EXCEPT !.items = inner.d]))

pb_release_single_field(w, fd, m) ==
  IF fd.ht = "oneof" /\ m.which # fd.tag THEN Ok(w, m)
  ELSE ReleaseSlot(ReleaseInner(w, fd, Get(m, fd)), fd, m, Get(m, fd))
pb_release(w, fields, m) ==
  FoldLeft(LAMBDA r, fd : pb_release_single_field(r.w, fd, r.d), Ok(w, m), fields)
-----------------------------------------------------------------------------
(* Decoding a field: func is the decoder of one item (PB_DECODERS). *)
RECURSIVE pb_decode_noinit(_, _, _)

ReleasedOnError(r, fields) ==
  IF r.ok THEN r ELSE [pb_release(r.w, fields, r.d) EXCEPT !.ok = FALSE]

pb_decode(w, fields, m) ==
  ReleasedOnError(pb_decode_noinit(w, fields, pb_message_set_to_defaults(fields, m)), fields)

Needs(fd, size) == size + (IF fd.lt = "string" THEN 1 ELSE 4)
ReadText(id, r) == [r EXCEPT !.d = [id |-> id, v |-> @]]
AllocatedText(got, size, old) == IF got.ok THEN ReadText(got.d, pb_read(got.w, size)) ELSE Fail(got.w, old)
SizedText(size, fd, old) ==
  CASE ~size.ok -> Fail(size.w, old)
    [] fd.at = "pointer" -> AllocatedText(allocate_field(size.w, old.id), size.d, old)
    [] Needs(fd, size.d) > fd.data_size -> Fail(size.w, old)
    [] OTHER -> pb_read(size.w, size.d)
pb_dec_text(w, fd, old) == SizedText(varint(w), fd, old)

FixedLength(size, fd, old) ==
  CASE ~size.ok -> Fail(size.w, old)
    [] size.d = 0 -> Ok(size.w, Zeros(fd.data_size))
    [] size.d # fd.data_size -> Fail(size.w, old)
    [] OTHER -> pb_read(size.w, size.d)
pb_dec_fixed_length_bytes(w, fd, old) == FixedLength(varint(w), fd, old)

\* The entries of an array are set to their defaults first.
SubmessageIn(sub, fd, old) ==
  CASE ~sub.ok -> Fail(sub.w, old)
    [] fd.ht = "repeated" -> Closed(pb_decode(sub.w, fd.sub, old), sub.d)
    [] OTHER -> Closed(pb_decode_noinit(sub.w, fd.sub, old), sub.d)
pb_dec_submessage(w, fd, old) == SubmessageIn(pb_make_string_substream(w), fd, old)

\* Of the types that can be packed.
Fixed32(r) == IF r.ok THEN Ok(r.w, r.d[1] + 256 * r.d[2] + 65536 * r.d[3]) ELSE Fail(r.w, 0)
Number(w, fd) == IF fd.lt = "varint" THEN varint(w) ELSE Fixed32(pb_read(w, 4))

func(w, fd, old) ==
  CASE Packable(fd) -> Number(w, fd)
    [] Text(fd) -> pb_dec_text(w, fd, old)
    [] fd.lt = "fixed_length_bytes" -> pb_dec_fixed_length_bytes(w, fd, old)
    [] fd.lt = "submessage" -> pb_dec_submessage(w, fd, old)

ItemAt(items, i, fd) == IF i \in DOMAIN items THEN items[i] ELSE DefaultItem(fd)
SetItem(items, i, item) == IF i \in DOMAIN items THEN [items EXCEPT ![i] = item]
                           ELSE Append(items, item)

\* One more entry of an array.
Received(r, slot) == [r EXCEPT !.d = [slot EXCEPT !.cnt = @ + 1, !.items = SetItem(@, slot.cnt + 1, r.d)]]

\* The entries of a packed array, until the substream or the array is used up.
RECURSIVE PackedStatic(_, _, _)
StaticEntry(r, fd, slot) == IF r.ok THEN PackedStatic(r.w, fd, Received(r, slot).d) ELSE Fail(r.w, slot)
PackedStatic(w, fd, slot) ==
  IF w.left = 0 \/ slot.cnt >= fd.array_size THEN Ok(w, slot) ELSE StaticEntry(Number(w, fd), fd, slot)

\* No more entries than a pb_size_t counts.
Full(slot) == slot.cnt = PB_SIZE_MAX

\* Room for n entries, and for all that the substream may still hold when there is none.
Room(remain, allocated) == allocated + (IF remain < PB_SIZE_MAX - allocated THEN remain ELSE 1)
Grown(w, fd, n, allocated) ==
  IF n <= allocated THEN allocated ELSE Room((w.left - 1) \div fd.data_size + 1, allocated)

RECURSIVE PackedPointer(_, _, _, _)
PointerEntry(r, fd, slot, room) ==
  IF r.ok THEN PackedPointer(r.w, fd, Received(r, slot).d, room) ELSE Fail(r.w, slot)
PointerPlace(got, fd, slot, room) ==
  IF got.ok THEN PointerEntry(Number(got.w, fd), fd, [slot EXCEPT !.id = got.d], room) ELSE Fail(got.w, slot)
PackedPointer(w, fd, slot, allocated) ==
  CASE w.left = 0 -> Ok(w, slot)
    [] Full(slot) -> Fail(w, slot)
    [] OTHER -> PointerPlace(IF slot.cnt + 1 > allocated THEN allocate_field(w, slot.id) ELSE Ok(w, slot.id), fd, slot,
                             Grown(w, fd, slot.cnt + 1, allocated))

ArrayOverflow(fd, slot) == fd.ht = "repeated" /\ slot.cnt >= fd.array_size

Packed(fd, wire_type) == fd.ht = "repeated" /\ wire_type = 2 /\ Packable(fd)

\* The slot that was decoded, in its structure.
Decoded(r, m, fd) == [r EXCEPT !.d = Put(m, fd, @)]

StaticAll(r, parent) == IF r.w.left # 0 THEN Fail(r.w, r.d) ELSE Closed(r, parent)
StaticIn(sub, fd, slot) ==
  IF sub.ok THEN StaticAll(PackedStatic(sub.w, fd, slot), sub.d) ELSE Fail(sub.w, slot)

StaticOld(fd, slot) ==
  ItemAt(IF fd.ht = "oneof" THEN <<>> ELSE slot.items, IF fd.ht = "repeated" THEN slot.cnt + 1 ELSE 1, fd)
StaticSet(r, fd, m, slot) ==
  CASE fd.ht = "repeated" -> Decoded(Received(r, slot), m, fd)
    [] fd.ht = "oneof" -> [r EXCEPT !.d = [m EXCEPT !.which = fd.tag, !.u = [NoSlot EXCEPT !.items = <<r.d>>]]]
    [] OTHER -> [r EXCEPT !.d = Put(m, fd, [slot EXCEPT !.has = TRUE, !.items = <<r.d>>])]

\* The count goes up even when the array is full.
decode_static_field(w, wire_type, fd, m) ==
  CASE Packed(fd, wire_type) -> Decoded(StaticIn(pb_make_string_substream(w), fd, Get(m, fd)), m, fd)
    [] ArrayOverflow(fd, Get(m, fd)) -> Fail(w, Put(m, fd, [Get(m, fd) EXCEPT !.cnt = @ + 1]))
    [] OTHER -> StaticSet(func(w, fd, StaticOld(fd, Get(m, fd))), fd, m, Get(m, fd))

\* A second occurrence of an allocated submessage replaces the first.
Emptied(w, fd, m) ==
  IF fd.lt = "submessage" /\ Get(m, fd).id # 0 THEN pb_release_single_field(w, fd, m)
  ELSE Ok(w, m)

PointerIn(sub, fd, slot) ==
  IF sub.ok THEN Closed(PackedPointer(sub.w, fd, slot, slot.cnt), sub.d) ELSE Fail(sub.w, slot)

\* A single string allocates for itself, anything else here.
Itself(fd) == Text(fd) /\ fd.ht # "repeated"
PointerSet(r, id, fd, m, slot) ==
  Decoded(IF fd.ht = "repeated" THEN Received(r, [slot EXCEPT !.id = id])
          ELSE [r EXCEPT !.d = [slot EXCEPT !.id = id, !.items = <<r.d>>]], m, fd)
PointerInto(got, fd, m, slot) ==
  IF ~got.ok THEN Fail(got.w, m)
  ELSE PointerSet(func(got.w, fd, ItemAt(IF Itself(fd) THEN slot.items ELSE <<>>, 1, fd)), got.d, fd, m, slot)
PointerItem(w, fd, m, slot) ==
  PointerInto(IF Itself(fd) THEN Ok(w, slot.id) ELSE allocate_field(w, slot.id), fd, m, slot)
Which(m, fd) == IF fd.ht = "oneof" THEN [m EXCEPT !.which = fd.tag] ELSE m
PointerFill(e, fd) == PointerItem(e.w, fd, Which(e.d, fd), Get(e.d, fd))

decode_pointer_field(w, wire_type, fd, m) ==
  CASE Packed(fd, wire_type) -> Decoded(PointerIn(pb_make_string_substream(w), fd, Get(m, fd)), m, fd)
    [] fd.ht = "repeated" /\ Full(Get(m, fd)) -> Fail(w, m)
    [] OTHER -> PointerFill(IF fd.ht = "repeated" THEN Ok(w, m) ELSE Emptied(w, fd, m), fd)

\* The callback takes what it is given, string or number, and keeps it.
CallbackKeeps(raw, fd, m) == Ok(raw.w, Put(m, fd, [Get(m, fd) EXCEPT !.items = Append(@, raw.d)]))
CallbackIn(sub, fd, m) ==
  IF sub.ok THEN Closed(CallbackKeeps(pb_read(sub.w, sub.w.left), fd, m), sub.d) ELSE Fail(sub.w, m)
CallbackRaw(r, w, fd, m) ==
  IF fd.sized /\ r.ok THEN CallbackKeeps(pb_read(w, w.left - r.w.left), fd, m) ELSE [r EXCEPT !.d = m]
decode_callback_field(w, wire_type, fd, m) ==
  IF fd.sized /\ wire_type = 2 THEN CallbackIn(pb_make_string_substream(w), fd, m)
  ELSE CallbackRaw(pb_skip_field(w, wire_type), w, fd, m)

\* Another member of the union was decoded before: release it.
pb_release_union_field(w, fd, m, fields) ==
  LET old == {d \in Range(fields) : d.tag = m.which}
  IN CASE fd.ht # "oneof" \/ m.which \in {0, fd.tag} -> Ok(w, m)
       [] old = {} -> Fail(w, m)
       [] OTHER -> pb_release_single_field(w, CHOOSE d \in old : TRUE, m)

DecodeInto(u, wire_type, fd) ==
  CASE ~u.ok -> u
    [] fd.at = "static" -> decode_static_field(u.w, wire_type, fd, u.d)
    [] fd.at = "pointer" -> decode_pointer_field(u.w, wire_type, fd, u.d)
    [] fd.at = "callback" -> decode_callback_field(u.w, wire_type, fd, u.d)
decode_field(w, wire_type, fd, m, fields) == DecodeInto(pb_release_union_field(w, fd, m, fields), wire_type, fd)

\* The first extension with this tag reads it; none: nothing is read.
Extended(r, exts, i) == [r EXCEPT !.d = [exts EXCEPT ![i].m = r.d, ![i].found = TRUE]]
ExtensionField(w, wire_type, exts, i) ==
  Extended(decode_field(w, wire_type, exts[i].fd, exts[i].m, <<exts[i].fd>>), exts, i)
decode_extension(w, tag, wire_type, exts) ==
  LET own == {i \in DOMAIN exts : exts[i].fd.tag = tag}
  IN IF own = {} THEN Ok(w, exts) ELSE ExtensionField(w, wire_type, exts, Min(own))
-----------------------------------------------------------------------------
(* Decoding a message.  s: the required fields seen (by index), where the  *)
(* extensions start (0: not looked up yet, PB_SIZE_MAX: there are none),   *)
(* the array of fixed count being received and how much of it there is.    *)
RequiredIndex(fields, i) == Cardinality({j \in 1..(i - 1) : fields[j].ht = "required"})
Required(fields) == {RequiredIndex(fields, i) : i \in {j \in DOMAIN fields : fields[j].ht = "required"}}

CountComplete(fields, s) ==
  s.fixed = 0 \/ s.count = fields[s.fixed].array_size

Complete(fields, s) ==
  /\ CountComplete(fields, s)
  /\ {r \in Required(fields) : r < PB_MAX_REQUIRED_FIELDS} \subseteq s.seen

\* A turn of the loop over the fields: it goes on with s, or the message is at its end.
GoOn(r, s) == [more |-> TRUE, s |-> s] @@ r
Stop(r) == [more |-> FALSE, s |-> <<>>] @@ r

\* No field has this tag: an extension, or data to skip.
Skipped(r, m, s) == IF r.ok THEN GoOn(Ok(r.w, m), s) ELSE Stop(Fail(r.w, m))
Skip(w, wire_type, m, s) == Skipped(pb_skip_field(w, wire_type), m, s)
Tried(r, w, wire_type, m, s) ==
  CASE ~r.ok -> Stop(r)
    [] r.w.left # w.left -> GoOn(r, s)
    [] OTHER -> Skip(w, wire_type, m, s)
ExtensionSlot(r, m, fd) == Decoded([r EXCEPT !.d = [Get(m, fd) EXCEPT !.items = r.d]], m, fd)
Extension(fields) == {fd \in Range(fields) : fd.lt = "extension"}
\* The first tag of the extensions is looked up once.
RangeStart(tag, fields, s) ==
  CASE tag < s.ext -> s
    [] Extension(fields) = {} -> [s EXCEPT !.ext = PB_SIZE_MAX]
    [] OTHER -> [s EXCEPT !.ext = (CHOOSE fd \in Extension(fields) : TRUE).tag]
TryExtension(w, tag, wire_type, fd, m, s) ==
  Tried(ExtensionSlot(decode_extension(w, tag, wire_type, Get(m, fd).items), m, fd), w, wire_type, m, s)
UnknownField(w, tag, wire_type, fields, m, s) ==
  IF tag >= s.ext /\ \E fd \in Extension(fields) : tag >= fd.tag
  THEN TryExtension(w, tag, wire_type, CHOOSE fd \in Extension(fields) : TRUE, m, RangeStart(tag, fields, s))
  ELSE Skip(w, wire_type, m, RangeStart(tag, fields, s))

FixedCount(fd) == fd.ht = "repeated" /\ ~fd.sized /\ fd.at = "static"
Counted(r, i, fields, s) ==
  [s EXCEPT !.fixed = IF FixedCount(fields[i]) THEN i ELSE @,
            !.count = IF FixedCount(fields[i]) THEN r.d.f[fields[i].tag].cnt ELSE @,
            !.seen = IF fields[i].ht = "required" THEN @ \cup {RequiredIndex(fields, i)} ELSE @]
\* An array of fixed count is counted outside the structure, from one piece of it to the next.
Counter(i, fd, m, s) ==
  IF FixedCount(fd) THEN [m EXCEPT !.f[fd.tag].cnt = IF s.fixed = i THEN s.count ELSE 0] ELSE m
AfterField(r, i, fields, s) == IF r.ok THEN GoOn(r, Counted(r, i, fields, s)) ELSE Stop(r)
KnownField(w, i, wire_type, fields, m, s) ==
  IF FixedCount(fields[i]) /\ s.fixed # i /\ ~CountComplete(fields, s) THEN Stop(Fail(w, m))
  ELSE AfterField(decode_field(w, wire_type, fields[i], Counter(i, fields[i], m, s), fields), i, fields, s)

Known(fields, tag) == {i \in DOMAIN fields : fields[i].tag = tag /\ fields[i].lt # "extension"}
AtEnd(w, fields, m, s) == Stop([ok |-> Complete(fields, s), w |-> w, d |-> m])
FieldOf(key, fields, m, s) ==
  CASE ~key.ok -> Stop(Fail(key.w, m))
    [] key.d = 0 -> AtEnd(key.w, fields, m, s)
    [] Known(fields, key.d \div 8) = {} -> UnknownField(key.w, key.d \div 8, key.d % 8, fields, m, s)
    [] OTHER -> KnownField(key.w, Min(Known(fields, key.d \div 8)), key.d % 8, fields, m, s)
OneField(w, fields, m, s) == IF w.left = 0 THEN AtEnd(w, fields, m, s) ELSE FieldOf(varint(w), fields, m, s)

RECURSIVE DecodeFields(_, _)
DecodeFields(z, fields) == IF z.more THEN DecodeFields(OneField(z.w, fields, z.d, z.s), fields) ELSE z
NoneSeen == [seen |-> {}, ext |-> 0, fixed |-> 0, count |-> 0]

pb_decode_noinit(w, fields, m) == DecodeFields(GoOn(Ok(w, m), NoneSeen), fields)

DelimitedIn(sub, fields, m) == IF sub.ok THEN Closed(pb_decode(sub.w, fields, m), sub.d) ELSE Fail(sub.w, m)
pb_decode_delimited(w, fields, m) == DelimitedIn(pb_make_string_substream(w), fields, m)
-----------------------------------------------------------------------------
(* Encoding: [ok, out].  A submessage is encoded twice, first for its size; *)
(* pass is "size" or "write" and only a callback can tell the difference.   *)
VarintBytes(n) == IF n < 128 THEN <<n>> ELSE <<128 + (n % 128), n \div 128>>
Out(bytes) == [ok |-> TRUE, out |-> bytes]
Error == [ok |-> FALSE, out |-> <<>>]
Cat(r, t) == [ok |-> r.ok /\ t.ok, out |-> r.out \o t.out]
Tag(fd, wire_type) == Out(VarintBytes(fd.tag * 8 + wire_type))
WireType(fd) == CASE fd.lt = "varint" -> 0 [] fd.lt = "fixed32" -> 5 [] OTHER -> 2
pb_encode_string(bytes) == Out(VarintBytes(Len(bytes)) \o bytes)

RECURSIVE pb_encode(_, _, _)

Delimited(sized, r) == Cat(Out(VarintBytes(Len(sized.out))), r)
SameSize(sized, written) == IF Len(written.out) # Len(sized.out) THEN Error ELSE Delimited(sized, written)
AfterSizing(sized, fields, m, pass) ==
  CASE ~sized.ok -> Error
    [] pass = "size" -> Delimited(sized, sized)
    [] OTHER -> SameSize(sized, pb_encode(fields, m, "write"))
pb_encode_submessage(fields, m, pass) == AfterSizing(pb_encode(fields, m, "size"), fields, m, pass)

\* A string ends at its first NUL.
pb_enc_string(bytes) ==
  pb_encode_string(SubSeq(bytes, 1, Min({i - 1 : i \in {j \in DOMAIN bytes : bytes[j] = 0}}
                                        \cup {Len(bytes)})))
BytesOf(fd, item) == IF Text(fd) /\ fd.at = "pointer" THEN item.v ELSE item
EncodeItem(fd, item, pass) ==
  CASE fd.lt = "varint" -> Out(VarintBytes(item))
    [] fd.lt = "fixed32" -> Out(<<item % 256, (item \div 256) % 256, (item \div 65536) % 256, 0>>)
    [] fd.lt = "string" -> pb_enc_string(BytesOf(fd, item))
    [] fd.lt \in {"bytes", "fixed_length_bytes"} -> pb_encode_string(BytesOf(fd, item))
    [] fd.lt = "submessage" -> pb_encode_submessage(fd.sub, item, pass)

\* Each with its tag, unless they are packed.
EncodeItems(fd, items, pass, tagged) ==
  FoldLeft(LAMBDA r, item : Cat(r, Cat(IF tagged THEN Tag(fd, WireType(fd)) ELSE Out(<<>>), EncodeItem(fd, item, pass))),
           Out(<<>>), items)

PackedItems(fd, r) == Cat(Tag(fd, 2), Delimited(r, r))
\* Arrays of numbers are packed.
encode_array(fd, items, count, pass) ==
  CASE count = 0 -> Out(<<>>)
    [] fd.at # "pointer" /\ count > fd.array_size -> Error
    [] Packable(fd) -> PackedItems(fd, EncodeItems(fd, SubSeq(items, 1, count), pass, FALSE))
    [] OTHER -> EncodeItems(fd, SubSeq(items, 1, count), pass, TRUE)

Null(fd, slot) == fd.at = "pointer" /\ (IF Text(fd) THEN slot.items[1].id = 0 ELSE slot.id = 0)

RECURSIVE pb_check_proto3_default_value(_, _)
\* For the members of a proto3 submessage: is there nothing to write?
pb_check_proto3_default_value(fd, m) ==
  LET slot == Get(m, fd)
  IN CASE fd.ht = "required" -> FALSE
       [] fd.ht = "repeated" -> IF fd.sized THEN slot.cnt = 0 ELSE FALSE
       [] fd.ht = "oneof" -> m.which = 0
       [] fd.at = "callback" -> ~fd.sized
       [] fd.at = "pointer" -> Null(fd, slot)
       [] fd.sized -> ~slot.has
       [] fd.lt = "submessage" ->
            \A i \in DOMAIN fd.sub : pb_check_proto3_default_value(fd.sub[i], slot.items[1])
       [] fd.lt = "fixed_length_bytes" -> fd.data_size = 0
       [] fd.lt = "string" -> slot.items[1] = <<>> \/ slot.items[1][1] = 0
       [] fd.lt = "bytes" -> slot.items[1] = <<>>
       [] OTHER -> slot.items[1] = 0

\* Is there a value to write; a required one is not looked for.
Present(fd, m, slot) ==
  CASE fd.ht = "required" -> TRUE
    [] fd.ht = "oneof" -> m.which = fd.tag
    [] fd.at = "pointer" -> ~Null(fd, slot)
    [] fd.sized -> slot.has
    [] OTHER -> ~pb_check_proto3_default_value(fd, m)

EncodeSlot(fd, m, slot, pass) ==
  CASE fd.ht = "repeated" -> encode_array(fd, slot.items, IF fd.sized THEN slot.cnt ELSE fd.array_size, pass)
    [] fd.ht = "required" /\ Null(fd, slot) -> Error
    [] OTHER -> IF Present(fd, m, slot) THEN EncodeItems(fd, slot.items, pass, TRUE) ELSE Out(<<>>)
encode_basic_field(fd, m, pass) == EncodeSlot(fd, m, Get(m, fd), pass)

encode_field(fd, m, pass) ==
  CASE fd.lt = "extension" ->
         FoldLeft(LAMBDA r, x : Cat(r, encode_basic_field(x.fd, x.m, pass)), Out(<<>>), Get(m, fd).items)
    [] fd.at = "callback" -> IF fd.sub = <<>> THEN Out(<<>>) ELSE Out(fd.sub[IF pass = "size" THEN 1 ELSE 2])
    [] OTHER -> encode_basic_field(fd, m, pass)
pb_encode(fields, m, pass) ==
  FoldLeft(LAMBDA r, fd : Cat(r, encode_field(fd, m, pass)), Out(<<>>), fields)
-----------------------------------------------------------------------------
(* The calls of a program on one structure. *)
Stream(bytes, grant) ==
  [bytes |-> bytes, pos |-> 1, left |-> Len(bytes), live |-> heap.live,
   next |-> heap.next, bad |-> heap.bad, mem |-> grant]

Init ==
  /\ input = <<>> /\ chunks = 0 /\ calls = 0
  /\ msg = pb_message_set_to_defaults(Fields, <<>>)
  /\ heap = [live |-> {}, next |-> 1, bad |-> FALSE]
  /\ state = "fresh"
  /\ left = [pos |-> 1, left |-> 0]

Arrive ==
  /\ chunks < MaxChunks /\ calls < MaxCalls
  /\ \E c \in Chunks : input' = input \o c
  /\ chunks' = chunks + 1
  /\ UNCHANGED <<msg, heap, state, calls, left>>

Returns(r, failed) ==
  /\ msg' = r.d
  /\ heap' = [live |-> r.w.live, next |-> r.w.next, bad |-> r.w.bad]
  /\ state' = IF r.ok THEN "ok" ELSE failed
  /\ left' = [pos |-> r.w.pos, left |-> r.w.left]
  /\ calls' = calls + 1
  /\ input' = <<>> /\ chunks' = 0

Decode ==
  /\ calls < MaxCalls /\ state \in {"fresh", "released"}
  /\ \E grant \in Grants : Returns(pb_decode(Stream(input, grant), Fields, msg), "released")

DecodeDelimited ==
  /\ calls < MaxCalls /\ state \in {"fresh", "released"}
  /\ \E grant \in Grants : Returns(pb_decode_delimited(Stream(input, grant), Fields, msg), "released")

\* Merging a second message in: on an error the caller has to release.
Merge ==
  /\ calls < MaxCalls /\ state = "ok"
  /\ \E grant \in Grants : Returns(pb_decode_noinit(Stream(input, grant), Fields, msg), "failed")

Release ==
  /\ state \in {"ok", "failed"}
  /\ LET Released(r) == msg' = r.d /\ heap' = [heap EXCEPT !.live = r.w.live, !.bad = r.w.bad]
     IN Released(pb_release(Stream(<<>>, 0), Fields, msg))
  /\ state' = "released"
  /\ UNCHANGED <<input, chunks, calls, left>>

Next == Arrive \/ Decode \/ DecodeDelimited \/ Merge \/ Release
Spec == Init /\ [][Next]_vars
-----------------------------------------------------------------------------
RECURSIVE Owned(_, _)
\* Every allocation a structure points to, one entry for each pointer.
Owned(fields, m) ==
  LET ofSlot(fd) ==
        LET slot == Get(m, fd)
            items == CASE fd.lt = "submessage" -> [i \in DOMAIN slot.items |-> Owned(fd.sub, slot.items[i])]
                       [] Text(fd) /\ fd.at = "pointer" -> [i \in DOMAIN slot.items |-> <<slot.items[i].id>>]
                       [] fd.lt = "extension" -> [i \in DOMAIN slot.items |-> Owned(<<slot.items[i].fd>>, slot.items[i].m)]
                       [] OTHER -> <<>>
        IN IF fd.ht = "oneof" /\ m.which # fd.tag THEN <<>>
           ELSE <<slot.id>> \o FlattenSeq(items)
  IN SelectSeq(FlattenSeq([i \in DOMAIN fields |-> ofSlot(fields[i])]), LAMBDA id : id # 0)

TypeOK ==
  /\ state \in {"fresh", "ok", "failed", "released"}
  /\ heap.live \subseteq 1..(heap.next - 1)
  /\ chunks \in 0..MaxChunks /\ calls \in 0..MaxCalls
  /\ left.pos \in Nat /\ left.left \in Nat
  /\ \A tag \in DOMAIN msg.f : msg.f[tag].cnt \in 0..PB_SIZE_MAX

\* Every allocation has one owner: what pb_realloc gave out and nobody freed is
\* pointed to by the structure, by one pointer, and pb_free was never given
\* anything else, after any sequence of decoding, merging and releasing, of
\* good and of broken input, with allocations that fail anywhere.
Ownership ==
  /\ ~heap.bad
  /\ ToSet(Owned(Fields, msg)) = heap.live
  /\ IsInjective(Owned(Fields, msg))

\* pb_decode.h: "If pb_decode() returns with an error, the message is already
\* released", and pb_release frees the rest.
ReleasedAll == state = "released" => heap.live = {} /\ ~heap.bad

\* Substreams are accounted for: after a call that succeeded, what is left of
\* the stream starts at its position (pb_make_string_substream and
\* pb_close_string_substream, around every nested message and packed array).
StreamInStep ==
  calls' # calls /\ state' = "ok" => left'.pos - 1 + left'.left = Len(input)

ReadBack(out) == pb_decode(Stream(out.out, 20), Fields, <<>>)
SameBytes(out, back) == back.ok /\ pb_encode(Fields, back.d, "write").out = out.out
ReadsSame(out) == out.ok /\ SameBytes(out, ReadBack(out))
\* What is decoded can be encoded: an accepted message has its required fields
\* and its counts within bounds, down to the innermost, and decoding the
\* encoder's bytes gives a message that is encoded in the same way.
EncodesBack == state = "ok" => ReadsSame(pb_encode(Fields, msg, "write"))

Whole(back) == back.ok /\ back.w.left = 0
ReadsWhole(out) == out.ok => Whole(ReadBack(out))
\* The length of a submessage is the length of what follows: whatever the
\* encoder accepts, with a callback that writes something else the second time
\* too, is read back to its last byte.
LengthsHonest == state = "ok" => ReadsWhole(pb_encode(Fields, msg, "write"))

Second(one, c) == [Stream(c, 20) EXCEPT !.live = one.w.live, !.next = one.w.next]
SameMessage(merged, both) ==
  merged.ok /\ Whole(both) => pb_encode(Fields, merged.d, "write") = pb_encode(Fields, both.d, "write")
MergedSame(one) ==
  one.ok => \A c \in Chunks : SameMessage(pb_decode_noinit(Second(one, c), Fields, one.d),
                                         pb_decode(Stream(input \o c, 20), Fields, <<>>))
\* pb_decode.h on pb_decode_noinit: 'This can also be used for "merging" two
\* messages'.  Decoding two messages one after the other into a structure is
\* decoding them joined, as the format wants it.
MergesAsJoined == state = "fresh" => MergedSame(pb_decode(Stream(input, 20), Fields, <<>>))
=============================================================================
