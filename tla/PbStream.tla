------------------------------ MODULE PbStream ------------------------------
(***************************************************************************)
(* nanopb's output streams (pb_encode.c): messages are written to a buffer  *)
(* or to a callback that may fail, one after the other, through a substream *)
(* for each submessage; or they are only measured.  A message is a sequence *)
(* of items: bytes, a bool as it is in memory, or a submessage.             *)
(***************************************************************************)
EXTENDS Integers, Sequences, SequencesExt

CONSTANTS
  Messages,     \* bound: what is encoded
  Sizes,        \* bound: sizes of the buffer
  MaxCalls,     \* bound
  Never         \* more writes than there are: the callback does not fail

VARIABLES
  stream,       \* the pb_ostream_t, with the buffer behind it
  ok,           \* what the last call returned
  calls,        \* history: <<function, message>> of each call
  size          \* what pb_get_encoded_size gave for the message of the last call
vars == <<stream, ok, calls, size>>

\* callback is FALSE for a stream that only measures; state is the number of bytes in
\* front of the next one; after that many writes the callback fails.
Stream(callback, max_size, buf, state, left) ==
  [callback |-> callback, max_size |-> max_size, bytes_written |-> 0, buf |-> buf, state |-> state, left |-> left, ok |-> TRUE]
pb_ostream_from_buffer(bufsize, left) == Stream(TRUE, bufsize, <<>>, 0, left)
PB_OSTREAM_SIZING == Stream(FALSE, 0, <<>>, 0, Never)
Error(s) == [s EXCEPT !.ok = FALSE]

\* The bytes replace what the buffer has there.
buf_write(s, bytes) ==
  LET upto == s.state + Len(bytes)
  IN [s EXCEPT !.buf = SubSeq(@, 1, s.state) \o bytes \o SubSeq(@, upto + 1, Len(@)), !.state = upto, !.left = @ - 1]

Full(s, count) == s.bytes_written + count > s.max_size

Calling(s, bytes) == bytes # <<>> /\ s.callback
Written(s, bytes) == [(IF Calling(s, bytes) THEN buf_write(s, bytes) ELSE s) EXCEPT !.bytes_written = @ + Len(bytes)]
pb_write(s, bytes) ==
  IF ~s.ok \/ (Calling(s, bytes) /\ (Full(s, Len(bytes)) \/ s.left = 0)) THEN Error(s) ELSE Written(s, bytes)

\* A length; those of the bound fit one byte.
pb_encode_varint(s, n) == pb_write(s, <<n>>)

safe_read_bool(byte) == IF byte # 0 THEN 1 ELSE 0

pb_enc_bool(s, byte) == pb_encode_varint(s, safe_read_bool(byte))

\* What the substream has written counts as the stream's.
Resumed(s, sub) == [s EXCEPT !.bytes_written = @ + sub.bytes_written, !.buf = sub.buf, !.state = sub.state, !.left = sub.left]

\* Just sizing.
Measured(s, n) == [s EXCEPT !.bytes_written = @ + n]

RECURSIVE pb_encode(_, _)

Whole(t, sub, n) == IF sub.bytes_written # n \/ ~sub.ok THEN Error(Resumed(t, sub)) ELSE Resumed(t, sub)
Prefixed(t, n, m) ==
  CASE ~t.ok -> t
    [] ~t.callback -> Measured(t, n)
    [] Full(t, n) -> Error(t)
    [] OTHER -> Whole(t, pb_encode(Stream(TRUE, n, t.buf, t.state, t.left), m), n)
Sized(s, n, m) == Prefixed(pb_encode_varint(s, n), n, m)

\* Measured first, then written through a substream of that size.
pb_encode_submessage(s, m) == Sized(s, pb_encode(PB_OSTREAM_SIZING, m).bytes_written, m)

EncodeItem(s, item) ==
  CASE ~s.ok -> s
    [] item[1] = "bytes" -> pb_write(s, item[2])
    [] item[1] = "bool" -> pb_enc_bool(s, item[2])
    [] item[1] = "submessage" -> pb_encode_submessage(s, item[2])
pb_encode(s, m) == FoldLeft(EncodeItem, s, m)

pb_encode_delimited(s, m) == pb_encode_submessage(s, m)

Terminated(s) == pb_write(s, <<0>>)

pb_encode_nullterminated(s, m) == Terminated(pb_encode(s, m))
pb_get_encoded_size(m) == pb_encode(PB_OSTREAM_SIZING, m).bytes_written
-----------------------------------------------------------------------------
Init ==
  /\ \E n \in Sizes, left \in (0..3) \union {Never} : stream = pb_ostream_from_buffer(n, left)
  /\ ok = TRUE /\ calls = <<>> /\ size = 0

\* A caller gives up when a call fails.
Call(name, m, after) ==
  /\ ok /\ Len(calls) < MaxCalls
  /\ stream' = after /\ ok' = after.ok
  /\ calls' = Append(calls, <<name, m>>) /\ size' = pb_get_encoded_size(m)

Next ==
  \E m \in Messages :
    \/ Call("encode", m, pb_encode(stream, m))
    \/ Call("delimited", m, pb_encode_delimited(stream, m))
    \/ Call("nullterminated", m, pb_encode_nullterminated(stream, m))
Spec == Init /\ [][Next]_vars
-----------------------------------------------------------------------------
\* What a message is on the wire.
RECURSIVE Wire(_)
Wire(m) ==
  LET Item(item) ==
        CASE item[1] = "bytes" -> item[2]
          [] item[1] = "bool" -> <<IF item[2] = 0 THEN 0 ELSE 1>>
          [] item[1] = "submessage" -> <<Len(Wire(item[2]))>> \o Wire(item[2])
  IN FlattenSeq([i \in DOMAIN m |-> Item(m[i])])
WireOf(call) ==
  LET w == Wire(call[2])
  IN CASE call[1] = "encode" -> w
       [] call[1] = "delimited" -> <<Len(w)>> \o w
       [] call[1] = "nullterminated" -> Append(w, 0)
AllWire == FlattenSeq([i \in DOMAIN calls |-> WireOf(calls[i])])

\* The buffer has the messages of the calls one after the other, whole if all
\* succeeded; a call that failed, wherever it did, has left a beginning of its
\* message behind and nothing else.
InOrder == /\ IsPrefix(stream.buf, AllWire)
           /\ ok => stream.buf = AllWire

\* The stream's numbers say what is in the buffer, which is not overrun, with
\* submessages and with failures inside them.
Accounted == Len(stream.buf) = stream.bytes_written /\ stream.state = stream.bytes_written
             /\ stream.bytes_written <= stream.max_size

\* The size that was announced for a message is the one it has.
SizeExact == calls # <<>> => size = Len(Wire(calls[Len(calls)][2]))

\* A buffer of the announced size is enough: a call fails only if the room is not
\* there or the callback has failed.
RoomEnough == ~ok => stream.left = 0 \/ Len(AllWire) > stream.max_size
=============================================================================
