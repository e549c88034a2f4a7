------------------------------- MODULE PbWire -------------------------------
(***************************************************************************)
(* The numbers of nanopb's wire format: how the encoder writes a varint, a *)
(* zigzag varint or a fixed width number, and what the four readers of a   *)
(* varint make of a stream of bytes: pb_decode_varint (64 bits),           *)
(* pb_decode_varint32 (32 bits: bools, lengths and tags), pb_skip_varint   *)
(* (unknown fields) and read_raw_value (values handed to a callback).      *)
(*                                                                         *)
(* A number is the set of its bits that are 1, so that a shift, an "or"    *)
(* and a cast keep the widths the code has.  The four readers see the same *)
(* bytes, one byte a step; the bytes are those the encoder wrote for a     *)
(* field, or any bytes at all.                                             *)
(***************************************************************************)
EXTENDS Integers, Sequences, SequencesExt

CONSTANTS
  FieldValues,   \* fields to encode: [ltype, data_size (in bits), v]
  AnyBytes,      \* the bytes of a stream no encoder wrote
  MaxBytes       \* bound on the length of such a stream

BytesAreBytes == AnyBytes \subseteq SUBSET (0..7) /\ MaxBytes \in Nat
ValuesFit ==
  \A f \in FieldValues : /\ f.data_size \in {8, 16, 32, 64}
                         /\ f.v \subseteq 0..(f.data_size - 1)

VARIABLES
  wire,     \* the bytes still to come; Free when any byte may come
  field,    \* the field they encode, or NoField
  read,     \* how many bytes have been delivered
  ended,    \* the stream is at its end
  v64,      \* pb_decode_varint
  v32,      \* pb_decode_varint32
  skip,     \* pb_skip_varint
  raw       \* read_raw_value
vars == <<wire, field, read, ended, v64, v32, skip, raw>>

NoField == [ltype |-> "none"]
Free == <<{}>>
-----------------------------------------------------------------------------
(* Numbers as sets of bits. *)

Shl(x, k, width) == {b + k : b \in x} \cap 0..(width - 1)

Shr(x, k) == {b - k : b \in {c \in x : c >= k}}
Not(x, width) == 0..(width - 1) \ x
Low(x, width) == x \cap 0..(width - 1)
SignExtend(x, width) == IF width - 1 \in x THEN x \cup width..63 ELSE x
Low7(byte) == byte \cap 0..6
More(byte) == 7 \in byte

\* The number of groups of w bits that hold every 1 of x; one for 0.
Groups(x, w) == CHOOSE n \in 1..64 : /\ x \subseteq 0..(n * w - 1)
                                     /\ \A m \in 1..(n - 1) : ~(x \subseteq 0..(m * w - 1))
-----------------------------------------------------------------------------
(* Encoding. *)
pb_encode_varint(x) ==
  LET n == Groups(x, 7)
  IN [i \in 1..n |-> Low7(Shr(x, 7 * (i - 1))) \cup (IF i < n THEN {7} ELSE {})]

pb_encode_svarint(x) ==
  pb_encode_varint(IF 63 \in x THEN Not(Shl(x, 1, 64), 64) ELSE Shl(x, 1, 64))

pb_encode_fixed(x, width) ==
  [i \in 1..(width \div 8) |-> Low(Shr(x, 8 * (i - 1)), 8)]

\* A negative number of any width is written as a negative 64 bit number.
pb_enc_varint(x, width) == pb_encode_varint(SignExtend(x, width))

pb_enc_uvarint(x, width) == pb_encode_varint(x)
pb_enc_svarint(x, width) == pb_encode_svarint(SignExtend(x, width))

Encoded(f) ==
  CASE f.ltype = "bool"    -> pb_encode_varint(f.v)
    [] f.ltype = "varint"  -> pb_enc_varint(f.v, f.data_size)
    [] f.ltype = "uvarint" -> pb_enc_uvarint(f.v, f.data_size)
    [] f.ltype = "svarint" -> pb_enc_svarint(f.v, f.data_size)
    [] f.ltype = "fixed"   -> pb_encode_fixed(f.v, f.data_size)
-----------------------------------------------------------------------------
(* Decoding, one byte at a time.  A reader is at "more" until it returns. *)
Reader == [st |-> "more", val |-> {}, bitpos |-> 0, n |-> 0]

pb_decode_varint(d, byte) ==
  LET val == d.val \cup Shl(Low7(byte), d.bitpos, 64)
      bitpos == d.bitpos + 7
  IN [st |-> CASE ~More(byte)   -> "ok"
               [] bitpos >= 64  -> "overflow"
               [] OTHER         -> "more",
      val |-> val, bitpos |-> bitpos, n |-> d.n + 1]

\* What fits in no 32 bits may only repeat the sign, and bitpos is 8 bits wide.
pb_decode_varint32(d, byte) ==
  LET bitpos == (d.bitpos + 7) % 256
      sign_extension == IF d.bitpos < 63 THEN 0..7 ELSE {0}
      bad == \/ /\ d.bitpos >= 32
                /\ Low7(byte) # {}
                /\ 31 \notin d.val \/ byte # sign_extension
             \/ ~More(byte) /\ bitpos = 35 /\ byte \cap 4..6 # {}
  IN [st |-> CASE bad -> "overflow" [] More(byte) -> "more" [] OTHER -> "ok",
      val |-> IF d.bitpos >= 32 THEN d.val
              ELSE d.val \cup Shl(Low7(byte), d.bitpos, 32),
      bitpos |-> bitpos, n |-> d.n + 1]

pb_skip_varint(d, byte) ==
  [d EXCEPT !.st = IF More(byte) THEN "more" ELSE "ok", !.n = @ + 1]

\* The buffer for a callback's value has 10 bytes.
read_raw_value(d, byte) ==
  [d EXCEPT !.st = CASE ~More(byte)  -> "ok"
                     [] d.n + 1 = 10 -> "overflow"
                     [] OTHER        -> "more",
            !.n = @ + 1]
-----------------------------------------------------------------------------
(* What the field decoders make of the varint: a cast to the field's width *)
(* and an error when the cast changed the number.                          *)
Cast(x, width, signed) == IF signed THEN SignExtend(Low(x, width), width) ELSE Low(x, width)
Clamped(x, width, signed) ==
  [ok |-> Cast(x, width, signed) = x, v |-> Low(x, width)]

pb_decode_svarint(x) == IF 0 \in x THEN Not(Shr(x, 1), 64) ELSE Shr(x, 1)

\* Up to 32 bits the number is cast to int32_t first.
pb_dec_varint(x, width) ==
  Clamped(IF width = 64 THEN x ELSE Cast(x, 32, TRUE), width, TRUE)
pb_dec_uvarint(x, width) == Clamped(x, width, FALSE)
pb_dec_svarint(x, width) == Clamped(pb_decode_svarint(x), width, TRUE)

Decoded(ltype, width, x) ==
  CASE ltype = "varint"  -> pb_dec_varint(x, width)
    [] ltype = "uvarint" -> pb_dec_uvarint(x, width)
    [] ltype = "svarint" -> pb_dec_svarint(x, width)

\* pb_dec_bool reads 32 bits and keeps whether any is set.
pb_dec_bool(x) == IF x # {} THEN {0} ELSE {}
pb_decode_fixed(bytes) ==
  UNION {Shl(bytes[i], 8 * (i - 1), 64) : i \in DOMAIN bytes}
-----------------------------------------------------------------------------
Init ==
  /\ \/ \E f \in FieldValues : field = f /\ wire = Encoded(f)
     \/ field = NoField /\ wire = Free
  /\ read = 0 /\ ended = FALSE
  /\ v64 = Reader /\ v32 = Reader /\ skip = Reader /\ raw = Reader

Step(d, Decode(_, _), byte) == IF d.st = "more" THEN Decode(d, byte) ELSE d

Deliver(byte) ==
  /\ ~ended
  /\ \E d \in {v64, v32, skip, raw} : d.st = "more"
  /\ v64' = Step(v64, pb_decode_varint, byte)
  /\ v32' = Step(v32, pb_decode_varint32, byte)
  /\ skip' = Step(skip, pb_skip_varint, byte)
  /\ raw' = Step(raw, read_raw_value, byte)
  /\ read' = read + 1
  /\ UNCHANGED <<field, ended>>

NextEncodedByte ==
  /\ field # NoField
  /\ wire # <<>>
  /\ Deliver(Head(wire))
  /\ wire' = Tail(wire)

AnyByte ==
  /\ field = NoField
  /\ read < MaxBytes
  /\ \E byte \in AnyBytes : Deliver(byte)
  /\ UNCHANGED wire

\* pb_readbyte finds bytes_left at 0: every reader that wants more fails.
EndOfStream ==
  /\ ~ended
  /\ ended' = TRUE
  /\ LET cut(d) == IF d.st = "more" THEN [d EXCEPT !.st = "eof"] ELSE d
     IN /\ v64' = cut(v64) /\ v32' = cut(v32) /\ skip' = cut(skip) /\ raw' = cut(raw)
  /\ UNCHANGED <<wire, field, read>>

Next == NextEncodedByte \/ AnyByte \/ EndOfStream
Spec == Init /\ [][Next]_vars
-----------------------------------------------------------------------------
TypeOK ==
  /\ read \in 0..(MaxBytes + 10) /\ ended \in BOOLEAN
  /\ \A d \in {v64, v32, skip, raw} :
        /\ d.st \in {"more", "ok", "overflow", "eof"}
        /\ d.val \subseteq 0..63 /\ d.bitpos \in 0..255 /\ d.n \in 0..read

\* A number field comes back as it was written: the varint decoders return the
\* value the encoder of the same field type was given, from exactly the bytes
\* it wrote (pb_enc_varint and pb_dec_varint, the unsigned and zigzag pairs).
NumbersSurvive ==
  field # NoField /\ wire = <<>> /\ ~ended =>
    CASE field.ltype = "fixed" -> pb_decode_fixed(Encoded(field)) = field.v
      [] field.ltype = "bool"  -> v32.st = "ok" /\ v32.n = read /\ pb_dec_bool(v32.val) = field.v
      [] OTHER -> /\ v64.st = "ok" /\ v64.n = read
                  /\ Decoded(field.ltype, field.data_size, v64.val) = [ok |-> TRUE, v |-> field.v]

\* A field is delimited in the same way whoever reads it: whatever
\* pb_decode_varint accepts, pb_skip_varint passes over and read_raw_value
\* copies whole, so that a field skipped as unknown, or handed to a callback,
\* leaves the stream where decoding it would have left it.
SameExtent ==
  v64.st = "ok" => /\ skip.st = "ok" /\ skip.n = v64.n
                   /\ raw.st = "ok" /\ raw.n = v64.n

\* The narrow reader agrees with the wide one: when both accept the same bytes
\* pb_decode_varint32 returns the low 32 bits of pb_decode_varint's value from
\* as many bytes, and it accepts all the encoder writes for a number that fits,
\* the ten bytes of a negative one included.
NarrowAgrees ==
  v64.st = "ok" =>
    /\ v32.st = "ok" => v32.n = v64.n /\ v32.val = Low(v64.val, 32)
    /\ /\ field # NoField /\ field.ltype # "fixed"
       /\ v64.val \in {Low(v64.val, 32), SignExtend(Low(v64.val, 32), 32)}
       => v32.st = "ok"

\* Numbers are narrowed with a check: a decoder of a field of fewer bits
\* accepts a varint only if the number it stores is the number that came in.
NothingCutOff ==
  v64.st = "ok" =>
    \A width \in {8, 16, 32, 64} :
      LET s == Decoded("svarint", width, v64.val)
          u == Decoded("uvarint", width, v64.val)
      IN /\ s.ok => SignExtend(s.v, width) = pb_decode_svarint(v64.val)
         /\ u.ok => u.v = v64.val

\* pb_decode.c's "varint overflow": what pb_decode_varint32 accepts is a number
\* of 32 bits, or the sign extension of one.
NarrowExact ==
  v32.st = "ok" /\ v64.st = "ok" =>
    v64.val \in {Low(v64.val, 32), SignExtend(Low(v64.val, 32), 32)}
=============================================================================
