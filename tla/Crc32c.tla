------------------------------- MODULE Crc32c -------------------------------
(***************************************************************************)
(* crc32c::Extend: the checksum of leveldb's logs and tables, computed in   *)
(* four strides over aligned swaths of 16 bytes, and checked against the    *)
(* division of the message by the polynomial, one bit at a time.            *)
(*                                                                         *)
(* A word is the set of the positions of its one bits, so that exclusive or *)
(* is symmetric difference.  The message is one byte among zeros: the code  *)
(* is linear in the message, and these messages span the others.            *)
(***************************************************************************)
EXTENDS Integers, Sequences, FiniteSets, SequencesExt, FiniteSetsExt

CONSTANTS
  Lengths,    \* bound: of the first part of the message
  Rests,      \* bound: of its second part
  Bytes,      \* bound: values of its byte that is not zero
  Aligns      \* bound: addresses of the parts, modulo 4

VARIABLES
  data,       \* the part at hand
  seen,       \* the parts before it
  align,      \* its address modulo 4
  p,          \* bytes of it that are processed
  l,          \* the checksum, without its final complement
  strides,    \* crc0 to crc3, or <<>>
  pc
vars == <<data, seen, align, p, l, strides, pc>>

Xor(a, b) == SymDiff(a, b)
Shr(w, n) == {b - n : b \in {b \in w : b >= n}}
Shl(w, n) == {b + n : b \in {b \in w : b + n < 32}}
Byte(w, i) == {b \in Shr(w, 8 * i) : b < 8}

\* The reflected Castagnoli polynomial 0x82f63b78.
Poly == {3, 4, 5, 6, 8, 9, 11, 12, 13, 17, 18, 20, 21, 22, 23, 25, 31}
ShiftOne(w) == IF 0 \in w THEN Xor(Shr(w, 1), Poly) ELSE Shr(w, 1)
Advance(w, n) == FoldLeft(LAMBDA x, i : ShiftOne(x), w, [i \in 1..n |-> i])

\* The code's tables at the indices 1, 2, 4 ... 128: what the bit of that index
\* becomes when its word is advanced by 8 bits, and by the 128 bits of a swath
\* from each of four places in the word.  Every other entry is the exclusive or of
\* those of its bits.
kByteExtensionTable ==
  <<{0, 1, 8, 9, 15, 16, 17, 19, 21, 22, 25, 28, 29, 30, 31},
    {0, 1, 2, 4, 5, 6, 7, 12, 13, 14, 16, 17, 19, 20, 21, 24, 29, 30, 31},
    {0, 1, 2, 3, 4, 8, 9, 10, 12, 15, 17, 19, 20, 23, 24, 25, 26, 30, 31},
    {0, 1, 2, 3, 6, 7, 11, 12, 14, 16, 19, 20, 22, 23, 25, 27, 31},
    {0, 1, 2, 3, 5, 6, 8, 9, 10, 14, 15, 17, 18, 19, 20, 22, 28},
    {1, 2, 3, 4, 6, 7, 9, 10, 11, 15, 16, 18, 19, 20, 21, 23, 29},
    {2, 3, 4, 5, 7, 8, 10, 11, 12, 16, 17, 19, 20, 21, 22, 24, 30},
    {3, 4, 5, 6, 8, 9, 11, 12, 13, 17, 18, 20, 21, 22, 23, 25, 31}>>
kStrideExtensionTable0 ==
  <<{0, 2, 5, 6, 11, 12, 13, 17, 20, 22, 23, 28, 29},
    {1, 3, 6, 7, 12, 13, 14, 18, 21, 23, 24, 29, 30},
    {2, 4, 7, 8, 13, 14, 15, 19, 22, 24, 25, 30, 31},
    {0, 3, 4, 6, 7, 8, 10, 12, 13, 15, 16, 18, 19, 20, 21, 22, 24, 25, 31},
    {0, 1, 6, 8, 10, 11, 12, 16, 17, 18, 20, 24, 25},
    {1, 2, 7, 9, 11, 12, 13, 17, 18, 19, 21, 25, 26},
    {2, 3, 8, 10, 12, 13, 14, 18, 19, 20, 22, 26, 27},
    {3, 4, 9, 11, 13, 14, 15, 19, 20, 21, 23, 27, 28}>>
kStrideExtensionTable1 ==
  <<{1, 2, 6, 8, 10, 12, 14, 16, 17, 18, 26, 28, 30},
    {2, 3, 7, 9, 11, 13, 15, 17, 18, 19, 27, 29, 31},
    {0, 3, 5, 6, 7, 8, 9, 13, 16, 20, 21, 22, 23, 24, 26, 28, 30},
    {1, 4, 6, 7, 8, 9, 10, 14, 17, 21, 22, 23, 24, 25, 27, 29, 31},
    {0, 2, 4, 6, 8, 11, 12, 13, 14, 15, 19, 21, 25, 28, 30},
    {1, 3, 5, 7, 9, 12, 13, 14, 15, 16, 20, 22, 26, 29, 31},
    {0, 2, 5, 7, 8, 9, 12, 15, 16, 17, 18, 19, 22, 24, 26, 27, 30},
    {1, 3, 6, 8, 9, 10, 13, 16, 17, 18, 19, 20, 23, 25, 27, 28, 31}>>
kStrideExtensionTable2 ==
  <<{0, 8, 10, 11, 12, 13, 14, 15, 17, 18, 19, 23, 24, 25, 26, 29, 30},
    {1, 9, 11, 12, 13, 14, 15, 16, 18, 19, 20, 24, 25, 26, 27, 30, 31},
    {0, 2, 4, 5, 6, 7, 9, 15, 16, 17, 18, 20, 22, 23, 24, 25, 27, 28, 31},
    {0, 1, 3, 4, 8, 9, 12, 13, 14, 16, 17, 22, 25, 28, 29},
    {1, 2, 4, 5, 9, 10, 13, 14, 15, 17, 18, 23, 26, 29, 30},
    {2, 3, 5, 6, 10, 11, 14, 15, 16, 18, 19, 24, 27, 30, 31},
    {0, 3, 5, 9, 10, 11, 13, 14, 15, 16, 17, 18, 20, 21, 22, 23, 24, 25, 26, 28, 31},
    {0, 1, 5, 7, 9, 11, 13, 15, 16, 17, 25, 27, 29}>>
kStrideExtensionTable3 ==
  <<{1, 2, 3, 4, 5, 6, 7, 8, 10, 11, 18, 19, 25, 28, 29, 30, 31},
    {0, 2, 3, 8, 10, 11, 13, 14, 18, 20, 21, 22, 23, 24, 29, 30, 31},
    {0, 1, 3, 5, 6, 7, 10, 11, 13, 15, 18, 25, 26, 30, 31},
    {0, 1, 2, 5, 8, 9, 10, 11, 13, 16, 18, 21, 22, 23, 24, 27, 31},
    {0, 1, 2, 3, 4, 5, 7, 11, 13, 17, 18, 21, 25, 26, 28},
    {1, 2, 3, 4, 5, 6, 8, 12, 14, 18, 19, 22, 26, 27, 29},
    {2, 3, 4, 5, 6, 7, 9, 13, 15, 19, 20, 23, 27, 28, 30},
    {3, 4, 5, 6, 7, 8, 10, 14, 16, 20, 21, 24, 28, 29, 31}>>
At(table, c) == FoldSet(LAMBDA b, w : Xor(table[b + 1], w), {}, c)

kCRC32Xor == 0..31

Message(n, j, b) == [i \in 1..n |-> IF i = j THEN b ELSE {}]
Parts == UNION {{Message(n, j, b) : j \in 1..n, b \in Bytes} \union {Message(n, 0, {})} : n \in Lengths}

Left == Len(data) - p
ReadUint32LE(i) == UNION {Shl(data[p + i + k], 8 * (k - 1)) : k \in 1..4}
-----------------------------------------------------------------------------
\* crc ^ kCRC32Xor, on entry and on return.
Condition(w) == Xor(w, kCRC32Xor)

Init ==
  /\ data \in Parts
  /\ align \in Aligns
  /\ seen = <<>> /\ p = 0 /\ strides = <<>> /\ pc = "align"
  /\ l = Condition({})

\* STEP1
STEP1 ==
  /\ l' = Xor(At(kByteExtensionTable, Xor(Byte(l, 0), data[p + 1])), Shr(l, 8))
  /\ p' = p + 1
  /\ UNCHANGED <<data, seen, align, strides>>

\* RoundUp<4>: bytes from the address a to the next that is aligned.
RoundUp(a) == (4 - a) % 4

\* x <= e: bytes up to the aligned address, unless it is past the end.
AlignByte ==
  /\ pc = "align" /\ RoundUp(align) <= Len(data) /\ p # RoundUp(align)
  /\ STEP1 /\ UNCHANGED pc

Aligned == pc = "align" /\ (RoundUp(align) <= Len(data) => p = RoundUp(align))

LoadSwath ==
  /\ Aligned /\ Left >= 16
  /\ strides' = <<Xor(ReadUint32LE(0), l), ReadUint32LE(4), ReadUint32LE(8), ReadUint32LE(12)>>
  /\ p' = p + 16
  /\ pc' = "swath"
  /\ UNCHANGED <<data, seen, align, l>>

TooShort == Aligned /\ Left < 16 /\ pc' = "tail" /\ UNCHANGED <<data, seen, align, p, l, strides>>

\* STEP4(s), for the word at offset i.
STEP4(w, i) ==
  Xor(ReadUint32LE(i),
      Xor(Xor(At(kStrideExtensionTable3, Byte(w, 0)), At(kStrideExtensionTable2, Byte(w, 1))),
          Xor(At(kStrideExtensionTable1, Byte(w, 2)), At(kStrideExtensionTable0, Byte(w, 3)))))

STEP16 ==
  /\ pc = "swath" /\ Left >= 16
  /\ strides' = [s \in 1..4 |-> STEP4(strides[s], 4 * (s - 1))]
  /\ p' = p + 16
  /\ UNCHANGED <<data, seen, align, l, pc>>

\* crc0 moves behind the others.
Rotated(s, w) == <<s[2], s[3], s[4], w>>

Word ==
  /\ pc = "swath" /\ Left < 16 /\ Left >= 4
  /\ strides' = Rotated(strides, STEP4(strides[1], 0))
  /\ p' = p + 4
  /\ UNCHANGED <<data, seen, align, l, pc>>

\* STEP4W
STEP4W(x, w) == FoldLeft(LAMBDA y, i : Xor(Shr(y, 8), At(kByteExtensionTable, Byte(y, 0))), Xor(w, x), <<1, 2, 3, 4>>)

Combine ==
  /\ pc = "swath" /\ Left < 4
  /\ l' = FoldLeft(STEP4W, {}, strides)
  /\ strides' = <<>>
  /\ pc' = "tail"
  /\ UNCHANGED <<data, seen, align, p>>

TailByte == pc = "tail" /\ Left > 0 /\ STEP1 /\ UNCHANGED pc

Return == pc = "tail" /\ Left = 0 /\ pc' = "done" /\ UNCHANGED <<data, seen, align, p, l, strides>>

crc == Condition(l)

\* Extend with the result of the first call, as for a block and its type.
ExtendNext ==
  /\ pc = "done" /\ seen = <<>> /\ data # <<>>
  /\ seen' = data
  /\ \E n \in Rests : data' = Message(n, 0, {})
  /\ \E a \in Aligns : align' = a
  /\ l' = Condition(crc)
  /\ p' = 0 /\ pc' = "align"
  /\ UNCHANGED strides

Next ==
  \/ AlignByte \/ LoadSwath \/ TooShort \/ STEP16 \/ Word \/ Combine \/ TailByte \/ Return
  \/ ExtendNext
Spec == Init /\ [][Next]_vars
-----------------------------------------------------------------------------
\* Sum of two words modulo 2^32.
Plus(a, b) ==
  LET carry[i \in 0..32] == i > 0 /\ Cardinality({x \in {<<i - 1 \in a, 1>>, <<i - 1 \in b, 2>>, <<carry[i - 1], 3>>} : x[1]}) >= 2
  IN {i \in 0..31 : Cardinality({x \in {<<i \in a, 1>>, <<i \in b, 2>>, <<carry[i], 3>>} : x[1]}) % 2 = 1}
Negative(a) == Plus((0..31) \ a, {0})

Ror(w, n) == Shr(w, n) \union Shl(w, 32 - n)
\* 0xa282ead8
kMaskDelta == {3, 4, 6, 7, 9, 11, 13, 14, 15, 17, 23, 25, 29, 31}

Mask(w) == Plus(Ror(w, 15), kMaskDelta)

Unmask(w) == Ror(Plus(w, Negative(kMaskDelta)), 17)
-----------------------------------------------------------------------------
\* The checksum by its definition: the message's bits in their order.
DivideByte(w, b) == IF Xor(w, b) = {} THEN {} ELSE Advance(Xor(w, b), 8)
Division(m) == Xor(FoldLeft(DivideByte, 0..31, m), 0..31)

\* The state is well formed: reads stay within the part, and swaths are read at
\* aligned addresses.
TypeOK ==
  /\ p \in 0..Len(data)
  /\ l \subseteq 0..31
  /\ pc = "swath" => Len(strides) = 4 /\ (align + p) % 4 = 0

\* Extend returns the checksum of what was processed before and its data,
\* whatever the address, the length and the cuts between calls.
IsDivision == pc = "done" => crc = Division(seen \o data)

\* Unmask undoes Mask, and a masked checksum is another number.
MaskInverse == pc = "done" => Unmask(Mask(crc)) = crc /\ Mask(crc) # crc
=============================================================================
