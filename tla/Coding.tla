------------------------------- MODULE Coding -------------------------------
(***************************************************************************)
(* Numbers and slices as bytes (util/coding): little-endian numbers of a    *)
(* fixed size, varints, and slices behind their length.  A byte has Group   *)
(* bits and one more that says that bytes follow; numbers have Width32 and  *)
(* Width64 bits.  A Get returns whether it succeeded, the value, and what   *)
(* it leaves of the input.                                                  *)
(***************************************************************************)
EXTENDS Integers, Sequences, FiniteSets, SequencesExt, FiniteSetsExt

CONSTANTS
  Group,      \* 7 in the code
  Width32,    \* 32 in the code
  Width64     \* 64 in the code

WidthAssumption == Group \in Nat \ {0} /\ Width32 \in Nat \ {0} /\ Width64 \in Nat \ {0}

B == 2^Group
Digit(v, i) == (v \div B^(i - 1)) % B
FixedBytes(w) == w \div (Group + 1)
LowByte(v, i) == (v \div (2 * B)^(i - 1)) % (2 * B)

EncodeFixed32(v) == [i \in 1..FixedBytes(Width32) |-> LowByte(v, i)]
EncodeFixed64(v) == [i \in 1..FixedBytes(Width64) |-> LowByte(v, i)]

DecodeFixed(s) == FoldRight(LAMBDA b, n : b + 2 * B * n, s, 0)

VarintBytes(v, n) == [i \in 1..n |-> Digit(v, i) + (IF i < n THEN B ELSE 0)]
MaxBytes(w) == (w + Group - 1) \div Group

\* EncodeVarint32: a case for each number of bytes.
EncodeVarint32(v) == VarintBytes(v, 1 + Cardinality({i \in 1..(MaxBytes(Width32) - 1) : v >= B^i}))

VarintLength(v) == 1 + Cardinality({i \in 1..MaxBytes(Width64) : v >= B^i})

EncodeVarint64(v) == VarintBytes(v, VarintLength(v))

PutLengthPrefixedSlice(s) == EncodeVarint32(Len(s)) \o s

Failed == [ok |-> FALSE]
Got(v, rest) == [ok |-> TRUE, value |-> v, rest |-> rest]
From(s, i) == SubSeq(s, i, Len(s))

\* Where a varint may end: within the input, and while its shift is below w.
Stops(s, w) == {i \in 1..(IF Len(s) < MaxBytes(w) THEN Len(s) ELSE MaxBytes(w)) : s[i] < B}

\* Bits beyond w are shifted out.
VarintOf(s, w, n) == Got(FoldRight(LAMBDA b, v : (b % B) + B * v, SubSeq(s, 1, n), 0) % 2^w, From(s, n + 1))
GetVarint(s, w) ==
  IF Stops(s, w) = {} THEN Failed
  ELSE VarintOf(s, w, Min(Stops(s, w)))

GetVarint32(s) == GetVarint(s, Width32)
GetVarint64(s) == GetVarint(s, Width64)

\* p + len <= limit
Fits(n, s) == n <= Len(s)

SliceOf(len) ==
  IF ~len.ok THEN Failed
  ELSE IF ~Fits(len.value, len.rest) THEN Failed
  ELSE Got(SubSeq(len.rest, 1, len.value), From(len.rest, len.value + 1))
GetLengthPrefixedSlice(s) == SliceOf(GetVarint32(s))
=============================================================================
