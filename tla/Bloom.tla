-------------------------------- MODULE Bloom --------------------------------
(***************************************************************************)
(* The Bloom filters of tables (util/bloom.cc) behind the policy that takes *)
(* the user keys out of internal keys (db/dbformat.cc).  Filters are made   *)
(* one after the other, perhaps with another number of bits per key after a *)
(* reopening, and asked later.  A byte of a filter is the set of its bits.  *)
(***************************************************************************)
EXTENDS Integers, Sequences, FiniteSets, SequencesExt

CONSTANTS
  UserKeys, Sequences_,   \* bound: an internal key is a user key and a number
  HashBits, Rotation,     \* 32 and 17 in the code
  Hashes,                 \* bound: values of the hash function
  MinBits,                \* 64 in the code
  BitsPerKey,             \* bound: values of the option
  MaxKeys, MaxFilters     \* bounds

VARIABLES
  hash,           \* the hash function: Hash() may be any function of the bytes
  bits_per_key,   \* of the policy
  keys,           \* keys of the filter that comes next
  filters,        \* the filters: their array and k, and history: their keys
  asked           \* the last question and its answer
vars == <<hash, bits_per_key, keys, filters, asked>>

\* The policy's number of probes: bits_per_key * 0.69, between 1 and 30.
k_ ==
  LET k == (bits_per_key * 69) \div 100 IN IF k < 1 THEN 1 ELSE IF k > 30 THEN 30 ELSE k

BloomHash(user) == hash[user]
Delta(h) == (h \div 2^Rotation) + ((h * 2^(HashBits - Rotation)) % 2^HashBits)

\* The bits of a key in a filter of that many: h grows by delta, with overflow.
Probes(user, bits, k) ==
  LET h == BloomHash(user) IN {((h + j * Delta(h)) % 2^HashBits) % bits : j \in 0..(k - 1)}

Rounded(bits) == ((bits + 7) \div 8) * 8

FilterBits(n) == Rounded(IF n * bits_per_key < MinBits THEN MinBits ELSE n * bits_per_key)

ExtractUserKey(internal) == internal[1]

None == [filter |-> 0, key |-> <<>>, match |-> FALSE]
Init ==
  /\ hash \in [UserKeys -> Hashes]
  /\ bits_per_key \in BitsPerKey
  /\ keys = <<>> /\ filters = <<>> /\ asked = None

AddKey(internal) ==
  /\ asked = None /\ Len(keys) < MaxKeys /\ Len(filters) < MaxFilters
  /\ keys' = Append(keys, internal)
  /\ UNCHANGED <<hash, bits_per_key, filters, asked>>

\* InternalFilterPolicy::CreateFilter, which changes the keys to user keys, and
\* BloomFilterPolicy::CreateFilter.
CreateFilter ==
  LET bits == FilterBits(Len(keys))
      set == UNION {Probes(ExtractUserKey(keys[i]), bits, k_) : i \in DOMAIN keys}
  IN /\ asked = None /\ keys # <<>>
     /\ filters' = Append(filters, [array |-> [b \in 1..(Rounded(bits) \div 8) |-> {i \in 0..7 : 8 * (b - 1) + i \in set}],
                                    k |-> k_, keys |-> keys])
     /\ keys' = <<>>
     /\ UNCHANGED <<hash, bits_per_key, asked>>

\* FilterBlockBuilder::GenerateFilter without keys: the filter has no bytes.
EmptyFilter ==
  /\ asked = None /\ keys = <<>> /\ Len(filters) < MaxFilters
  /\ filters' = Append(filters, [array |-> <<>>, k |-> 0, keys |-> <<>>])
  /\ UNCHANGED <<hash, bits_per_key, keys, asked>>

\* The database is opened with another option.
Reopen ==
  /\ asked = None /\ keys = <<>>
  /\ bits_per_key' \in BitsPerKey
  /\ UNCHANGED <<hash, keys, filters, asked>>

\* The number of probes that the filter says.
ReadK(f) == f.k

\* len < 2
TooShort(f) == f.array = <<>>

\* BloomFilterPolicy::KeyMayMatch; more than 30 probes are left for other encodings.
KeyMayMatch(user, f) ==
  LET bits == 8 * Len(f.array)
  IN /\ ~TooShort(f)
     /\ ReadK(f) > 30 \/ \A p \in Probes(user, bits, ReadK(f)) : p % 8 \in f.array[p \div 8 + 1]

\* InternalFilterPolicy::KeyMayMatch.  A question changes nothing, so it comes last.
Ask(internal, n) ==
  /\ asked = None
  /\ asked' = [filter |-> n, key |-> internal, match |-> KeyMayMatch(ExtractUserKey(internal), filters[n])]
  /\ UNCHANGED <<hash, bits_per_key, keys, filters>>

InternalKeys == UserKeys \X Sequences_
Next ==
  \/ \E k \in InternalKeys : AddKey(k) \/ \E n \in DOMAIN filters : Ask(k, n)
  \/ CreateFilter \/ EmptyFilter \/ Reopen
Spec == Init /\ [][Next]_vars
-----------------------------------------------------------------------------
\* A filter never hides a key that it was made from, whatever version of the
\* key is looked for and whatever the option is by now: a read that trusts it
\* skips the block.
NoFalseNegative ==
  asked # None =>
    LET f == filters[asked.filter]
    IN (\E i \in DOMAIN f.keys : f.keys[i][1] = asked.key[1]) => asked.match

\* A filter of no keys lets nothing through.
EmptyMatchesNothing == asked # None /\ filters[asked.filter].keys = <<>> => ~asked.match
=============================================================================
