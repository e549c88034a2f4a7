------------------------------- MODULE Arena -------------------------------
(***************************************************************************)
(* The arena of a MemTable: memory is cut from blocks and is only given    *)
(* back as a whole.  A block is known by its size; new[] returns memory    *)
(* that is aligned.                                                        *)
(***************************************************************************)
EXTENDS Integers, Sequences, FiniteSets, SequencesExt, FiniteSetsExt

CONSTANTS
  BlockSize,     \* kBlockSize, 4096 in the code
  Align,         \* sizeof(void*), at least 8 in the code
  PointerSize,   \* the size of a pointer
  Sizes,         \* what is asked for; an entry is never empty
  MaxRequests    \* bound

SizesPositive == Sizes \subseteq Nat \ {0} /\ Align \in Nat \ {0} /\ BlockSize % Align = 0

VARIABLES
  blocks,   \* blocks_, as their sizes
  ptr,      \* alloc_ptr_, as the number of a block and an offset; block 0 is nullptr
  left,     \* alloc_bytes_remaining_
  usage,    \* memory_usage_
  given     \* history: what was allocated, in order
vars == <<blocks, ptr, left, usage, given>>

Init == blocks = <<>> /\ ptr = [block |-> 0, off |-> 0] /\ left = 0 /\ usage = 0 /\ given = <<>>

Give(block, off, bytes, aligned) == given' = Append(given, [block |-> block, off |-> off, bytes |-> bytes, aligned |-> aligned])
AllocateNewBlock(bytes) == blocks' = Append(blocks, bytes) /\ usage' = usage + bytes + PointerSize

\* A large request gets a block of its own, for another the rest of the block
\* is given up.
AllocateFallback(bytes, aligned) ==
  /\ IF bytes > BlockSize \div 4
     THEN AllocateNewBlock(bytes) /\ UNCHANGED <<ptr, left>>
     ELSE /\ AllocateNewBlock(BlockSize)
          /\ ptr' = [block |-> Len(blocks) + 1, off |-> bytes]
          /\ left' = BlockSize - bytes
  /\ Give(Len(blocks) + 1, 0, bytes, aligned)

Cut(skip, bytes, aligned) ==
  /\ ptr' = [ptr EXCEPT !.off = @ + skip + bytes]
  /\ left' = left - (skip + bytes)
  /\ Give(ptr.block, ptr.off + skip, bytes, aligned)
  /\ UNCHANGED <<blocks, usage>>

Allocate(bytes) ==
  /\ Len(given) < MaxRequests
  /\ IF bytes <= left THEN Cut(0, bytes, FALSE) ELSE AllocateFallback(bytes, FALSE)

Needed(bytes, slop) == bytes + slop

\* The bytes to the next multiple of Align.
Slop(mod) == IF mod = 0 THEN 0 ELSE Align - mod

AllocateAligned(bytes) ==
  LET slop == Slop(ptr.off % Align)
  IN /\ Len(given) < MaxRequests
     /\ IF Needed(bytes, slop) <= left THEN Cut(slop, bytes, TRUE) ELSE AllocateFallback(bytes, TRUE)

Next == \E bytes \in Sizes : Allocate(bytes) \/ AllocateAligned(bytes)
Spec == Init /\ [][Next]_vars
-----------------------------------------------------------------------------
\* The state is well formed: what is left is the end of the current block, and
\* memory_usage_ counts every block and the pointer to it.
TypeOK ==
  /\ ptr.block \in 0..Len(blocks)
  /\ left = IF ptr.block = 0 THEN 0 ELSE blocks[ptr.block] - ptr.off
  /\ usage = FoldLeft(LAMBDA n, b : n + b + PointerSize, 0, blocks)

\* What was allocated lies in a block and overlaps nothing else, and a node is
\* aligned.
Disjoint ==
  \A i \in DOMAIN given :
    LET g == given[i]
    IN /\ g.block \in DOMAIN blocks /\ g.off + g.bytes <= blocks[g.block]
       /\ g.aligned => g.off % Align = 0
       /\ \A j \in DOMAIN given :
            (j # i /\ given[j].block = g.block) => (given[j].off + given[j].bytes <= g.off \/ g.off + g.bytes <= given[j].off)

\* Little is wasted: a block that is given up has less than a quarter of it
\* left, and what alignment takes, and a block of its own is full.
WasteBounded ==
  \A b \in DOMAIN blocks :
    b # ptr.block =>
      LET end == Max({given[i].off + given[i].bytes : i \in {i \in DOMAIN given : given[i].block = b}})
      IN blocks[b] - end < BlockSize \div 4 + Align
=============================================================================
