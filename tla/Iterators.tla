----------------------------- MODULE Iterators -----------------------------
(***************************************************************************)
(* A MergingIterator over TwoLevelIterators, as compactions and scans use  *)
(* them: every child walks through the blocks of a table, or the files of  *)
(* a level, by an index, and the merge takes the smallest or the largest   *)
(* of the children.  An index and a block are lists (module Block shows    *)
(* that their iterator is a cursor in the list).                           *)
(***************************************************************************)
EXTENDS Integers, Sequences, FiniteSets, SequencesExt, FiniteSetsExt

CONSTANTS
  Keys,         \* the keys: numbers, with gaps for the index
  Targets,      \* what is sought
  NChildren,    \* n_
  NBlocks,      \* blocks of a child
  MaxBad        \* bound: blocks that cannot be read

Shape == Keys \subseteq Nat /\ NChildren \in Nat /\ NChildren > 1 /\ NBlocks \in Nat \ {0}

Children == 1..NChildren
Blocks == 1..NBlocks

VARIABLES
  lists,        \* the keys in every block of every child
  index,        \* the key of every block in the index of its child
  bad,          \* the blocks that cannot be read
  m,            \* MergingIterator: children, current_ (0 for null), direction_
  call          \* the last call
vars == <<lists, index, bad, m, call>>

Ascending(s) == \A i \in 1..(Len(s) - 1) : s[i] < s[i + 1]
\* Places in a list: 0 is no place.
FirstOf(s) == IF s = <<>> THEN 0 ELSE 1
FindIn(s, target) == LET from == {i \in DOMAIN s : s[i] >= target} IN IF from = {} THEN 0 ELSE Min(from)
After(s, i) == (i + 1) % (Len(s) + 1)
-----------------------------------------------------------------------------
(* TwoLevelIterator.  t: the place in the index, the block of data_iter_   *)
(* (0 for null) and the place in it, and whether status_ has an error.     *)
NewTwoLevelIterator == [at |-> 0, block |-> 0, pos |-> 0, err |-> FALSE]
DataError(c, t) == <<c, t.block>> \in bad
Data(c, t) == IF t.block = 0 \/ DataError(c, t) THEN <<>> ELSE lists[c][t.block]
TwoLevelOk(c, t) == ~DataError(c, t) /\ ~t.err

\* Mutant: the error of a block is forgotten with its iterator.
SetDataIterator_Forgets(c, t, b) == [t EXCEPT !.block = b, !.pos = 0]

SetDataIterator(c, t, b) == [t EXCEPT !.err = @ \/ DataError(c, t), !.block = b, !.pos = 0]

\* The iterator of a block is kept while the index stays at it.
InitDataBlock(c, t) == IF t.at # 0 /\ t.block = t.at THEN t ELSE SetDataIterator(c, t, t.at)

RECURSIVE SkipEmptyDataBlocksForward(_, _)
SkipEmptyDataBlocksForward(c, t) ==
  LET u == InitDataBlock(c, [t EXCEPT !.at = After(index[c], @)])
  IN IF t.pos # 0 THEN t
     ELSE IF t.at = 0 THEN SetDataIterator(c, t, 0)
     ELSE SkipEmptyDataBlocksForward(c, [u EXCEPT !.pos = FirstOf(Data(c, u))])

RECURSIVE SkipEmptyDataBlocksBackward(_, _)
SkipEmptyDataBlocksBackward(c, t) ==
  LET u == InitDataBlock(c, [t EXCEPT !.at = @ - 1])
  IN IF t.pos # 0 THEN t
     ELSE IF t.at = 0 THEN SetDataIterator(c, t, 0)
     ELSE SkipEmptyDataBlocksBackward(c, [u EXCEPT !.pos = Len(Data(c, u))])

TSeek(c, t, target) ==
  LET u == InitDataBlock(c, [t EXCEPT !.at = FindIn(index[c], target)])
  IN SkipEmptyDataBlocksForward(c, [u EXCEPT !.pos = FindIn(Data(c, u), target)])

TSeekToFirst(c, t) ==
  LET u == InitDataBlock(c, [t EXCEPT !.at = FirstOf(index[c])])
  IN SkipEmptyDataBlocksForward(c, [u EXCEPT !.pos = FirstOf(Data(c, u))])
TSeekToLast(c, t) ==
  LET u == InitDataBlock(c, [t EXCEPT !.at = Len(index[c])])
  IN SkipEmptyDataBlocksBackward(c, [u EXCEPT !.pos = Len(Data(c, u))])
TNext(c, t) == SkipEmptyDataBlocksForward(c, [t EXCEPT !.pos = After(Data(c, t), @)])
TPrev(c, t) == SkipEmptyDataBlocksBackward(c, [t EXCEPT !.pos = @ - 1])
TValid(t) == t.pos # 0
TKey(c, t) == lists[c][t.block][t.pos]
-----------------------------------------------------------------------------
(* MergingIterator. *)
NewMergingIterator == [children |-> [c \in Children |-> NewTwoLevelIterator], current |-> 0, direction |-> "forward"]
Key(x) == TKey(x.current, x.children[x.current])
ValidOnes(kids) == {c \in Children : TValid(kids[c])}

FindSmallest(kids, direction) ==
  LET ok == ValidOnes(kids)
      least == {c \in ok : \A d \in ok : TKey(c, kids[c]) <= TKey(d, kids[d])}
  IN [children |-> kids, current |-> IF ok = {} THEN 0 ELSE Min(least), direction |-> direction]
FindLargest(kids, direction) ==
  LET ok == ValidOnes(kids)
      most == {c \in ok : \A d \in ok : TKey(c, kids[c]) >= TKey(d, kids[d])}
  IN [children |-> kids, current |-> IF ok = {} THEN 0 ELSE Max(most), direction |-> direction]

\* Moving backward the other children are before the key: put them behind it.
TurnForward(x) ==
  IF x.direction = "forward" THEN x.children
  ELSE [c \in Children |->
         LET t == TSeek(c, x.children[c], Key(x))
         IN IF c = x.current THEN x.children[c]
            ELSE IF TValid(t) /\ TKey(c, t) = Key(x) THEN TNext(c, t) ELSE t]

\* Moving forward the other children are behind the key: put them before it.
TurnBackward(x) ==
  IF x.direction = "reverse" THEN x.children
  ELSE [c \in Children |->
         LET t == TSeek(c, x.children[c], Key(x))
         IN IF c = x.current THEN x.children[c]
            ELSE IF TValid(t) THEN TPrev(c, t) ELSE TSeekToLast(c, t)]

StatusOk(x) == \A c \in Children : TwoLevelOk(c, x.children[c])
-----------------------------------------------------------------------------
\* The children of a scan or a compaction: every key in one block of one child,
\* in order; some keys are nowhere, and a block may be empty.
Init ==
  /\ \E place \in [Keys -> (Children \X Blocks) \cup {<<0, 0>>}] :
        lists = [c \in Children |-> [b \in Blocks |-> SetToSortSeq({k \in Keys : place[k] = <<c, b>>}, <)]]
  /\ index \in [Children -> [Blocks -> {k - 1 : k \in Targets}]]
  /\ \A c \in Children :
        /\ Ascending(index[c])
        /\ \A b \in Blocks : \A i \in DOMAIN lists[c][b] :
              /\ lists[c][b][i] <= index[c][b]
              /\ b > 1 => index[c][b - 1] < lists[c][b][i]
  /\ bad \in {s \in SUBSET (Children \X Blocks) : Cardinality(s) <= MaxBad}
  /\ m = NewMergingIterator /\ call = <<"new">>

Call(name, x) == call' = name /\ m' = x /\ UNCHANGED <<lists, index, bad>>

SeekToFirst == Call(<<"first">>, FindSmallest([c \in Children |-> TSeekToFirst(c, m.children[c])], "forward"))
SeekToLast == Call(<<"last">>, FindLargest([c \in Children |-> TSeekToLast(c, m.children[c])], "reverse"))
Seek(t) == Call(<<"seek", t>>, FindSmallest([c \in Children |-> TSeek(c, m.children[c], t)], "forward"))
MNext ==
  /\ m.current # 0
  /\ LET kids == TurnForward(m)
     IN Call(<<"next">>, FindSmallest([kids EXCEPT ![m.current] = TNext(m.current, @)], "forward"))
MPrev ==
  /\ m.current # 0
  /\ LET kids == TurnBackward(m)
     IN Call(<<"prev">>, FindLargest([kids EXCEPT ![m.current] = TPrev(m.current, @)], "reverse"))

Next == SeekToFirst \/ SeekToLast \/ MNext \/ MPrev \/ \E t \in Targets : Seek(t)
Spec == Init /\ [][Next]_vars
-----------------------------------------------------------------------------
TypeOK ==
  /\ m.current \in 0..NChildren
  /\ \A c \in Children : LET t == m.children[c]
                         IN t.at \in 0..NBlocks /\ t.pos \in 0..Len(Data(c, t)) /\ (TValid(t) => t.block = t.at)

\* All keys of all children, sorted.
Merged ==
  LET all == UNION {ToSet(lists[c][b]) : c \in Children, b \in Blocks}
      keys == SetToSortSeq(all, <)
  IN [i \in DOMAIN keys |-> [key |-> keys[i]]]
At == IF m.current = 0 THEN 0 ELSE CHOOSE i \in DOMAIN Merged : Merged[i].key = Key(m)
Less(a, b) == a < b
Cursor == INSTANCE SortedCursor WITH entries <- Merged, at <- At, call <- call, Targets <- Targets, Before <- Less

\* The merge of the children is a cursor in all of their keys, whatever the order
\* of calls: turning around loses no key and shows none twice.
IsCursor == Cursor!Spec

\* Where a block cannot be read the walk goes on behind it, but the status tells:
\* while it is ok no call has passed over a key.
ErrorsSurface == StatusOk(m') => Cursor!Next \/ UNCHANGED vars
=============================================================================
