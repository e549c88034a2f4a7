------------------------------ MODULE MemTable ------------------------------
(***************************************************************************)
(* MemTable and its SkipList: one writer at a time links a node into the   *)
(* lists level by level, readers walk them with no lock.  Every load and   *)
(* every store of a link that another thread may see is a step; the search *)
(* of the writer is one, as nobody else changes the lists.                 *)
(*                                                                         *)
(* A node is a number, in the order of allocation.  A reader may see any   *)
(* value max_height_ ever had (the load is relaxed), and a link of a node  *)
(* that was not set yet is Garbage.  Readers do not meet each other.       *)
(***************************************************************************)
EXTENDS Integers, Sequences, FiniteSets, FiniteSetsExt

CONSTANTS
  Readers,
  UserKeys,     \* numbers, for their order
  Types,        \* the types of entries: kTypeDeletion is 0, kTypeValue is 1
  MaxHeight,    \* kMaxHeight, 12 in the code
  MaxNodes,     \* bound: entries added
  MaxCalls      \* bound: calls of each reader

VARIABLES
  node,         \* the nodes; 0 is head_
  max_height,   \* max_height_
  writer,       \* Insert in progress
  last,         \* the last sequence number that is published (SetLastSequence)
  reader        \* the call and the position of each reader
vars == <<node, max_height, writer, last, reader>>

ListHead == 0
Null == -1
Garbage == -2
Value == 1   \* kTypeValue, and kValueTypeForSeek
Levels == 0..(MaxHeight - 1)
Nodes == DOMAIN node \ {ListHead}
Key(n) == node[n].key

\* KeyComparator: InternalKeyComparator on the decoded keys.
Before(a, b) ==
  \/ a.user < b.user
  \/ a.user = b.user /\ (a.seq > b.seq \/ (a.seq = b.seq /\ a.type > b.type))

\* LookupKey: the sequence number of the snapshot and the largest type.
LookupKey(user, snapshot) == [user |-> user, seq |-> snapshot, type |-> Value]
-----------------------------------------------------------------------------
(* SkipList. *)
KeyIsAfterNode(key, n) == n # Null /\ Before(Key(n), key)

\* The node after which key belongs at a level, for the writer.
FindPrev(key, level) ==
  LET smaller == {n \in Nodes : level < node[n].height /\ Before(Key(n), key)}
  IN IF level >= max_height \/ smaller = {} THEN ListHead
     ELSE CHOOSE n \in smaller : \A m \in smaller : m = n \/ Before(Key(m), Key(n))

\* The level that is linked next.
LevelOf(w) == w.level

NoCall == [op |-> "none"]
Init ==
  /\ node = [n \in {ListHead} |-> [key |-> [user |-> 0, seq |-> 0, type |-> 0], height |-> MaxHeight, next |-> [l \in Levels |-> Null]]]
  /\ max_height = 1
  /\ writer = [pc |-> "idle"]
  /\ last = 0
  /\ reader = [r \in Readers |-> [call |-> NoCall, at |-> Null, calls |-> 0]]

NewMaxHeight(height) == IF height > max_height THEN height ELSE max_height

\* MemTable::Add up to NewNode: the sequence number is the one after the last
\* entry's, and max_height_ is raised before the node is linked.
Add(user, type, height) ==
  LET key == [user |-> user, seq |-> Cardinality(Nodes) + 1, type |-> type]
      n == Cardinality(Nodes) + 1
  IN /\ writer.pc = "idle"
     /\ n <= MaxNodes
     /\ max_height' = NewMaxHeight(height)
     /\ node' = [m \in DOMAIN node \union {n} |->
                   IF m # n THEN node[m] ELSE [key |-> key, height |-> height, next |-> [l \in Levels |-> Garbage]]]
     /\ writer' = [pc |-> "set", n |-> n, height |-> height, level |-> 0, prev |-> [l \in Levels |-> FindPrev(key, l)]]
     /\ UNCHANGED <<last, reader>>

\* x->NoBarrier_SetNext(i, prev[i]->NoBarrier_Next(i)).
SetOwn ==
  LET l == LevelOf(writer)
  IN /\ writer.pc = "set"
     /\ node' = [node EXCEPT ![writer.n].next[l] = node[writer.prev[l]].next[l]]
     /\ writer' = [writer EXCEPT !.pc = "publish"]
     /\ UNCHANGED <<max_height, last, reader>>

\* prev[i]->SetNext(i, x).
SetPrev ==
  LET l == LevelOf(writer)
  IN /\ writer.pc = "publish"
     /\ node' = [node EXCEPT ![writer.prev[l]].next[l] = writer.n]
     /\ writer' = IF writer.level + 1 = writer.height THEN [pc |-> "idle"] ELSE [writer EXCEPT !.pc = "set", !.level = @ + 1]
     /\ UNCHANGED <<max_height, last, reader>>

\* The batch is in the table: readers may use its sequence number.
PublishSequence ==
  /\ writer.pc = "idle"
  /\ last # Cardinality(Nodes)
  /\ last' = Cardinality(Nodes)
  /\ UNCHANGED <<node, max_height, writer, reader>>

\* The entries whose Insert has returned.
Inserted == {n \in Nodes : writer.pc = "idle" \/ writer.n # n}
-----------------------------------------------------------------------------
(* The calls of SkipList::Iterator, and MemTable::Get. *)

\* FindGreaterOrEqual goes on over nodes before the target, FindLessThan too,
\* FindLast over all of them.
GoesOn(call, next) ==
  IF call.op = "last" THEN next # Null ELSE KeyIsAfterNode(call.target, next)

\* What a call returns once it is at the bottom: FindGreaterOrEqual the next
\* node, the others the one before it, where head_ stands for none.
Returned(call, x, next) ==
  IF call.op \in {"seek", "get"} THEN next ELSE IF x = ListHead THEN Null ELSE x

Start(r, op, target) ==
  /\ reader[r].call.op \in {"none", "done"}
  /\ reader[r].calls < MaxCalls
  /\ \E h \in 1..max_height :
       reader' = [reader EXCEPT ![r].call = [op |-> op, target |-> target, x |-> ListHead, level |-> h - 1, before |-> Inserted, snapshot |-> last],
                                   ![r].calls = @ + 1]
  /\ UNCHANGED <<node, max_height, writer, last>>

Seek(r, user, seq) == Start(r, "seek", LookupKey(user, seq))
Get(r, user) == Start(r, "get", LookupKey(user, last))
SeekToLast(r) == Start(r, "last", LookupKey(0, 0))
Prev(r) == reader[r].at # Null /\ Start(r, "prev", Key(reader[r].at))

Done(r, op, target, before, snapshot, n) ==
  reader' = [reader EXCEPT ![r].call = [op |-> "done", of |-> op, target |-> target, before |-> before, snapshot |-> snapshot, node |-> n],
                           ![r].at = n]

\* One turn of the loop: x->Next(level), and on, down, or back to the caller.
Walk(r) ==
  LET call == reader[r].call
      next == node[call.x].next[call.level]
  IN /\ call.op \in {"seek", "get", "last", "prev"}
     /\ IF GoesOn(call, next) THEN reader' = [reader EXCEPT ![r].call.x = next]
        ELSE IF call.level > 0 THEN reader' = [reader EXCEPT ![r].call.level = @ - 1]
        ELSE Done(r, call.op, call.target, call.before, call.snapshot, Returned(call, call.x, next))
     /\ UNCHANGED <<node, max_height, writer, last>>

\* Next and SeekToFirst are one load.
OneLoad(r, op, from) ==
  /\ reader[r].call.op \in {"none", "done"}
  /\ reader[r].calls < MaxCalls
  /\ reader' = [reader EXCEPT ![r].call = [op |-> "done", of |-> op, target |-> Key(from), before |-> Inserted,
                                           snapshot |-> last, node |-> node[from].next[0]],
                              ![r].at = node[from].next[0], ![r].calls = @ + 1]
  /\ UNCHANGED <<node, max_height, writer, last>>
SeekToFirst(r) == OneLoad(r, "first", ListHead)
Advance(r) == reader[r].at # Null /\ OneLoad(r, "next", reader[r].at)

Write ==
  \/ \E user \in UserKeys, type \in Types, height \in 1..MaxHeight : Add(user, type, height)
  \/ SetOwn
  \/ SetPrev
  \/ PublishSequence
Read(r) ==
  \/ \E user \in UserKeys, seq \in 0..MaxNodes : Seek(r, user, seq)
  \/ \E user \in UserKeys : Get(r, user)
  \/ SeekToFirst(r)
  \/ SeekToLast(r)
  \/ Advance(r)
  \/ Prev(r)
  \/ Walk(r)
Next == Write \/ \E r \in Readers : Read(r)

\* The threads run.
Spec == Init /\ [][Next]_vars /\ WF_vars(SetOwn \/ SetPrev) /\ \A r \in Readers : WF_vars(Walk(r))
-----------------------------------------------------------------------------
Walking(r) == reader[r].call.op \in {"seek", "get", "last", "prev"}

\* The nodes that are linked at a level.
Linked(l) == {n \in Nodes : l < node[n].height /\ (n \in Inserted \/ l < writer.level)}

\* The state is well formed, and max_height_ is as high as every node.
TypeOK ==
  /\ max_height \in 1..MaxHeight
  /\ last \in 0..Cardinality(Nodes)
  /\ \A n \in Nodes : node[n].height <= max_height
  /\ \A r \in Readers : reader[r].at \in Nodes \union {Null}

\* At each level the link of a node is the smallest of the larger nodes of
\* that level, at every moment of an Insert: no entry is lost and none is out
\* of order.
LevelsSorted ==
  \A l \in Levels : \A n \in Linked(l) \union {ListHead} :
    LET larger == {m \in Linked(l) : n = ListHead \/ Before(Key(n), Key(m))}
    IN IF larger = {} THEN node[n].next[l] = Null
       ELSE node[n].next[l] \in larger /\ \A m \in larger : m = node[n].next[l] \/ Before(Key(node[n].next[l]), Key(m))

\* No reader follows a link that was not set yet, although NewNode leaves the
\* links of a node as they are and Insert publishes one level at a time.
OnlyPublished ==
  \A r \in Readers :
    /\ Walking(r) => node[reader[r].call.x].next[reader[r].call.level] # Garbage
    /\ reader[r].at # Null => node[reader[r].at].next[0] # Garbage

\* Whatever is inserted meanwhile, a call gives the right neighbour of its
\* target: none of the entries that were there when it began lies between the
\* two.
CallsRight ==
  \A r \in Readers : reader[r].call.op = "done" =>
    LET c == reader[r].call
        n == c.node
        after(m) == c.of = "first" \/ (c.of = "next" /\ Before(c.target, Key(m))) \/ (c.of \in {"seek", "get"} /\ ~Before(Key(m), c.target))
        upto(m) == c.of = "last" \/ (c.of = "prev" /\ Before(Key(m), c.target))
    IN IF c.of \in {"first", "next", "seek", "get"}
       THEN /\ n # Null => after(n)
            /\ \A m \in c.before : after(m) => n # Null /\ (m = n \/ Before(Key(n), Key(m)))
       ELSE /\ n # Null => upto(n)
            /\ \A m \in c.before : upto(m) => n # Null /\ (m = n \/ Before(Key(m), Key(n)))

\* MemTable::Get finds the newest entry of the key that its snapshot covers,
\* and only says that there is none when there is none.
GetRight ==
  \A r \in Readers : (reader[r].call.op = "done" /\ reader[r].call.of = "get") =>
    LET c == reader[r].call
        seen == {m \in Nodes : Key(m).user = c.target.user /\ Key(m).seq <= c.snapshot}
    IN IF c.node # Null /\ Key(c.node).user = c.target.user
       THEN c.node \in seen /\ \A m \in seen : Key(m).seq <= Key(c.node).seq
       ELSE seen = {}

\* A walk ends although entries are added while it runs.
WalkEnds == \A r \in Readers : Walking(r) ~> ~Walking(r)
=============================================================================
