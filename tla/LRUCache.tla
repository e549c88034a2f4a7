------------------------------ MODULE LRUCache ------------------------------
(***************************************************************************)
(* ShardedLRUCache and its two clients: TableCache keeps open tables,      *)
(* Table::BlockReader keeps blocks.  Threads call the cache at any time;   *)
(* the mutex of a shard makes each call one step.  A handle is the address *)
(* of an entry, and addresses are used again once an entry is freed.       *)
(***************************************************************************)
EXTENDS Integers, Sequences, FiniteSets, SequencesExt, FiniteSetsExt

CONSTANTS
  Threads,     \* the threads that read
  Keys,        \* file numbers, or cache ids with offsets
  Hash,        \* HashSlice, a function from Keys
  Charge,      \* the charge of the value of a key: 1 for a table, its size for a block
  Capacity,    \* the argument of NewLRUCache
  NumShards,   \* kNumShards, 16 in the code
  InitialLength, \* the length of a new hash table, 4 in the code
  HashRange,   \* how many hashes a shard has
  Addresses,   \* bound: the entries, and the values, at one time
  Evictions    \* the keys that are evicted

HashAssumption == Hash \in [Keys -> 0..(NumShards * HashRange - 1)] /\ Charge \in [Keys -> Nat \ {0}]
CapacityAssumption == Capacity \in Nat

VARIABLES
  shard,    \* shard_: the lists, the usage and the hash table of each
  heap,     \* the entries that are allocated
  alive,    \* the values that are not deleted yet
  current,  \* history: the value Insert put last under a key, 0 once it is erased
  thread    \* what each thread does
vars == <<shard, heap, alive, current, thread>>

Shards == 0..(NumShards - 1)
Null == 0
Shard(hash) == hash \div HashRange
PerShard == (Capacity + (NumShards - 1)) \div NumShards
-----------------------------------------------------------------------------
(* HandleTable: a chain of entries for each bucket. *)
Empty(length) == [b \in 0..(length - 1) |-> <<>>]

Bucket(t, hash) == hash % t.length

\* The place in its chain of the entry with this key, or the place behind it.
FindPointer(m, t, key) ==
  LET chain == t.list[Bucket(t, Hash[key])]
  IN Min({i \in DOMAIN chain : m[chain[i]].key = key} \union {Len(chain) + 1})

TableLookup(m, t, key) ==
  LET chain == t.list[Bucket(t, Hash[key])]
      i == FindPointer(m, t, key)
  IN IF i <= Len(chain) THEN chain[i] ELSE Null

NewLength(elems) == CHOOSE n \in {InitialLength * 2^i : i \in 0..elems} :
                       n >= elems /\ (n > InitialLength => n \div 2 < elems)

\* Every entry goes to the front of the chain of its new bucket.
Resize(m, t) ==
  LET n == NewLength(t.elems)
      all == FoldLeft(LAMBDA s, b : s \o t.list[b], <<>>, [i \in 1..t.length |-> i - 1])
  IN [t EXCEPT !.length = n,
               !.list = FoldLeft(LAMBDA l, e : [l EXCEPT ![Hash[m[e].key] % n] = <<e>> \o @], Empty(n), all)]

\* [t, old]: an entry with the same key is replaced in its chain.
TableInsert(m, t, e) ==
  LET b == Bucket(t, Hash[m[e].key])
      i == FindPointer(m, t, m[e].key)
      old == TableLookup(m, t, m[e].key)
      put == [t EXCEPT !.list[b] = IF old = Null THEN Append(@, e) ELSE [@ EXCEPT ![i] = e],
                       !.elems = IF old = Null THEN @ + 1 ELSE @]
  IN [t |-> IF old = Null /\ put.elems > put.length THEN Resize(m, put) ELSE put, old |-> old]

TableRemove(m, t, key) ==
  LET e == TableLookup(m, t, key)
  IN IF e = Null THEN t
     ELSE [t EXCEPT !.list[Bucket(t, Hash[key])] = SelectSeq(@, LAMBDA x : x # e), !.elems = @ - 1]
-----------------------------------------------------------------------------
(* LRUCache.  c is a shard together with the heap: [s, m, alive]. *)
LRU_Remove(c, e) == [c EXCEPT !.s.lru = SelectSeq(@, LAMBDA x : x # e), !.s.in_use = SelectSeq(@, LAMBDA x : x # e)]

Ref(c, e) ==
  LET moved == IF c.m[e].refs = 1 /\ c.m[e].in_cache
               THEN [LRU_Remove(c, e) EXCEPT !.s.in_use = Append(@, e)] ELSE c
  IN [moved EXCEPT !.m[e].refs = @ + 1]

\* The deleter runs with the mutex held, and the entry is freed.
Deallocate(c, e) == [c EXCEPT !.m = [x \in DOMAIN c.m \ {e} |-> c.m[x]], !.alive = @ \ {c.m[e].value}]

Unref(c, e) ==
  LET less == [c EXCEPT !.m[e].refs = @ - 1]
  IN IF less.m[e].refs = 0 THEN Deallocate(less, e)
     ELSE IF less.m[e].in_cache /\ less.m[e].refs = 1
     THEN [LRU_Remove(less, e) EXCEPT !.s.lru = Append(@, e)]
     ELSE less

\* e is out of the hash table already.
FinishErase(c, e) ==
  IF e = Null THEN c
  ELSE Unref([LRU_Remove(c, e) EXCEPT !.m[e].in_cache = FALSE, !.s.usage = @ - c.m[e].charge], e)

LookupIn(c, key) == LET e == TableLookup(c.m, c.s.table, key) IN IF e = Null THEN c ELSE Ref(c, e)

EraseIn(c, key) == FinishErase([c EXCEPT !.s.table = TableRemove(c.m, @, key)], TableLookup(c.m, c.s.table, key))

\* The oldest n entries nobody uses are erased.
DropOldest(c, n) == FoldLeft(LAMBDA d, e : EraseIn(d, d.m[e].key), c, SubSeq(c.s.lru, 1, n))

\* Mutant: the newest entries that nobody uses go first.
Trim_Newest(c) ==
  LET over(n) == DropOldest([c EXCEPT !.s.lru = Reverse(@)], n)
      enough == {n \in 0..Len(c.s.lru) : over(n).s.usage <= PerShard}
      d == over(Min(enough \union {Len(c.s.lru)}))
  IN [d EXCEPT !.s.lru = Reverse(@)]

\* The loop at the end of Insert.
Trim(c) ==
  LET enough == {n \in 0..Len(c.s.lru) : DropOldest(c, n).s.usage <= PerShard}
  IN DropOldest(c, Min(enough \union {Len(c.s.lru)}))

\* A capacity of 0 turns caching off: the entry belongs to its handle.
InsertIn(c, e, key, value) ==
  LET cached == PerShard > 0
      m == [x \in DOMAIN c.m \union {e} |->
              IF x # e THEN c.m[x]
              ELSE [key |-> key, value |-> value, charge |-> Charge[key], in_cache |-> cached, refs |-> IF cached THEN 2 ELSE 1]]
      put == TableInsert(m, c.s.table, e)
      added == [c EXCEPT !.m = m, !.s.in_use = Append(@, e), !.s.usage = @ + Charge[key], !.s.table = put.t]
  IN Trim(IF cached THEN FinishErase(added, put.old) ELSE [c EXCEPT !.m = m])

PruneIn(c) == DropOldest(c, Len(c.s.lru))
-----------------------------------------------------------------------------
Of(s) == [s |-> shard[s], m |-> heap, alive |-> alive]
Put(s, c) == shard' = [shard EXCEPT ![s] = c.s] /\ heap' = c.m /\ alive' = c.alive
ShardOf(key) == Shard(Hash[key])
Idle == [pc |-> "idle"]
Become(t, state) == thread' = [thread EXCEPT ![t] = state]

NewShard == [lru |-> <<>>, in_use |-> <<>>, usage |-> 0,
             table |-> [length |-> InitialLength, elems |-> 0, list |-> Empty(InitialLength)]]

\* new and malloc: which of the free addresses it is makes no difference, and
\* the one that was freed last may come again at once.
Fresh(used) == Min(Addresses \ used)

Init ==
  /\ shard = [s \in Shards |-> NewShard]
  /\ heap = <<>>
  /\ alive = {}
  /\ current = [k \in Keys |-> 0]
  /\ thread = [t \in Threads |-> Idle]

\* FindTable and BlockReader begin with a look-up; a hit is a handle.
Lookup(t, key) ==
  LET e == TableLookup(heap, shard[ShardOf(key)].table, key)
  IN /\ thread[t].pc = "idle"
     /\ Put(ShardOf(key), LookupIn(Of(ShardOf(key)), key))
     /\ Become(t, IF e = Null THEN [pc |-> "missed", key |-> key]
                  ELSE [pc |-> "holds", key |-> key, handle |-> e, value |-> heap[e].value])
     /\ UNCHANGED current

\* The file is opened and the table or the block is read with no lock held.
Read(t) ==
  /\ thread[t].pc = "missed"
  /\ alive' = alive \union {Fresh(alive)}
  /\ Become(t, [pc |-> "read", key |-> thread[t].key, value |-> Fresh(alive)])
  /\ UNCHANGED <<shard, heap, current>>

\* An error is not cached.
ReadFails(t) ==
  /\ thread[t].pc = "missed"
  /\ Become(t, Idle)
  /\ UNCHANGED <<shard, heap, alive, current>>

Insert(t) ==
  LET key == thread[t].key
      value == thread[t].value
  IN /\ thread[t].pc = "read"
     /\ Put(ShardOf(key), InsertIn(Of(ShardOf(key)), Fresh(DOMAIN heap), key, value))
     /\ Become(t, [pc |-> "holds", key |-> key, handle |-> Fresh(DOMAIN heap), value |-> value])
     /\ current' = [current EXCEPT ![key] = value]

\* A block that is not to be cached belongs to its iterator.
KeepPrivate(t) ==
  /\ thread[t].pc = "read"
  /\ Become(t, [thread[t] EXCEPT !.pc = "owns"])
  /\ UNCHANGED <<shard, heap, alive, current>>

\* DeleteBlock.
DeletePrivate(t) ==
  /\ thread[t].pc = "owns"
  /\ alive' = alive \ {thread[t].value}
  /\ Become(t, Idle)
  /\ UNCHANGED <<shard, heap, current>>

\* At the end of Get, or the clean-up of an iterator (UnrefEntry, ReleaseBlock).
Release(t) ==
  /\ thread[t].pc = "holds"
  /\ Put(ShardOf(thread[t].key), Unref(Of(ShardOf(thread[t].key)), thread[t].handle))
  /\ Become(t, Idle)
  /\ UNCHANGED current

\* TableCache::Evict, for a file that is about to be deleted.
Evict(key) ==
  /\ Put(ShardOf(key), EraseIn(Of(ShardOf(key)), key))
  /\ current' = [current EXCEPT ![key] = 0]
  /\ UNCHANGED thread

\* One shard after the other, each under its own mutex.
Prune(s) ==
  /\ Put(s, PruneIn(Of(s)))
  /\ UNCHANGED <<current, thread>>

\* The cache is deleted when the database is closed, and a new one is made
\* when it is opened again.
Destroy ==
  /\ \A t \in Threads : thread[t] = Idle
  /\ LET gone(s, c) == FoldLeft(LAMBDA d, e : Unref([d EXCEPT !.m[e].in_cache = FALSE], e), [c EXCEPT !.s = shard[s]], shard[s].lru)
         all == FoldSet(gone, Of(0), Shards)
     IN heap' = all.m /\ alive' = all.alive
  /\ shard' = [s \in Shards |-> NewShard]
  /\ current' = [k \in Keys |-> 0]
  /\ UNCHANGED thread

Step(t) ==
  \/ \E key \in Keys : Lookup(t, key)
  \/ Read(t)
  \/ ReadFails(t)
  \/ Insert(t)
  \/ KeepPrivate(t)
  \/ DeletePrivate(t)
  \/ Release(t)
Next ==
  \/ \E t \in Threads : Step(t)
  \/ \E key \in Evictions : Evict(key)
  \/ \E s \in Shards : Prune(s)
  \/ Destroy
Spec == Init /\ [][Next]_vars
-----------------------------------------------------------------------------
Chain(s) == UNION {ToSet(shard[s].table.list[b]) : b \in DOMAIN shard[s].table.list}
Cached(s) == {e \in DOMAIN heap : heap[e].in_cache /\ ShardOf(heap[e].key) = s}
Holders(e) == {t \in Threads : thread[t].pc = "holds" /\ thread[t].handle = e}

\* The state is well formed: the references of an entry are those of the
\* threads that hold it and that of the cache, and the lists of a shard are
\* what the comments at lru_ and in_use_ say.
TypeOK ==
  /\ \A e \in DOMAIN heap : heap[e].refs > 0 /\ heap[e].refs = Cardinality(Holders(e)) + (IF heap[e].in_cache THEN 1 ELSE 0)
  /\ \A s \in Shards :
       /\ ToSet(shard[s].lru) = {e \in Cached(s) : heap[e].refs = 1}
       /\ ToSet(shard[s].in_use) = {e \in Cached(s) : heap[e].refs >= 2}
       /\ IsInjective(shard[s].lru) /\ IsInjective(shard[s].in_use)

\* What a thread got from Lookup or Insert is there, with the value it was
\* told, until it calls Release: however often the key is replaced, evicted or
\* pushed out in between.
HandlesLive ==
  \A t \in Threads :
    thread[t].pc = "holds" =>
      /\ thread[t].handle \in DOMAIN heap
      /\ heap[thread[t].handle].value = thread[t].value
      /\ thread[t].value \in alive

\* No value is leaked and none is deleted twice: each one that is alive has
\* exactly one owner, an entry or a thread that has just read it.
OneOwner ==
  \A v \in alive :
    Cardinality({e \in DOMAIN heap : heap[e].value = v})
      + Cardinality({t \in Threads : thread[t].pc \in {"read", "owns"} /\ thread[t].value = v}) = 1

\* The hash table holds what the lists hold, each entry where FindPointer
\* looks for it, before and after Resize.
TableExact ==
  \A s \in Shards :
    /\ Chain(s) = Cached(s)
    /\ shard[s].table.elems = Cardinality(Cached(s))
    /\ shard[s].table.elems <= shard[s].table.length
    /\ \A e \in Cached(s) : TableLookup(heap, shard[s].table, heap[e].key) = e

\* usage_ is the sum of the charges of what is in the cache.
UsageExact == \A s \in Shards : shard[s].usage = FoldSet(LAMBDA e, n : n + heap[e].charge, 0, Cached(s))

\* Lookup never finds a value that was replaced or erased, and as long as a
\* thread holds the newest value of a key every look-up finds that one (with a
\* capacity above zero): only what nobody uses is pushed out.
NewestOrNone ==
  \A key \in Keys :
    LET e == TableLookup(heap, shard[ShardOf(key)].table, key)
    IN /\ e # Null => heap[e].value = current[key]
       /\ (PerShard > 0 /\ \E t \in Threads : thread[t].pc = "holds" /\ thread[t].key = key /\ thread[t].value = current[key])
            => e # Null

\* Insert pushes out the least recently used and no more than it must: what
\* it leaves in the shard is within the capacity or all in use, and of the
\* entries nobody used an older one never stays where a newer one went.
InsertEvicts ==
  \A t \in Threads :
    thread[t].pc = "read" /\ thread'[t].pc = "holds" =>
      LET s == ShardOf(thread[t].key)
          old == SelectSeq(shard[s].lru, LAMBDA e : heap[e].key # thread[t].key)
          stays(i) == old[i] \in DOMAIN heap'
      IN /\ shard'[s].usage <= PerShard \/ shard'[s].lru = <<>>
         /\ \A i, j \in DOMAIN old : i < j /\ stays(i) => stays(j)
         /\ \A i \in DOMAIN old : ~stays(i) => shard'[s].usage + heap[old[i]].charge > PerShard \/ \E j \in DOMAIN old : j > i /\ ~stays(j)
=============================================================================
