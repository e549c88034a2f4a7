------------------------------ MODULE Snapshots ------------------------------
(***************************************************************************)
(* The circular list of snapshots (db/snapshot.h), and the compaction that  *)
(* reads its oldest element once and then runs without mutex_, while others *)
(* write, take snapshots and release them.                                  *)
(***************************************************************************)
EXTENDS Integers, FiniteSets, FiniteSetsExt

CONSTANTS
  MaxSnapshots,   \* bound: snapshots at a time
  MaxSequence     \* bound

head_ == 0
Nodes == 1..MaxSnapshots
None == -1

VARIABLES
  last_sequence,    \* of the VersionSet
  live,             \* nodes that are allocated
  sequence_number_, \* of each node
  prev_, next_,     \* of each node and the head
  smallest          \* compact->smallest_snapshot of the compaction that runs, or None
vars == <<last_sequence, live, sequence_number_, prev_, next_, smallest>>

Init ==
  /\ last_sequence = 0 /\ live = {} /\ smallest = None
  /\ sequence_number_ = [n \in Nodes |-> 0]
  /\ prev_ = [n \in Nodes \union {head_} |-> head_] /\ next_ = prev_

empty == next_[head_] = head_

oldest == next_[head_]

newest == prev_[head_]

\* A write group has been applied: one or more updates.
Write ==
  /\ \E n \in (last_sequence + 1)..MaxSequence : last_sequence' = n
  /\ UNCHANGED <<live, sequence_number_, prev_, next_, smallest>>

\* SnapshotList::New: at the end of the list, with the last sequence number.
Linked(n) ==
  /\ next_' = [next_ EXCEPT ![n] = head_, ![prev_[head_]] = n]
  /\ prev_' = [prev_ EXCEPT ![n] = prev_[head_], ![head_] = n]

GetSnapshot ==
  \E n \in Nodes \ live :
    /\ \A m \in Nodes \ live : n <= m
    /\ live' = live \union {n}
    /\ sequence_number_' = [sequence_number_ EXCEPT ![n] = last_sequence]
    /\ Linked(n)
    /\ UNCHANGED <<last_sequence, smallest>>

\* SnapshotList::Delete
Unlinked(n) ==
  /\ next_' = [next_ EXCEPT ![prev_[n]] = next_[n]]
  /\ prev_' = [prev_ EXCEPT ![next_[n]] = prev_[n]]

ReleaseSnapshot ==
  \E n \in live :
    /\ live' = live \ {n}
    /\ Unlinked(n)
    /\ UNCHANGED <<last_sequence, sequence_number_, smallest>>

\* DoCompactionWork, under mutex_.
StartCompaction ==
  /\ smallest = None
  /\ smallest' = IF empty THEN last_sequence ELSE sequence_number_[oldest]
  /\ UNCHANGED <<last_sequence, live, sequence_number_, prev_, next_>>

EndCompaction ==
  /\ smallest # None /\ smallest' = None
  /\ UNCHANGED <<last_sequence, live, sequence_number_, prev_, next_>>

Next == Write \/ GetSnapshot \/ ReleaseSnapshot \/ StartCompaction \/ EndCompaction
Spec == Init /\ [][Next]_vars
-----------------------------------------------------------------------------
\* What a compaction drops is below every snapshot, taken before or while it
\* runs, and below what a read without a snapshot sees.
SmallestSafe ==
  smallest # None => (\A n \in live : smallest <= sequence_number_[n]) /\ smallest <= last_sequence

\* The list goes through every snapshot once, in both directions, from the
\* oldest number to the newest, in whichever order they are released.
ListSorted ==
  LET nodes == live \union {head_} IN
  /\ {next_[n] : n \in nodes} = nodes
  /\ \A n \in nodes : prev_[next_[n]] = n
  /\ \A n \in live : next_[n] # head_ => sequence_number_[n] <= sequence_number_[next_[n]]
  /\ live # {} => ~empty /\ sequence_number_[oldest] = Min({sequence_number_[n] : n \in live})
                 /\ sequence_number_[newest] = Max({sequence_number_[n] : n \in live})
=============================================================================
