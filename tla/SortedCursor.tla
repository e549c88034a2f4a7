---------------------------- MODULE SortedCursor ----------------------------
(***************************************************************************)
(* What leveldb::Iterator promises: a place in a sorted list of entries.   *)
(* The iterators over a block, over a table, over several sources and over *)
(* the database are shown to implement this specification.                 *)
(***************************************************************************)
EXTENDS Integers, Sequences, FiniteSetsExt

CONSTANTS
  Targets,          \* what may be sought
  Before(_, _)      \* the order of the keys

VARIABLES
  entries,    \* the list, of [key, value], ascending
  at,         \* the index of the current entry, 0 if the iterator is not valid
  call        \* the last call
vars == <<entries, at, call>>

Ascending(s) == \A i, j \in DOMAIN s : i < j => Before(s[i].key, s[j].key)

\* Seek: the first entry that is not before the target.
Found(s, t) ==
  LET rest == {i \in DOMAIN s : ~Before(s[i].key, t)}
  IN IF rest = {} THEN 0 ELSE Min(rest)

Init == Ascending(entries) /\ at = 0 /\ call = <<"new">>

\* The list grows at its end before it is read.
Fill ==
  /\ at = 0 /\ call = <<"new">>
  /\ Len(entries') = Len(entries) + 1
  /\ SubSeq(entries', 1, Len(entries)) = entries
  /\ Ascending(entries')
  /\ UNCHANGED <<at, call>>

SeekToFirst == call' = <<"first">> /\ at' = (IF entries = <<>> THEN 0 ELSE 1) /\ UNCHANGED entries
SeekToLast == call' = <<"last">> /\ at' = Len(entries) /\ UNCHANGED entries
Seek(t) == call' = <<"seek", t>> /\ at' = Found(entries, t) /\ UNCHANGED entries
Forward == at > 0 /\ call' = <<"next">> /\ at' = (at + 1) % (Len(entries) + 1) /\ UNCHANGED entries
Backward == at > 0 /\ call' = <<"prev">> /\ at' = at - 1 /\ UNCHANGED entries

Next == Fill \/ SeekToFirst \/ SeekToLast \/ Forward \/ Backward \/ \E t \in Targets : Seek(t)
Spec == Init /\ [][Next]_vars
=============================================================================
