---------------------------- MODULE VersionRefs ----------------------------
(***************************************************************************)
(* Who owns a Version and its FileMetaData (db/version_set): both are       *)
(* counted by hand, and are destroyed by whoever gives up the last          *)
(* reference.  Readers and a compaction hold versions while LogAndApply     *)
(* builds the next one; versions are in a circular doubly linked list, from *)
(* which obsolete files are told apart.  Steps are what runs under mutex_.  *)
(***************************************************************************)
EXTENDS Integers, FiniteSets, FiniteSetsExt, FiniteSetTheorems, TLAPS

CONSTANTS
  Readers,        \* threads in Get, and iterators
  MaxVersions,    \* bound: versions made
  MaxFiles        \* bound: FileMetaData made

Versions == 1..MaxVersions
Files == 1..MaxFiles
dummy_versions_ == 0
NoVersion == -1
NoFile == 0

VARIABLES
  refs_,          \* of each version
  files_,         \* of each version
  next_, prev_,   \* of each version and of the dummy
  made,           \* history: versions made so far
  dead,           \* versions that are deleted
  refs,           \* of each FileMetaData
  files_made,     \* history: files made so far
  files_dead,     \* files that are deleted
  to_compact,     \* file_to_compact_ of each version
  current_,
  pending,        \* v of LogAndApply while the MANIFEST is written, or none
  reader,         \* the version each reader holds, or none
  seek_file,      \* and the file of its GetStats
  input_version_, \* of the compaction, or none
  inputs,         \* its files
  closed          \* ~VersionSet has run
vars == <<refs_, files_, next_, prev_, made, dead, refs, files_made, files_dead, to_compact,
          current_, pending, reader, seek_file, input_version_, inputs, closed>>

Heap == [refs_ |-> refs_, files_ |-> files_, to_compact |-> to_compact, next_ |-> next_, prev_ |-> prev_,
         dead |-> dead, refs |-> refs, files_dead |-> files_dead]
SetHeap(h) ==
  /\ refs_' = h.refs_ /\ files_' = h.files_ /\ to_compact' = h.to_compact
  /\ next_' = h.next_ /\ prev_' = h.prev_ /\ dead' = h.dead
  /\ refs' = h.refs /\ files_dead' = h.files_dead

Ref(h, v) == [h EXCEPT !.refs_[v] = @ + 1]

\* f->refs--, and delete f if that was the last.
UnrefFiles(h, fs) ==
  [h EXCEPT !.refs = [f \in Files |-> IF f \in fs THEN @[f] - 1 ELSE @[f]],
            !.files_dead = @ \union {f \in fs : h.refs[f] <= 1}]

Unlink(h, v) ==
  LET g == [h EXCEPT !.next_[h.prev_[v]] = h.next_[v]] IN [g EXCEPT !.prev_[g.next_[v]] = g.prev_[v]]

\* ~Version
Destroy(h, v) ==
  [UnrefFiles(Unlink(h, v), h.files_[v]) EXCEPT !.dead = @ \union {v}, !.files_[v] = {}, !.to_compact[v] = NoFile]

Unref(h, v) ==
  LET g == [h EXCEPT !.refs_[v] = @ - 1] IN IF g.refs_[v] = 0 THEN Destroy(g, v) ELSE g

\* AppendVersion's Unref of the version that was current.
Release(h) == Unref(h, current_)

\* AppendVersion, without the assignment of current_.
AppendVersion(h, v) ==
  LET g == Ref(Release(h), v)
      last == g.prev_[dummy_versions_]
      linked == [g EXCEPT !.prev_[v] = last, !.next_[v] = dummy_versions_]
  IN [linked EXCEPT !.next_[last] = v, !.prev_[dummy_versions_] = v]
-----------------------------------------------------------------------------
Init ==
  /\ refs_ = [v \in Versions |-> IF v = 1 THEN 1 ELSE 0]
  /\ files_ = [v \in Versions |-> {}]
  /\ next_ = [v \in Versions \union {dummy_versions_} |-> IF v = dummy_versions_ THEN 1 ELSE IF v = 1 THEN dummy_versions_ ELSE v]
  /\ prev_ = next_
  /\ made = 1 /\ dead = {}
  /\ refs = [f \in Files |-> 0] /\ files_made = 0 /\ files_dead = {}
  /\ to_compact = [v \in Versions |-> NoFile]
  /\ current_ = 1 /\ pending = NoVersion
  /\ reader = [r \in Readers |-> NoVersion] /\ seek_file = [r \in Readers |-> NoFile]
  /\ input_version_ = NoVersion /\ inputs = {} /\ closed = FALSE

\* f->refs++ for the files that are not deleted.
MaybeAddFile(h, fs) == [h EXCEPT !.refs = [f \in Files |-> IF f \in fs THEN @[f] + 1 ELSE @[f]]]

\* Builder: its base is held, files are added with one reference; SaveTo; ~Builder
\* gives up the added files, of which an edit of a later record may have deleted one,
\* and the base.
Build(added, deleted) ==
  LET saved == (files_[current_] \union added) \ deleted
      based == Ref(Heap, current_)
      applied == [based EXCEPT !.refs = [f \in Files |-> IF f \in added THEN 1 ELSE @[f]]]
      done == UnrefFiles(MaybeAddFile(applied, saved), added)
  IN /\ made < MaxVersions
     /\ made' = made + 1 /\ files_made' = files_made + Cardinality(added)
     /\ SetHeap(Unref([done EXCEPT !.files_[made + 1] = saved], current_))

NewFiles == {(files_made + 1)..(files_made + n) : n \in 0..(MaxFiles - files_made)}

\* VersionSet::Recover, before anybody reads: all edits in one Builder; the version is
\* appended in the next step.
Recover ==
  /\ made = 1
  /\ \E added \in NewFiles : \E deleted \in SUBSET added : Build(added, deleted)
  /\ pending' = made'
  /\ UNCHANGED <<current_, reader, seek_file, input_version_, inputs, closed>>

\* LogAndApply up to the write of the MANIFEST, during which mutex_ is released.
LogAndApply ==
  /\ made > 1 /\ pending = NoVersion /\ ~closed
  /\ \E added \in NewFiles : \E deleted \in SUBSET files_[current_] : Build(added, deleted)
  /\ pending' = made'
  /\ UNCHANGED <<current_, reader, seek_file, input_version_, inputs, closed>>

\* After the write: the version is installed, or deleted.
Install ==
  /\ pending # NoVersion
  /\ SetHeap(AppendVersion(Heap, pending))
  /\ current_' = pending /\ pending' = NoVersion
  /\ UNCHANGED <<made, files_made, reader, seek_file, input_version_, inputs, closed>>

ManifestFails ==
  /\ pending # NoVersion /\ made > 2
  /\ SetHeap(Destroy(Heap, pending))
  /\ pending' = NoVersion
  /\ UNCHANGED <<made, files_made, current_, reader, seek_file, input_version_, inputs, closed>>
-----------------------------------------------------------------------------
Opened == made > 1 /\ current_ > 1 /\ ~closed

\* Get or NewInternalIterator takes the current version; a Get remembers the file
\* that it read first.
StartRead(r) ==
  /\ Opened /\ reader[r] = NoVersion
  /\ reader' = [reader EXCEPT ![r] = current_]
  /\ \E f \in files_[current_] \union {NoFile} : seek_file' = [seek_file EXCEPT ![r] = f]
  /\ SetHeap(Ref(Heap, current_))
  /\ UNCHANGED <<made, files_made, current_, pending, input_version_, inputs, closed>>

\* UpdateStats: the file has had its seeks, and the version has no other; then Unref.
EndRead(r) ==
  /\ reader[r] # NoVersion
  /\ LET v == reader[r] IN
       \/ SetHeap(Unref(Heap, v))
       \/ /\ seek_file[r] # NoFile /\ to_compact[v] = NoFile
          /\ SetHeap(Unref([Heap EXCEPT !.to_compact[v] = seek_file[r]], v))
  /\ reader' = [reader EXCEPT ![r] = NoVersion] /\ seek_file' = [seek_file EXCEPT ![r] = NoFile]
  /\ UNCHANGED <<made, files_made, current_, pending, input_version_, inputs, closed>>

\* An iterator has read enough: the seek is charged to a file of the current version,
\* whichever version the iterator holds.
RecordReadSample ==
  /\ Opened /\ to_compact[current_] = NoFile
  /\ \E f \in files_[current_] : to_compact' = [to_compact EXCEPT ![current_] = f]
  /\ UNCHANGED <<refs_, files_, next_, prev_, made, dead, refs, files_made, files_dead,
                 current_, pending, reader, seek_file, input_version_, inputs, closed>>

\* Mutant: the inputs' version is not held.
HoldInputs_Not(h) == h

\* input_version_->Ref()
HoldInputs(h) == Ref(h, current_)

\* PickCompaction: a file by size or the one with too many seeks, and those that
\* overlap it.
PickCompaction ==
  /\ Opened /\ input_version_ = NoVersion
  /\ \E f \in (files_[current_] \union {to_compact[current_]}) \ {NoFile} :
       \E overlapping \in SUBSET files_[current_] : inputs' = overlapping \union {f}
  /\ input_version_' = current_
  /\ SetHeap(HoldInputs(Heap))
  /\ UNCHANGED <<made, files_made, current_, pending, reader, seek_file, closed>>

\* ReleaseInputs, or ~Compaction if it was not called; the compaction's own LogAndApply
\* is over by then.
ReleaseInputs ==
  /\ input_version_ # NoVersion /\ pending = NoVersion
  /\ SetHeap(Unref(Heap, input_version_))
  /\ input_version_' = NoVersion /\ inputs' = {}
  /\ UNCHANGED <<made, files_made, current_, pending, reader, seek_file, closed>>

\* ~VersionSet: the background work has ended, iterators have been deleted.
Close ==
  /\ Opened /\ pending = NoVersion /\ input_version_ = NoVersion /\ \A r \in Readers : reader[r] = NoVersion
  /\ SetHeap(Unref(Heap, current_))
  /\ closed' = TRUE
  /\ UNCHANGED <<made, files_made, current_, pending, reader, seek_file, input_version_, inputs>>

Next ==
  \/ Recover \/ LogAndApply \/ Install \/ ManifestFails
  \/ \E r \in Readers : StartRead(r) \/ EndRead(r)
  \/ RecordReadSample \/ PickCompaction \/ ReleaseInputs \/ Close

\* A Get, an iterator and a compaction come to an end, and so does a write.
Fairness ==
  /\ \A r \in Readers : WF_vars(EndRead(r))
  /\ WF_vars(ReleaseInputs) /\ WF_vars(Install \/ ManifestFails)
Spec == Init /\ [][Next]_vars /\ Fairness
-----------------------------------------------------------------------------
Alive == (1..made) \ dead
Holders(v) ==
  Cardinality({r \in Readers : reader[r] = v}) + (IF v = current_ /\ ~closed THEN 1 ELSE 0) + (IF v = input_version_ THEN 1 ELSE 0)

\* A version is counted by those who hold it, and is deleted exactly when
\* nobody does: no version is deleted under a reader, and none is left behind.
VersionsCounted ==
  \A v \in (1..made) \ {pending} : refs_[v] = Holders(v) /\ (v \in dead <=> Holders(v) = 0)

\* A file is counted by the versions that list it, the one that is being
\* written included, and is deleted exactly when there is none.
FilesCounted ==
  \A f \in 1..files_made :
    LET listed == {v \in Alive : f \in files_[v]}
    IN refs[f] = Cardinality(listed) /\ (f \in files_dead <=> listed = {})

\* Pointers that outlive a step point to files that exist: a compaction's inputs,
\* the file a Get remembers, and the file a version has marked.
PointersLive ==
  /\ inputs \cap files_dead = {}
  /\ \A r \in Readers : seek_file[r] \notin files_dead
  /\ \A v \in Alive : to_compact[v] \notin files_dead

\* The list is what AddLiveFiles walks: it has every version that is alive and
\* installed, oldest first, both ways, and the current one at its end.
After(v) == {w \in Alive \ {pending} : w > v}
ListRight ==
  LET nodes == (Alive \ {pending}) \union {dummy_versions_}
      Follow(v) == IF After(v) = {} THEN dummy_versions_ ELSE Min(After(v))
  IN /\ \A v \in nodes : next_[v] = Follow(v) /\ prev_[next_[v]] = v
     /\ ~closed => prev_[dummy_versions_] = current_

\* Nothing is left when the database is closed.
ClosedEmpty == closed => Alive = {} /\ files_dead = 1..files_made

\* A version that is replaced is deleted some time, with the files that are only its.
Replaced(v) == v < current_ /\ v \notin dead
EventuallyFreed == \A v \in Versions : Replaced(v) ~> ~Replaced(v)

-----------------------------------------------------------------------------
(* Proofs. *)

\* There are threads, versions and files, finitely many.
RefsAssumption == IsFiniteSet(Readers) /\ MaxVersions \in Nat \ {0} /\ MaxFiles \in Nat

Nodes == Versions \union {dummy_versions_}
Held == (1..made) \union {NoVersion}
TypeOK ==
  /\ refs_ \in [Versions -> Int] /\ files_ \in [Versions -> SUBSET (1..files_made)]
  /\ next_ \in [Nodes -> Nodes] /\ prev_ \in [Nodes -> Nodes]
  /\ made \in Versions /\ dead \in SUBSET (1..made)
  /\ refs \in [Files -> Int] /\ files_made \in 0..MaxFiles /\ files_dead \in SUBSET (1..files_made)
  /\ to_compact \in [Versions -> Int]
  /\ current_ \in 1..made /\ pending \in {NoVersion, made}
  /\ reader \in [Readers -> Held] /\ seek_file \in [Readers -> Int]
  /\ input_version_ \in Held /\ inputs \in SUBSET (1..files_made) /\ closed \in BOOLEAN

\* The version that is being written is nobody's.
PendingAlone ==
  pending # NoVersion =>
    /\ pending # current_ /\ pending \notin dead /\ refs_[pending] = 0
    /\ input_version_ # pending /\ \A r \in Readers : reader[r] # pending

\* Versions that are not made yet, or are deleted, list nothing.
Blank == \A v \in Versions : v > made \/ v \in dead => files_[v] = {} /\ (v > made => refs_[v] = 0)

\* Nothing is held or written when the database is closed.
AllEnded ==
  closed => /\ made > 1 /\ pending = NoVersion /\ input_version_ = NoVersion
            /\ \A r \in Readers : reader[r] = NoVersion

\* Whoever remembers a file holds a version that lists it.
Remembered ==
  /\ input_version_ = NoVersion => inputs = {}
  /\ input_version_ # NoVersion => inputs \subseteq files_[input_version_]
  /\ \A r \in Readers : seek_file[r] # NoFile => reader[r] # NoVersion /\ seek_file[r] \in files_[reader[r]]
  /\ \A v \in Versions : to_compact[v] # NoFile => to_compact[v] \in files_[v]

IInv == TypeOK /\ PendingAlone /\ Blank /\ AllEnded /\ Remembered /\ VersionsCounted /\ FilesCounted

\* A circular list of S, in ascending order from the dummy on.
Chain(next, prev, S) ==
  \A v \in S :
    /\ next[v] \in S /\ prev[v] \in S /\ prev[next[v]] = v /\ next[prev[v]] = v
    /\ next[v] = dummy_versions_ \/ next[v] > v
    /\ \A w \in S : w > v => next[v] # dummy_versions_ /\ next[v] <= w

\* A version that is not in the list is linked to itself, so that its deletion leaves
\* the list alone.
Linked == (Alive \ {pending}) \union {dummy_versions_}
ListInv ==
  /\ Chain(next_, prev_, Linked)
  /\ \A v \in Versions : v > made \/ v = pending => next_[v] = v /\ prev_[v] = v
  /\ ~closed => prev_[dummy_versions_] = current_

(* What the operations on the heap change. *)
HeapSet ==
  [refs_ : [Versions -> Int], files_ : [Versions -> SUBSET Files], to_compact : [Versions -> Int],
   next_ : [Nodes -> Nodes], prev_ : [Nodes -> Nodes], dead : SUBSET Versions,
   refs : [Files -> Int], files_dead : SUBSET Files]

\* Ref only counts.
LEMMA RefFields ==
  ASSUME NEW h \in HeapSet, NEW v \in Versions
  PROVE  /\ Ref(h, v) \in HeapSet
         /\ Ref(h, v).refs_ = [h.refs_ EXCEPT ![v] = @ + 1]
         /\ Ref(h, v).files_ = h.files_ /\ Ref(h, v).to_compact = h.to_compact
         /\ Ref(h, v).next_ = h.next_ /\ Ref(h, v).prev_ = h.prev_ /\ Ref(h, v).dead = h.dead
         /\ Ref(h, v).refs = h.refs /\ Ref(h, v).files_dead = h.files_dead
<1>1. Ref(h, v) = [h EXCEPT !.refs_[v] = @ + 1]
  BY DEF Ref
<1>2. h.refs_ \in [Versions -> Int] /\ [h.refs_ EXCEPT ![v] = @ + 1] \in [Versions -> Int]
  BY DEF HeapSet
<1> QED
  BY <1>1, <1>2 DEF HeapSet

\* Giving up files counts them down and deletes the last of each.
Fewer(count, fs) == [f \in Files |-> IF f \in fs THEN count[f] - 1 ELSE count[f]]
LEMMA UnrefFilesFields ==
  ASSUME NEW h \in HeapSet, NEW fs \in SUBSET Files
  PROVE  /\ UnrefFiles(h, fs) \in HeapSet
         /\ UnrefFiles(h, fs).refs = Fewer(h.refs, fs)
         /\ UnrefFiles(h, fs).files_dead = h.files_dead \union {f \in fs : h.refs[f] <= 1}
         /\ UnrefFiles(h, fs).refs_ = h.refs_ /\ UnrefFiles(h, fs).files_ = h.files_
         /\ UnrefFiles(h, fs).to_compact = h.to_compact /\ UnrefFiles(h, fs).dead = h.dead
         /\ UnrefFiles(h, fs).next_ = h.next_ /\ UnrefFiles(h, fs).prev_ = h.prev_
<1> DEFINE gone == {f \in fs : h.refs[f] <= 1}
<1>1. UnrefFiles(h, fs) = [h EXCEPT !.refs = Fewer(h.refs, fs), !.files_dead = h.files_dead \union gone]
  BY DEF UnrefFiles, Fewer, HeapSet
<1>2. Fewer(h.refs, fs) \in [Files -> Int] /\ h.files_dead \union gone \in SUBSET Files
  BY DEF HeapSet, Fewer
<1> HIDE DEF gone
<1>3. UnrefFiles(h, fs).files_dead = h.files_dead \union gone
  BY <1>1 DEF HeapSet
<1> QED
  BY <1>1, <1>2, <1>3 DEF HeapSet, gone

\* Unlink joins the neighbours.
LEMMA UnlinkFields ==
  ASSUME NEW h \in HeapSet, NEW v \in Versions
  PROVE  /\ Unlink(h, v) \in HeapSet
         /\ Unlink(h, v).next_ = [h.next_ EXCEPT ![h.prev_[v]] = h.next_[v]]
         /\ Unlink(h, v).prev_ = [h.prev_ EXCEPT ![h.next_[v]] = h.prev_[v]]
         /\ Unlink(h, v).refs_ = h.refs_ /\ Unlink(h, v).files_ = h.files_
         /\ Unlink(h, v).to_compact = h.to_compact /\ Unlink(h, v).dead = h.dead
         /\ Unlink(h, v).refs = h.refs /\ Unlink(h, v).files_dead = h.files_dead
<1> DEFINE g == [h EXCEPT !.next_[h.prev_[v]] = h.next_[v]]
           u == [g EXCEPT !.prev_[g.next_[v]] = g.prev_[v]]
<1>1. v \in Nodes /\ h.prev_[v] \in Nodes /\ h.next_[v] \in Nodes
  BY DEF Nodes, HeapSet
<1>2. /\ g \in HeapSet /\ g.next_ = [h.next_ EXCEPT ![h.prev_[v]] = h.next_[v]] /\ g.prev_ = h.prev_
      /\ g.refs_ = h.refs_ /\ g.files_ = h.files_ /\ g.to_compact = h.to_compact /\ g.dead = h.dead
      /\ g.refs = h.refs /\ g.files_dead = h.files_dead
  BY <1>1 DEF HeapSet
<1>3. g.next_[v] = h.next_[v]
  BY <1>1, <1>2 DEF HeapSet
<1>4. Unlink(h, v) = u
  BY DEF Unlink
<1> HIDE DEF g
<1>5. /\ u \in HeapSet /\ u.prev_ = [g.prev_ EXCEPT ![g.next_[v]] = g.prev_[v]] /\ u.next_ = g.next_
      /\ u.refs_ = g.refs_ /\ u.files_ = g.files_ /\ u.to_compact = g.to_compact /\ u.dead = g.dead
      /\ u.refs = g.refs /\ u.files_dead = g.files_dead
  BY <1>1, <1>2, <1>3 DEF HeapSet
<1> QED
  BY <1>2, <1>3, <1>4, <1>5

\* ~Version: the version leaves the list and gives up its files.
LEMMA DestroyFields ==
  ASSUME NEW h \in HeapSet, NEW v \in Versions
  PROVE  /\ Destroy(h, v) \in HeapSet
         /\ Destroy(h, v).next_ = [h.next_ EXCEPT ![h.prev_[v]] = h.next_[v]]
         /\ Destroy(h, v).prev_ = [h.prev_ EXCEPT ![h.next_[v]] = h.prev_[v]]
         /\ Destroy(h, v).refs_ = h.refs_ /\ Destroy(h, v).files_ = [h.files_ EXCEPT ![v] = {}]
         /\ Destroy(h, v).to_compact = [h.to_compact EXCEPT ![v] = NoFile]
         /\ Destroy(h, v).dead = h.dead \union {v}
         /\ Destroy(h, v).refs = Fewer(h.refs, h.files_[v])
         /\ Destroy(h, v).files_dead = h.files_dead \union {f \in h.files_[v] : h.refs[f] <= 1}
<1> DEFINE u == Unlink(h, v)
           g == UnrefFiles(u, h.files_[v])
           d == [g EXCEPT !.dead = @ \union {v}, !.files_[v] = {}, !.to_compact[v] = NoFile]
<1>1. u \in HeapSet /\ h.files_[v] \in SUBSET Files
  BY UnlinkFields DEF HeapSet
<1>2. /\ g \in HeapSet /\ g.refs = Fewer(u.refs, h.files_[v])
      /\ g.files_dead = u.files_dead \union {f \in h.files_[v] : u.refs[f] <= 1}
      /\ g.refs_ = u.refs_ /\ g.files_ = u.files_ /\ g.to_compact = u.to_compact /\ g.dead = u.dead
      /\ g.next_ = u.next_ /\ g.prev_ = u.prev_
  <2> HIDE DEF u
  <2> QED BY <1>1, UnrefFilesFields
<1>3. Destroy(h, v) = d
  BY DEF Destroy
<1> HIDE DEF g
<1>4. /\ d \in HeapSet /\ d.dead = g.dead \union {v} /\ d.files_ = [g.files_ EXCEPT ![v] = {}]
      /\ d.to_compact = [g.to_compact EXCEPT ![v] = NoFile]
      /\ d.refs_ = g.refs_ /\ d.next_ = g.next_ /\ d.prev_ = g.prev_ /\ d.refs = g.refs
      /\ d.files_dead = g.files_dead
  <2>1. /\ g.dead \union {v} \in SUBSET Versions /\ [g.files_ EXCEPT ![v] = {}] \in [Versions -> SUBSET Files]
        /\ [g.to_compact EXCEPT ![v] = NoFile] \in [Versions -> Int]
    BY <1>2 DEF HeapSet, NoFile
  <2> QED BY <1>2, <2>1 DEF HeapSet
<1>5. /\ u.next_ = [h.next_ EXCEPT ![h.prev_[v]] = h.next_[v]] /\ u.prev_ = [h.prev_ EXCEPT ![h.next_[v]] = h.prev_[v]]
      /\ u.refs_ = h.refs_ /\ u.files_ = h.files_ /\ u.to_compact = h.to_compact /\ u.dead = h.dead
      /\ u.refs = h.refs /\ u.files_dead = h.files_dead
  BY UnlinkFields
<1> HIDE DEF u, d
<1>6. /\ d.files_dead = h.files_dead \union {f \in h.files_[v] : h.refs[f] <= 1}
      /\ d.refs = Fewer(h.refs, h.files_[v])
  BY <1>2, <1>4, <1>5
<1>7. /\ d.next_ = u.next_ /\ d.prev_ = u.prev_ /\ d.refs_ = h.refs_ /\ d.files_ = [h.files_ EXCEPT ![v] = {}]
      /\ d.to_compact = [h.to_compact EXCEPT ![v] = NoFile] /\ d.dead = h.dead \union {v}
  BY <1>2, <1>4, <1>5
<1> QED
  BY <1>3, <1>4, <1>5, <1>6, <1>7

\* Unref destroys the version with its last reference.
LEMMA UnrefFields ==
  ASSUME NEW h \in HeapSet, NEW v \in Versions
  PROVE  /\ Unref(h, v) \in HeapSet
         /\ Unref(h, v).refs_ = [h.refs_ EXCEPT ![v] = @ - 1]
         /\ h.refs_[v] = 1 =>
              /\ Unref(h, v).next_ = [h.next_ EXCEPT ![h.prev_[v]] = h.next_[v]]
              /\ Unref(h, v).prev_ = [h.prev_ EXCEPT ![h.next_[v]] = h.prev_[v]]
              /\ Unref(h, v).files_ = [h.files_ EXCEPT ![v] = {}]
              /\ Unref(h, v).to_compact = [h.to_compact EXCEPT ![v] = NoFile]
              /\ Unref(h, v).dead = h.dead \union {v}
              /\ Unref(h, v).refs = Fewer(h.refs, h.files_[v])
              /\ Unref(h, v).files_dead = h.files_dead \union {f \in h.files_[v] : h.refs[f] <= 1}
         /\ h.refs_[v] # 1 =>
              /\ Unref(h, v).next_ = h.next_ /\ Unref(h, v).prev_ = h.prev_
              /\ Unref(h, v).files_ = h.files_ /\ Unref(h, v).to_compact = h.to_compact
              /\ Unref(h, v).dead = h.dead /\ Unref(h, v).refs = h.refs
              /\ Unref(h, v).files_dead = h.files_dead
<1> DEFINE g == [h EXCEPT !.refs_[v] = @ - 1]
<1>1. /\ g \in HeapSet /\ g.refs_ = [h.refs_ EXCEPT ![v] = @ - 1]
      /\ g.files_ = h.files_ /\ g.to_compact = h.to_compact /\ g.next_ = h.next_ /\ g.prev_ = h.prev_
      /\ g.dead = h.dead /\ g.refs = h.refs /\ g.files_dead = h.files_dead
  BY DEF HeapSet
<1>2. g.refs_[v] = h.refs_[v] - 1 /\ h.refs_[v] \in Int
  BY <1>1 DEF HeapSet
<1>3. Unref(h, v) = IF g.refs_[v] = 0 THEN Destroy(g, v) ELSE g
  BY DEF Unref
<1> HIDE DEF g
<1>4. CASE h.refs_[v] = 1
  <2>1. Unref(h, v) = Destroy(g, v)
    BY <1>2, <1>3, <1>4
  <2> QED BY <1>1, <1>4, <2>1, DestroyFields
<1>5. CASE h.refs_[v] # 1
  <2>1. Unref(h, v) = g
    BY <1>2, <1>3, <1>5
  <2> QED BY <1>1, <1>5, <2>1
<1> QED
  BY <1>4, <1>5
LEMMA HeapFields ==
  ASSUME RefsAssumption, TypeOK
  PROVE  /\ Heap \in HeapSet
         /\ Heap.refs_ = refs_ /\ Heap.files_ = files_ /\ Heap.to_compact = to_compact
         /\ Heap.next_ = next_ /\ Heap.prev_ = prev_ /\ Heap.dead = dead
         /\ Heap.refs = refs /\ Heap.files_dead = files_dead
         /\ 1..made \subseteq Versions /\ 1..files_made \subseteq Files
<1>1. 1..made \subseteq Versions /\ 1..files_made \subseteq Files
  BY DEF RefsAssumption, TypeOK, Versions, Files
<1>2. files_ \in [Versions -> SUBSET Files]
  BY <1>1 DEF TypeOK
<1>3. dead \in SUBSET Versions /\ files_dead \in SUBSET Files
  BY <1>1 DEF TypeOK
<1> QED
  BY <1>1, <1>2, <1>3 DEF Heap, HeapSet, TypeOK

\* What the last reference to a version takes with it.
Deleted(v) ==
  /\ files_' = [files_ EXCEPT ![v] = {}] /\ dead' = dead \union {v}
  /\ refs' = Fewer(refs, files_[v])
  /\ files_dead' = files_dead \union {f \in files_[v] : refs[f] <= 1}
Loses(v) ==
  /\ refs_' = [refs_ EXCEPT ![v] = @ - 1]
  /\ refs_[v] = 1 => Deleted(v)
  /\ refs_[v] # 1 => UNCHANGED <<files_, dead, refs, files_dead>>
Unlinks(v) ==
  /\ next_' = [next_ EXCEPT ![prev_[v]] = next_[v]]
  /\ prev_' = [prev_ EXCEPT ![next_[v]] = prev_[v]]

\* Unref of a version, after its mark was set or not.
LEMMA UnrefEffect ==
  ASSUME RefsAssumption, TypeOK, NEW v \in Versions, NEW marks \in [Versions -> Int],
         SetHeap(Unref([Heap EXCEPT !.to_compact = marks], v))
  PROVE  /\ Loses(v)
         /\ refs_[v] = 1 => to_compact' = [marks EXCEPT ![v] = NoFile] /\ Unlinks(v)
         /\ refs_[v] # 1 => to_compact' = marks /\ UNCHANGED <<next_, prev_>>
<1> DEFINE h == [Heap EXCEPT !.to_compact = marks]
<1>1. /\ h \in HeapSet /\ h.refs_ = refs_ /\ h.files_ = files_ /\ h.to_compact = marks /\ h.next_ = next_
      /\ h.prev_ = prev_ /\ h.dead = dead /\ h.refs = refs /\ h.files_dead = files_dead
  BY HeapFields DEF HeapSet
<1> HIDE DEF h
<1> DEFINE u == Unref(h, v)
<1>2. /\ refs_' = u.refs_ /\ files_' = u.files_ /\ to_compact' = u.to_compact /\ next_' = u.next_
      /\ prev_' = u.prev_ /\ dead' = u.dead /\ refs' = u.refs /\ files_dead' = u.files_dead
  BY DEF SetHeap, h
<1>3. u.refs_ = [refs_ EXCEPT ![v] = @ - 1]
  BY <1>1, UnrefFields
<1>4. CASE refs_[v] = 1
  <2>1. /\ u.next_ = [next_ EXCEPT ![prev_[v]] = next_[v]] /\ u.prev_ = [prev_ EXCEPT ![next_[v]] = prev_[v]]
        /\ u.files_ = [files_ EXCEPT ![v] = {}] /\ u.to_compact = [marks EXCEPT ![v] = NoFile]
        /\ u.dead = dead \union {v} /\ u.refs = Fewer(refs, files_[v])
        /\ u.files_dead = files_dead \union {f \in files_[v] : refs[f] <= 1}
    <3>1. /\ u.next_ = [h.next_ EXCEPT ![h.prev_[v]] = h.next_[v]]
          /\ u.prev_ = [h.prev_ EXCEPT ![h.next_[v]] = h.prev_[v]]
          /\ u.files_ = [h.files_ EXCEPT ![v] = {}] /\ u.to_compact = [h.to_compact EXCEPT ![v] = NoFile]
          /\ u.dead = h.dead \union {v} /\ u.refs = Fewer(h.refs, h.files_[v])
          /\ u.files_dead = h.files_dead \union {f \in h.files_[v] : h.refs[f] <= 1}
      <4>1. h.refs_[v] = 1 BY <1>1, <1>4
      <4> QED BY <1>1, <4>1, UnrefFields
    <3> HIDE DEF u
    <3> QED BY <1>1, <3>1
  <2> HIDE DEF u
  <2> QED BY <1>2, <1>3, <1>4, <2>1 DEF Loses, Deleted, Unlinks
<1>5. CASE refs_[v] # 1
  <2>1. /\ u.next_ = next_ /\ u.prev_ = prev_ /\ u.files_ = files_ /\ u.to_compact = marks
        /\ u.dead = dead /\ u.refs = refs /\ u.files_dead = files_dead
    BY <1>1, <1>5, UnrefFields
  <2> HIDE DEF u
  <2> QED BY <1>2, <1>3, <1>5, <2>1 DEF Loses
<1> QED
  BY <1>4, <1>5

LEMMA PlainUnrefEffect ==
  ASSUME RefsAssumption, TypeOK, NEW v \in Versions, SetHeap(Unref(Heap, v))
  PROVE  /\ Loses(v)
         /\ refs_[v] = 1 => to_compact' = [to_compact EXCEPT ![v] = NoFile] /\ Unlinks(v)
         /\ refs_[v] # 1 => UNCHANGED <<to_compact, next_, prev_>>
<1>1. Heap = [Heap EXCEPT !.to_compact = to_compact] /\ to_compact \in [Versions -> Int]
  BY DEF Heap, TypeOK
<1> QED
  BY <1>1, UnrefEffect

\* Ref of a version.
LEMMA RefEffect ==
  ASSUME RefsAssumption, TypeOK, NEW v \in Versions, SetHeap(Ref(Heap, v))
  PROVE  /\ refs_' = [refs_ EXCEPT ![v] = @ + 1]
         /\ UNCHANGED <<files_, to_compact, next_, prev_, dead, refs, files_dead>>
BY HeapFields, RefFields DEF SetHeap

LEMMA DestroyEffect ==
  ASSUME RefsAssumption, TypeOK, NEW v \in Versions, SetHeap(Destroy(Heap, v))
  PROVE  /\ refs_' = refs_ /\ Deleted(v) /\ Unlinks(v) /\ to_compact' = [to_compact EXCEPT ![v] = NoFile]
<1> DEFINE d == Destroy(Heap, v)
<1>1. /\ refs_' = d.refs_ /\ files_' = d.files_ /\ to_compact' = d.to_compact /\ next_' = d.next_
      /\ prev_' = d.prev_ /\ dead' = d.dead /\ refs' = d.refs /\ files_dead' = d.files_dead
  BY DEF SetHeap
<1>2. /\ d.next_ = [Heap.next_ EXCEPT ![Heap.prev_[v]] = Heap.next_[v]]
      /\ d.prev_ = [Heap.prev_ EXCEPT ![Heap.next_[v]] = Heap.prev_[v]]
      /\ d.refs_ = Heap.refs_ /\ d.files_ = [Heap.files_ EXCEPT ![v] = {}]
      /\ d.to_compact = [Heap.to_compact EXCEPT ![v] = NoFile] /\ d.dead = Heap.dead \union {v}
      /\ d.refs = Fewer(Heap.refs, Heap.files_[v])
      /\ d.files_dead = Heap.files_dead \union {f \in Heap.files_[v] : Heap.refs[f] <= 1}
  BY HeapFields, DestroyFields
<1> HIDE DEF d
<1> QED
  BY <1>1, <1>2, HeapFields DEF Deleted, Unlinks

(* Counting. *)
LEMMA ReaderCount ==
  ASSUME RefsAssumption, NEW f, DOMAIN f = Readers, NEW r \in Readers, NEW x, x # f[r], NEW v
  PROVE  LET g == [f EXCEPT ![r] = x]
             N(h) == Cardinality({q \in Readers : h[q] = v})
         IN /\ N(f) \in Nat /\ N(g) \in Nat
            /\ v = x => N(g) = N(f) + 1
            /\ v = f[r] => N(g) = N(f) - 1
            /\ v # x /\ v # f[r] => N(g) = N(f)
<1> DEFINE g == [f EXCEPT ![r] = x]
           A == {q \in Readers : f[q] = v}
           B == {q \in Readers : g[q] = v}
<1>1. IsFiniteSet(A) /\ IsFiniteSet(B) /\ Cardinality(A) \in Nat /\ Cardinality(B) \in Nat
  BY FS_Subset, FS_CardinalityType DEF RefsAssumption
<1>2. g[r] = x /\ \A q \in Readers : q # r => g[q] = f[q]
  OBVIOUS
<1>3. ASSUME v = x PROVE Cardinality(B) = Cardinality(A) + 1
  <2>1. B = A \union {r} /\ r \notin A BY <1>2, <1>3
  <2> HIDE DEF A, B
  <2> QED BY <1>1, <2>1, FS_AddElement
<1>4. ASSUME v = f[r] PROVE Cardinality(B) = Cardinality(A) - 1
  <2>1. B = A \ {r} /\ r \in A BY <1>2, <1>4
  <2> HIDE DEF A, B
  <2> QED BY <1>1, <2>1, FS_RemoveElement
<1>5. ASSUME v # x, v # f[r] PROVE Cardinality(B) = Cardinality(A)
  <2>1. B = A BY <1>2, <1>5
  <2> QED BY <2>1
<1> QED
  BY <1>1, <1>3, <1>4, <1>5

\* The readers of a version, now and after a step.
ByReaders(v) == Cardinality({r \in Readers : reader[r] = v})

LEMMA HoldersNat ==
  ASSUME RefsAssumption, NEW v
  PROVE  /\ ByReaders(v) \in Nat /\ Holders(v) \in Nat
         /\ Holders(v) = ByReaders(v) + (IF v = current_ /\ ~closed THEN 1 ELSE 0) + (IF v = input_version_ THEN 1 ELSE 0)
<1>1. ByReaders(v) \in Nat
  BY FS_Subset, FS_CardinalityType DEF RefsAssumption, ByReaders
<1>2. Holders(v) = ByReaders(v) + (IF v = current_ /\ ~closed THEN 1 ELSE 0) + (IF v = input_version_ THEN 1 ELSE 0)
  BY DEF Holders, ByReaders
<1> QED
  BY <1>1, <1>2

LEMMA HoldersPrime ==
  ASSUME RefsAssumption, NEW v
  PROVE  /\ ByReaders(v)' \in Nat /\ Holders(v)' \in Nat
         /\ Holders(v)' = ByReaders(v)' + (IF v = current_' /\ ~closed' THEN 1 ELSE 0)
                           + (IF v = input_version_' THEN 1 ELSE 0)
<1>1. ByReaders(v)' \in Nat
  BY FS_Subset, FS_CardinalityType DEF RefsAssumption, ByReaders
<1>2. Holders(v)' = ByReaders(v)' + (IF v = current_' /\ ~closed' THEN 1 ELSE 0)
                    + (IF v = input_version_' THEN 1 ELSE 0)
  BY DEF Holders, ByReaders
<1> QED
  BY <1>1, <1>2

LEMMA ReadersStay ==
  ASSUME UNCHANGED reader, NEW v
  PROVE  ByReaders(v)' = ByReaders(v)
BY DEF ByReaders

LEMMA ReaderChanges ==
  ASSUME RefsAssumption, DOMAIN reader = Readers, NEW r \in Readers, NEW x, x # reader[r],
         reader' = [reader EXCEPT ![r] = x], NEW v
  PROVE  /\ v = x => ByReaders(v)' = ByReaders(v) + 1
         /\ v = reader[r] => ByReaders(v)' = ByReaders(v) - 1
         /\ v # x /\ v # reader[r] => ByReaders(v)' = ByReaders(v)
<1> DEFINE g == [reader EXCEPT ![r] = x]
           N(h) == Cardinality({q \in Readers : h[q] = v})
<1>1. ByReaders(v) = N(reader) /\ ByReaders(v)' = N(g)
  BY DEF ByReaders
<1>2. /\ v = x => N(g) = N(reader) + 1
      /\ v = reader[r] => N(g) = N(reader) - 1
      /\ v # x /\ v # reader[r] => N(g) = N(reader)
  BY ReaderCount
<1> HIDE DEF N, g
<1> QED
  BY <1>1, <1>2

\* Whoever is held has a holder.
LEMMA HeldAlive ==
  ASSUME RefsAssumption, TypeOK, VersionsCounted, PendingAlone, NEW v \in 1..made,
         \/ v = current_ /\ ~closed
         \/ v = input_version_
         \/ \E r \in Readers : reader[r] = v
  PROVE  v # pending /\ v \in Alive /\ refs_[v] >= 1 /\ Holders(v) >= 1
<1>1. Holders(v) >= 1
  <2>1. CASE \E r \in Readers : reader[r] = v
    <3>1. ByReaders(v) # 0
      BY <2>1, FS_Subset, FS_EmptySet DEF RefsAssumption, ByReaders
    <3> QED BY <3>1, HoldersNat
  <2>2. CASE v = current_ /\ ~closed
    BY <2>2, HoldersNat
  <2>3. CASE v = input_version_
    BY <2>3, HoldersNat
  <2> QED BY <2>1, <2>2, <2>3
<1>2. v # pending
  BY DEF PendingAlone, NoVersion, TypeOK
<1>3. refs_[v] = Holders(v) /\ (v \in dead <=> Holders(v) = 0)
  BY <1>2 DEF VersionsCounted
<1> QED
  BY <1>1, <1>2, <1>3 DEF Alive

LEMMA FilesKept ==
  ASSUME FilesCounted, UNCHANGED <<files_, dead, refs, files_dead, made, files_made>>
  PROVE  FilesCounted'
BY DEF FilesCounted, Alive

LEMMA FilesDeleted ==
  ASSUME RefsAssumption, TypeOK, FilesCounted, NEW v \in Alive, Deleted(v),
         UNCHANGED <<made, files_made>>
  PROVE  FilesCounted'
<1> DEFINE L(f) == {w \in Alive : f \in files_[w]}
           M(f) == {w \in Alive' : f \in files_'[w]}
<1> SUFFICES ASSUME NEW f \in 1..files_made
             PROVE  refs'[f] = Cardinality(M(f)) /\ (f \in files_dead' <=> M(f) = {})
  BY DEF FilesCounted
<1>1. refs[f] = Cardinality(L(f)) /\ (f \in files_dead <=> L(f) = {})
  BY DEF FilesCounted
<1>2. v \in 1..made /\ v \in Versions /\ f \in Files
  BY HeapFields DEF Alive
<1>3. IsFiniteSet(L(f)) /\ Cardinality(L(f)) \in Nat
  <2>1. L(f) \in SUBSET (1..made) /\ IsFiniteSet(1..made)
    BY FS_Interval DEF Alive, TypeOK, Versions, RefsAssumption
  <2> HIDE DEF L
  <2> QED BY <2>1, FS_Subset, FS_CardinalityType
<1>4. M(f) = L(f) \ {v}
  <2>1. Alive' = Alive \ {v}
    BY DEF Alive, Deleted
  <2>2. \A w \in Alive \ {v} : files_'[w] = files_[w]
    BY HeapFields DEF Alive, Deleted, TypeOK
  <2> QED BY <2>1, <2>2
<1>5. refs'[f] = IF f \in files_[v] THEN refs[f] - 1 ELSE refs[f]
  BY <1>2 DEF Deleted, Fewer
<1>6. f \in files_dead' <=> f \in files_dead \/ (f \in files_[v] /\ refs[f] <= 1)
  BY DEF Deleted
<1>7. CASE f \in files_[v]
  <2>1. v \in L(f)
    BY <1>7
  <2> HIDE DEF L, M
  <2>2. Cardinality(M(f)) = Cardinality(L(f)) - 1 /\ IsFiniteSet(M(f))
    BY <1>3, <1>4, <2>1, FS_RemoveElement
  <2>3. Cardinality(L(f)) = 1 <=> M(f) = {}
    BY <1>3, <2>2, FS_EmptySet
  <2>4. Cardinality(L(f)) # 0 /\ f \notin files_dead
    BY <1>1, <1>3, <2>1, FS_EmptySet
  <2> QED BY <1>1, <1>3, <1>5, <1>6, <1>7, <2>2, <2>3, <2>4
<1>8. CASE f \notin files_[v]
  <2>1. M(f) = L(f)
    BY <1>4, <1>8
  <2> HIDE DEF L, M
  <2> QED BY <1>1, <1>5, <1>6, <1>8, <2>1
<1> QED
  BY <1>7, <1>8

\* A version loses a reference with one of its holders.
LEMMA VersionLoses ==
  ASSUME RefsAssumption, TypeOK, VersionsCounted, NEW v \in (1..made) \ {pending}, v \in Alive,
         Loses(v), UNCHANGED <<made, pending>>,
         \A w \in (1..made) \ {pending} : Holders(w)' = IF w = v THEN Holders(w) - 1 ELSE Holders(w)
  PROVE  VersionsCounted'
<1> SUFFICES ASSUME NEW w \in (1..made) \ {pending}
             PROVE  refs_'[w] = Holders(w)' /\ (w \in dead' <=> Holders(w)' = 0)
  BY DEF VersionsCounted
<1>1. w \in Versions /\ v \in Versions /\ refs_[w] \in Int
  BY HeapFields DEF TypeOK
<1>2. refs_[w] = Holders(w) /\ (w \in dead <=> Holders(w) = 0) /\ refs_[v] = Holders(v)
  BY DEF VersionsCounted
<1>3. Holders(w) \in Nat /\ Holders(v) \in Nat
  BY HoldersNat
<1>4. refs_'[w] = IF w = v THEN refs_[w] - 1 ELSE refs_[w]
  BY <1>1 DEF Loses, TypeOK
<1>5. dead' = IF refs_[v] = 1 THEN dead \union {v} ELSE dead
  BY DEF Loses, Deleted
<1>6. v \notin dead
  BY DEF Alive
<1> QED
  BY <1>2, <1>3, <1>4, <1>5, <1>6

(* Steps that only take a reference. *)
LEMMA VersionGains ==
  ASSUME RefsAssumption, TypeOK, VersionsCounted, NEW v \in (1..made) \ {pending}, v \in Alive,
         refs_' = [refs_ EXCEPT ![v] = @ + 1], UNCHANGED <<made, pending, dead>>,
         \A w \in (1..made) \ {pending} : Holders(w)' = IF w = v THEN Holders(w) + 1 ELSE Holders(w)
  PROVE  VersionsCounted'
<1> SUFFICES ASSUME NEW w \in (1..made) \ {pending}
             PROVE  refs_'[w] = Holders(w)' /\ (w \in dead' <=> Holders(w)' = 0)
  BY DEF VersionsCounted
<1>1. w \in Versions /\ v \in Versions /\ refs_[w] \in Int
  BY HeapFields DEF TypeOK
<1>2. refs_[w] = Holders(w) /\ (w \in dead <=> Holders(w) = 0)
  BY DEF VersionsCounted
<1>3. Holders(w) \in Nat
  BY HoldersNat
<1>4. refs_'[w] = IF w = v THEN refs_[w] + 1 ELSE refs_[w]
  BY <1>1 DEF TypeOK
<1> QED
  BY <1>2, <1>3, <1>4 DEF Alive

LEMMA StartReadKeeps ==
  ASSUME RefsAssumption, IInv, NEW r \in Readers, StartRead(r)
  PROVE  IInv'
<1>1. /\ Opened /\ reader[r] = NoVersion /\ reader' = [reader EXCEPT ![r] = current_]
      /\ UNCHANGED <<made, files_made, current_, pending, input_version_, inputs, closed>>
  BY DEF StartRead
<1>2. PICK f \in files_[current_] \union {NoFile} : seek_file' = [seek_file EXCEPT ![r] = f]
  BY DEF StartRead
<1>3. current_ \in Versions /\ current_ \in 1..made /\ current_ # NoVersion /\ files_[current_] \subseteq 1..files_made
  BY HeapFields DEF IInv, TypeOK, NoVersion
<1>4. /\ refs_' = [refs_ EXCEPT ![current_] = @ + 1]
      /\ UNCHANGED <<files_, to_compact, next_, prev_, dead, refs, files_dead>>
  BY <1>3, RefEffect DEF StartRead, IInv
<1>5. current_ # pending /\ current_ \in Alive
  BY <1>1, <1>3, HeldAlive DEF IInv, Opened
<1>6. TypeOK'
  BY <1>1, <1>2, <1>3, <1>4 DEF IInv, TypeOK, Held, NoFile
<1>7. PendingAlone'
  <2>1. pending # NoVersion => refs_'[pending] = refs_[pending]
    BY <1>3, <1>4, <1>5, HeapFields DEF IInv, TypeOK
  <2> QED BY <1>1, <1>4, <1>5, <2>1 DEF IInv, PendingAlone, TypeOK
<1>8. Blank'
  BY <1>1, <1>3, <1>4 DEF IInv, Blank, TypeOK
<1>9. AllEnded'
  BY <1>1 DEF Opened, AllEnded
<1>10. Remembered'
  <2>1. \A q \in Readers : seek_file'[q] # NoFile => reader'[q] # NoVersion /\ seek_file'[q] \in files_'[reader'[q]]
    BY <1>1, <1>2, <1>3, <1>4 DEF IInv, Remembered, TypeOK
  <2> QED BY <1>1, <1>4, <2>1 DEF IInv, Remembered
<1>11. VersionsCounted'
  <2>1. ASSUME NEW w \in (1..made) \ {pending}
        PROVE  Holders(w)' = IF w = current_ THEN Holders(w) + 1 ELSE Holders(w)
    <3>1. w # NoVersion BY DEF NoVersion
    <3>2. DOMAIN reader = Readers BY DEF IInv, TypeOK
    <3>3. ByReaders(w)' = IF w = current_ THEN ByReaders(w) + 1 ELSE ByReaders(w)
      BY <1>1, <1>3, <3>1, <3>2, ReaderChanges
    <3> QED BY <1>1, <3>3, HoldersNat, HoldersPrime
  <2> QED BY <1>1, <1>3, <1>4, <1>5, <2>1, VersionGains DEF IInv
<1>12. FilesCounted'
  BY <1>1, <1>4, FilesKept DEF IInv
<1> QED
  BY <1>6, <1>7, <1>8, <1>9, <1>10, <1>11, <1>12 DEF IInv

LEMMA PickCompactionKeeps ==
  ASSUME RefsAssumption, IInv, PickCompaction
  PROVE  IInv'
<1>1. /\ Opened /\ input_version_ = NoVersion /\ input_version_' = current_
      /\ UNCHANGED <<made, files_made, current_, pending, reader, seek_file, closed>>
  BY DEF PickCompaction
<1>2. current_ \in Versions /\ current_ \in 1..made /\ current_ # NoVersion /\ files_[current_] \subseteq 1..files_made
  BY HeapFields DEF IInv, TypeOK, NoVersion
<1>3. inputs' \subseteq files_[current_]
  BY <1>2 DEF PickCompaction, IInv, Remembered
<1>4. /\ refs_' = [refs_ EXCEPT ![current_] = @ + 1]
      /\ UNCHANGED <<files_, to_compact, next_, prev_, dead, refs, files_dead>>
  BY <1>2, RefEffect DEF PickCompaction, HoldInputs, IInv
<1>5. current_ # pending /\ current_ \in Alive
  BY <1>1, <1>2, HeldAlive DEF IInv, Opened
<1>6. TypeOK'
  <2>1. inputs' \in SUBSET (1..files_made)'
    BY <1>1, <1>2, <1>3
  <2> QED BY <1>1, <1>2, <1>4, <2>1 DEF IInv, TypeOK, Held
<1>7. PendingAlone'
  <2>1. pending # NoVersion => refs_'[pending] = refs_[pending]
    BY <1>2, <1>4, <1>5, HeapFields DEF IInv, TypeOK
  <2> QED BY <1>1, <1>4, <1>5, <2>1 DEF IInv, PendingAlone, TypeOK
<1>8. Blank'
  BY <1>1, <1>2, <1>4 DEF IInv, Blank, TypeOK
<1>9. AllEnded'
  BY <1>1 DEF Opened, AllEnded
<1>10. Remembered'
  BY <1>1, <1>2, <1>3, <1>4 DEF IInv, Remembered
<1>11. VersionsCounted'
  <2>1. ASSUME NEW w \in (1..made) \ {pending}
        PROVE  Holders(w)' = IF w = current_ THEN Holders(w) + 1 ELSE Holders(w)
    <3>1. w # NoVersion BY DEF NoVersion
    <3>2. ByReaders(w)' = ByReaders(w) BY <1>1, ReadersStay
    <3> QED BY <1>1, <3>1, <3>2, HoldersNat, HoldersPrime
  <2> QED BY <1>1, <1>2, <1>4, <1>5, <2>1, VersionGains DEF IInv
<1>12. FilesCounted'
  BY <1>1, <1>4, FilesKept DEF IInv
<1> QED
  BY <1>6, <1>7, <1>8, <1>9, <1>10, <1>11, <1>12 DEF IInv

LEMMA RecordReadSampleKeeps ==
  ASSUME RefsAssumption, IInv, RecordReadSample
  PROVE  IInv'
<1>1. UNCHANGED <<refs_, files_, next_, prev_, made, dead, refs, files_made, files_dead,
                  current_, pending, reader, seek_file, input_version_, inputs, closed>>
  BY DEF RecordReadSample
<1>2. PICK f \in files_[current_] : to_compact' = [to_compact EXCEPT ![current_] = f]
  BY DEF RecordReadSample
<1>3. current_ \in Versions /\ f \in Int /\ to_compact' \in [Versions -> Int]
  <2>1. current_ \in Versions
    BY HeapFields DEF IInv, TypeOK
  <2>2. f \in Int
    BY <2>1 DEF IInv, TypeOK
  <2> QED BY <1>2, <2>1, <2>2 DEF IInv, TypeOK
<1>4. TypeOK'
  BY <1>1, <1>3 DEF IInv, TypeOK, Held
<1>5. PendingAlone' /\ Blank' /\ AllEnded'
  BY <1>1 DEF IInv, PendingAlone, Blank, AllEnded
<1>6. Remembered'
  <2>1. \A v \in Versions : to_compact'[v] # NoFile => to_compact'[v] \in files_'[v]
    BY <1>1, <1>2, <1>3 DEF IInv, Remembered, TypeOK
  <2> QED BY <1>1, <2>1 DEF IInv, Remembered
<1>7. VersionsCounted'
  BY <1>1 DEF IInv, VersionsCounted, Holders
<1>8. FilesCounted'
  BY <1>1, FilesKept DEF IInv
<1> QED
  BY <1>4, <1>5, <1>6, <1>7, <1>8 DEF IInv

(* Steps that give up a reference. *)
LEMMA LosesShape ==
  ASSUME RefsAssumption, TypeOK, NEW v \in 1..made, Loses(v), UNCHANGED <<made, files_made>>
  PROVE  /\ refs_' \in [Versions -> Int] /\ files_' \in [Versions -> SUBSET (1..files_made)]
         /\ dead' \in SUBSET (1..made) /\ refs' \in [Files -> Int] /\ files_dead' \in SUBSET (1..files_made)
         /\ \A w \in Versions : w # v => refs_'[w] = refs_[w] /\ files_'[w] = files_[w]
         /\ refs_'[v] = refs_[v] - 1 /\ files_'[v] = (IF refs_[v] = 1 THEN {} ELSE files_[v])
         /\ dead' = (IF refs_[v] = 1 THEN dead \union {v} ELSE dead)
<1>1. v \in Versions
  BY HeapFields
<1>2. refs_' \in [Versions -> Int] /\ refs_'[v] = refs_[v] - 1 /\ \A w \in Versions : w # v => refs_'[w] = refs_[w]
  BY <1>1 DEF TypeOK, Loses
<1>3. CASE refs_[v] = 1
  <2>1. files_' = [files_ EXCEPT ![v] = {}] /\ dead' = dead \union {v} /\ refs' = Fewer(refs, files_[v])
    BY <1>3 DEF Loses, Deleted
  <2>2. files_dead' \in SUBSET (1..files_made)
    BY <1>1, <1>3 DEF Loses, Deleted, TypeOK
  <2>3. refs' \in [Files -> Int]
    BY <2>1 DEF Fewer, TypeOK
  <2>4. files_' \in [Versions -> SUBSET (1..files_made)] /\ files_'[v] = {} /\ \A w \in Versions : w # v => files_'[w] = files_[w]
    BY <1>1, <2>1 DEF TypeOK
  <2>5. dead' \in SUBSET (1..made)
    BY <2>1 DEF TypeOK
  <2> QED BY <1>2, <1>3, <2>1, <2>2, <2>3, <2>4, <2>5
<1>4. CASE refs_[v] # 1
  <2>1. UNCHANGED <<files_, dead, refs, files_dead>>
    BY <1>4 DEF Loses
  <2> QED BY <1>2, <1>4, <2>1 DEF TypeOK
<1> QED
  BY <1>3, <1>4

LEMMA LosesFiles ==
  ASSUME RefsAssumption, TypeOK, FilesCounted, NEW v \in Alive, Loses(v), UNCHANGED <<made, files_made>>
  PROVE  FilesCounted'
<1>1. CASE refs_[v] = 1
  BY <1>1, FilesDeleted DEF Loses
<1>2. CASE refs_[v] # 1
  BY <1>2, FilesKept DEF Loses
<1> QED
  BY <1>1, <1>2

LEMMA UnlinksType ==
  ASSUME TypeOK, NEW v \in Versions, Unlinks(v)
  PROVE  next_' \in [Nodes -> Nodes] /\ prev_' \in [Nodes -> Nodes]
BY DEF TypeOK, Unlinks, Nodes

\* Nobody holds a version that has no holder.
LEMMA NoHolder ==
  ASSUME RefsAssumption, NEW v, Holders(v)' = 0
  PROVE  /\ \A r \in Readers : reader'[r] # v
         /\ v # input_version_' /\ ~(v = current_' /\ ~closed')
<1>1. ByReaders(v)' = 0 /\ v # input_version_' /\ ~(v = current_' /\ ~closed')
  BY HoldersPrime
<1>2. IsFiniteSet({r \in Readers : reader'[r] = v}) /\ Cardinality({r \in Readers : reader'[r] = v}) = 0
  BY <1>1, FS_Subset DEF RefsAssumption, ByReaders
<1> QED
  BY <1>1, <1>2, FS_EmptySet

\* EndRead, ReleaseInputs and Close: nobody remembers more than before.
LEMMA LosesKeeps ==
  ASSUME RefsAssumption, IInv, NEW v \in Alive \ {pending}, Loses(v),
         NEW marks \in [Versions -> Int],
         \A w \in Versions : marks[w] # NoFile => marks[w] \in files_[w],
         refs_[v] = 1 => to_compact' = [marks EXCEPT ![v] = NoFile] /\ Unlinks(v),
         refs_[v] # 1 => to_compact' = marks /\ UNCHANGED <<next_, prev_>>,
         UNCHANGED <<made, files_made, pending, current_>>,
         \A w \in (1..made) \ {pending} : Holders(w)' = IF w = v THEN Holders(w) - 1 ELSE Holders(w),
         reader' \in [Readers -> Held], seek_file' \in [Readers -> Int], closed' \in BOOLEAN,
         \A q \in Readers : reader'[q] \in {reader[q], NoVersion},
         \A q \in Readers : seek_file'[q] # NoFile => reader'[q] = reader[q] /\ seek_file'[q] = seek_file[q],
         \/ UNCHANGED <<input_version_, inputs>>
         \/ input_version_' = NoVersion /\ inputs' = {},
         AllEnded'
  PROVE  IInv'
<1>1. v \in 1..made /\ v \in Versions /\ v # pending /\ v \notin dead
  BY HeapFields DEF IInv, Alive
<1>2. /\ refs_' \in [Versions -> Int] /\ files_' \in [Versions -> SUBSET (1..files_made)]
      /\ dead' \in SUBSET (1..made) /\ refs' \in [Files -> Int] /\ files_dead' \in SUBSET (1..files_made)
      /\ \A w \in Versions : w # v => refs_'[w] = refs_[w] /\ files_'[w] = files_[w]
      /\ refs_'[v] = refs_[v] - 1 /\ files_'[v] = (IF refs_[v] = 1 THEN {} ELSE files_[v])
      /\ dead' = (IF refs_[v] = 1 THEN dead \union {v} ELSE dead)
  BY <1>1, LosesShape DEF IInv
<1>3. /\ next_' \in [Nodes -> Nodes] /\ prev_' \in [Nodes -> Nodes] /\ to_compact' \in [Versions -> Int]
      /\ to_compact'[v] = (IF refs_[v] = 1 THEN NoFile ELSE marks[v])
      /\ \A w \in Versions : w # v => to_compact'[w] = marks[w]
  <2>1. CASE refs_[v] = 1
    <3>1. next_' \in [Nodes -> Nodes] /\ prev_' \in [Nodes -> Nodes]
      BY <1>1, <2>1, UnlinksType DEF IInv
    <3> QED BY <1>1, <2>1, <3>1 DEF NoFile
  <2>2. CASE refs_[v] # 1
    BY <1>1, <2>2 DEF IInv, TypeOK
  <2> QED BY <2>1, <2>2
<1>4. TypeOK'
  BY <1>2, <1>3 DEF IInv, TypeOK, Held, NoVersion
<1>5. PendingAlone'
  <2>1. pending # NoVersion => pending \in Versions /\ refs_'[pending] = refs_[pending]
    BY <1>1, <1>2, HeapFields DEF IInv, TypeOK
  <2> QED BY <1>1, <1>2, <2>1 DEF IInv, PendingAlone
<1>6. Blank'
  BY <1>1, <1>2 DEF IInv, Blank, TypeOK
<1>7. VersionsCounted'
  BY <1>1, VersionLoses DEF IInv
<1>8. FilesCounted'
  BY <1>1, LosesFiles DEF IInv
<1>9. refs_[v] = 1 => Holders(v)' = 0
  <2>1. refs_[v] = Holders(v)
    BY <1>1 DEF IInv, VersionsCounted
  <2>2. Holders(v)' = IF v = v THEN Holders(v) - 1 ELSE Holders(v)
    BY <1>1
  <2> QED BY <2>1, <2>2, HoldersNat
<1>10. Remembered'
  <2>1. refs_[v] = 1 => (\A r \in Readers : reader'[r] # v) /\ v # input_version_'
    BY <1>9, NoHolder
  <2>2. \A q \in Readers : seek_file'[q] # NoFile => reader'[q] # NoVersion /\ seek_file'[q] \in files_'[reader'[q]]
    <3> SUFFICES ASSUME NEW q \in Readers, seek_file'[q] # NoFile
                 PROVE  reader'[q] # NoVersion /\ seek_file'[q] \in files_'[reader'[q]]
      OBVIOUS
    <3>1. reader'[q] = reader[q] /\ seek_file'[q] = seek_file[q] /\ reader[q] # NoVersion /\ seek_file[q] \in files_[reader[q]]
      BY DEF IInv, Remembered
    <3>2. reader[q] \in Versions
      BY <3>1, HeapFields DEF IInv, TypeOK, Held
    <3>3. files_'[reader[q]] = files_[reader[q]]
      BY <1>2, <2>1, <3>1, <3>2
    <3> QED BY <3>1, <3>3
  <2>3. input_version_' # NoVersion => inputs' \subseteq files_'[input_version_']
    <3> SUFFICES ASSUME input_version_' # NoVersion PROVE inputs' \subseteq files_'[input_version_']
      OBVIOUS
    <3>1. input_version_' = input_version_ /\ inputs' = inputs /\ inputs \subseteq files_[input_version_]
      BY DEF IInv, Remembered
    <3>2. input_version_ \in Versions
      BY <3>1, HeapFields DEF IInv, TypeOK, Held
    <3>3. files_'[input_version_] = files_[input_version_]
      BY <1>2, <2>1, <3>1, <3>2
    <3> QED BY <3>1, <3>3
  <2>4. input_version_' = NoVersion => inputs' = {}
    BY DEF IInv, Remembered
  <2>5. \A w \in Versions : to_compact'[w] # NoFile => to_compact'[w] \in files_'[w]
    BY <1>1, <1>2, <1>3
  <2> QED BY <2>2, <2>3, <2>4, <2>5 DEF Remembered
<1> QED
  BY <1>4, <1>5, <1>6, <1>7, <1>8, <1>10 DEF IInv

LEMMA EndReadKeeps ==
  ASSUME RefsAssumption, IInv, NEW r \in Readers, EndRead(r)
  PROVE  IInv'
<1> DEFINE v == reader[r]
<1>1. /\ v # NoVersion /\ reader' = [reader EXCEPT ![r] = NoVersion]
      /\ seek_file' = [seek_file EXCEPT ![r] = NoFile]
      /\ UNCHANGED <<made, files_made, current_, pending, input_version_, inputs, closed>>
  BY DEF EndRead
<1>2. v \in 1..made /\ v \in Versions
  BY <1>1, HeapFields DEF IInv, TypeOK, Held
<1>3. v \in Alive \ {pending}
  BY <1>2, HeldAlive DEF IInv
<1>4. PICK marks \in [Versions -> Int] :
        /\ \A w \in Versions : marks[w] # NoFile => marks[w] \in files_[w]
        /\ SetHeap(Unref([Heap EXCEPT !.to_compact = marks], v))
  <2>1. CASE SetHeap(Unref(Heap, v))
    <3>1. Heap = [Heap EXCEPT !.to_compact = to_compact]
      BY DEF Heap
    <3> QED BY <2>1, <3>1 DEF IInv, TypeOK, Remembered
  <2>2. CASE seek_file[r] # NoFile /\ SetHeap(Unref([Heap EXCEPT !.to_compact[v] = seek_file[r]], v))
    <3> DEFINE marks == [to_compact EXCEPT ![v] = seek_file[r]]
    <3>1. [Heap EXCEPT !.to_compact[v] = seek_file[r]] = [Heap EXCEPT !.to_compact = marks]
      BY DEF Heap
    <3>2. marks \in [Versions -> Int]
      BY <1>2 DEF IInv, TypeOK
    <3>3. \A w \in Versions : marks[w] # NoFile => marks[w] \in files_[w]
      BY <1>2, <2>2 DEF IInv, TypeOK, Remembered
    <3> HIDE DEF marks
    <3> QED BY <2>2, <3>1, <3>2, <3>3
  <2> QED BY <2>1, <2>2 DEF EndRead
<1>5. /\ Loses(v)
      /\ refs_[v] = 1 => to_compact' = [marks EXCEPT ![v] = NoFile] /\ Unlinks(v)
      /\ refs_[v] # 1 => to_compact' = marks /\ UNCHANGED <<next_, prev_>>
  BY <1>2, <1>4, UnrefEffect DEF IInv
<1>6. ASSUME NEW w \in (1..made) \ {pending}
      PROVE  Holders(w)' = IF w = v THEN Holders(w) - 1 ELSE Holders(w)
  <2>1. w # NoVersion BY DEF NoVersion
  <2>2. DOMAIN reader = Readers BY DEF IInv, TypeOK
  <2>3. ByReaders(w)' = IF w = v THEN ByReaders(w) - 1 ELSE ByReaders(w)
    BY <1>1, <2>1, <2>2, ReaderChanges
  <2> QED BY <1>1, <2>3, HoldersNat, HoldersPrime
<1>7. /\ reader' \in [Readers -> Held] /\ seek_file' \in [Readers -> Int] /\ closed' \in BOOLEAN
      /\ \A q \in Readers : reader'[q] \in {reader[q], NoVersion}
      /\ \A q \in Readers : seek_file'[q] # NoFile => reader'[q] = reader[q] /\ seek_file'[q] = seek_file[q]
  BY <1>1 DEF IInv, TypeOK, Held, NoFile
<1>8. AllEnded'
  BY <1>1, <1>7 DEF IInv, AllEnded
<1> HIDE DEF v
<1> QED
  BY <1>1, <1>3, <1>4, <1>5, <1>6, <1>7, <1>8, LosesKeeps

LEMMA ReleaseInputsKeeps ==
  ASSUME RefsAssumption, IInv, ReleaseInputs
  PROVE  IInv'
<1> DEFINE v == input_version_
<1>1. /\ v # NoVersion /\ input_version_' = NoVersion /\ inputs' = {} /\ SetHeap(Unref(Heap, v))
      /\ UNCHANGED <<made, files_made, current_, pending, reader, seek_file, closed>>
  BY DEF ReleaseInputs
<1>2. v \in 1..made /\ v \in Versions
  BY <1>1, HeapFields DEF IInv, TypeOK, Held
<1>3. v \in Alive \ {pending}
  BY <1>2, HeldAlive DEF IInv
<1>4. /\ Loses(v)
      /\ refs_[v] = 1 => to_compact' = [to_compact EXCEPT ![v] = NoFile] /\ Unlinks(v)
      /\ refs_[v] # 1 => to_compact' = to_compact /\ UNCHANGED <<next_, prev_>>
  BY <1>1, <1>2, PlainUnrefEffect DEF IInv
<1>5. ASSUME NEW w \in (1..made) \ {pending}
      PROVE  Holders(w)' = IF w = v THEN Holders(w) - 1 ELSE Holders(w)
  <2>1. w # NoVersion BY DEF NoVersion
  <2>2. ByReaders(w)' = ByReaders(w) BY <1>1, ReadersStay
  <2> QED BY <1>1, <2>1, <2>2, HoldersNat, HoldersPrime
<1>6. /\ reader' \in [Readers -> Held] /\ seek_file' \in [Readers -> Int] /\ closed' \in BOOLEAN
      /\ to_compact \in [Versions -> Int] /\ \A w \in Versions : to_compact[w] # NoFile => to_compact[w] \in files_[w]
  BY <1>1 DEF IInv, TypeOK, Remembered
<1>7. AllEnded'
  BY <1>1 DEF IInv, AllEnded
<1> HIDE DEF v
<1> QED
  BY <1>1, <1>3, <1>4, <1>5, <1>6, <1>7, LosesKeeps

LEMMA CloseKeeps ==
  ASSUME RefsAssumption, IInv, Close
  PROVE  IInv'
<1> DEFINE v == current_
<1>1. /\ Opened /\ pending = NoVersion /\ input_version_ = NoVersion /\ \A r \in Readers : reader[r] = NoVersion
      /\ SetHeap(Unref(Heap, v)) /\ closed' = TRUE
      /\ UNCHANGED <<made, files_made, current_, pending, reader, seek_file, input_version_, inputs>>
  BY DEF Close
<1>2. v \in 1..made /\ v \in Versions
  BY HeapFields DEF IInv, TypeOK
<1>3. v \in Alive \ {pending}
  BY <1>1, <1>2, HeldAlive DEF IInv, Opened
<1>4. /\ Loses(v)
      /\ refs_[v] = 1 => to_compact' = [to_compact EXCEPT ![v] = NoFile] /\ Unlinks(v)
      /\ refs_[v] # 1 => to_compact' = to_compact /\ UNCHANGED <<next_, prev_>>
  BY <1>1, <1>2, PlainUnrefEffect DEF IInv
<1>5. ASSUME NEW w \in (1..made) \ {pending}
      PROVE  Holders(w)' = IF w = v THEN Holders(w) - 1 ELSE Holders(w)
  <2>1. ByReaders(w)' = ByReaders(w) BY <1>1, ReadersStay
  <2> QED BY <1>1, <2>1, HoldersNat, HoldersPrime DEF Opened
<1>6. /\ reader' \in [Readers -> Held] /\ seek_file' \in [Readers -> Int] /\ closed' \in BOOLEAN
      /\ to_compact \in [Versions -> Int] /\ \A w \in Versions : to_compact[w] # NoFile => to_compact[w] \in files_[w]
  BY <1>1 DEF IInv, TypeOK, Remembered
<1>7. AllEnded'
  BY <1>1 DEF Opened, AllEnded
<1> HIDE DEF v
<1> QED
  BY <1>1, <1>3, <1>4, <1>5, <1>6, <1>7, LosesKeeps

LEMMA ManifestFailsKeeps ==
  ASSUME RefsAssumption, IInv, ManifestFails
  PROVE  IInv'
<1> DEFINE v == pending
<1>1. /\ v # NoVersion /\ pending' = NoVersion /\ SetHeap(Destroy(Heap, v))
      /\ UNCHANGED <<made, files_made, current_, reader, seek_file, input_version_, inputs, closed>>
  BY DEF ManifestFails
<1>2. v \in 1..made /\ v \in Versions /\ v = made /\ v \in Alive
  BY <1>1, HeapFields DEF IInv, TypeOK, PendingAlone, Alive, Versions, RefsAssumption
<1>3. /\ refs_' = refs_ /\ Deleted(v) /\ Unlinks(v) /\ to_compact' = [to_compact EXCEPT ![v] = NoFile]
  BY <1>1, <1>2, DestroyEffect DEF IInv
<1>4. /\ files_' \in [Versions -> SUBSET (1..files_made)] /\ files_'[v] = {}
      /\ \A w \in Versions : w # v => files_'[w] = files_[w]
      /\ dead' \in SUBSET (1..made) /\ refs' \in [Files -> Int] /\ files_dead' \in SUBSET (1..files_made)
  <2>1. dead' \in SUBSET (1..made) /\ refs' \in [Files -> Int]
    BY <1>2, <1>3 DEF Deleted, Fewer, IInv, TypeOK
  <2>2. files_dead' \in SUBSET (1..files_made)
    BY <1>2, <1>3 DEF Deleted, IInv, TypeOK
  <2> QED BY <1>2, <1>3, <2>1, <2>2 DEF Deleted, IInv, TypeOK
<1>5. to_compact' \in [Versions -> Int] /\ next_' \in [Nodes -> Nodes] /\ prev_' \in [Nodes -> Nodes]
  BY <1>2, <1>3, UnlinksType DEF IInv, TypeOK, NoFile
<1>6. TypeOK'
  BY <1>1, <1>3, <1>4, <1>5 DEF IInv, TypeOK, Held
<1>7. PendingAlone' /\ AllEnded'
  BY <1>1 DEF PendingAlone, AllEnded, IInv
<1>8. Blank'
  BY <1>1, <1>3, <1>4 DEF IInv, Blank, Deleted
<1>9. Remembered'
  <2>1. \A r \in Readers : reader[r] # v /\ input_version_ # v
    BY <1>1 DEF IInv, PendingAlone
  <2>2. \A q \in Readers : seek_file'[q] # NoFile => reader'[q] # NoVersion /\ seek_file'[q] \in files_'[reader'[q]]
    BY <1>1, <1>4, <2>1, HeapFields DEF IInv, Remembered, TypeOK, Held
  <2>3. input_version_' # NoVersion => inputs' \subseteq files_'[input_version_']
    <3>1. input_version_ # v BY <1>1 DEF IInv, PendingAlone
    <3> QED BY <1>1, <1>4, <3>1, HeapFields DEF IInv, Remembered, TypeOK, Held
  <2>4. \A w \in Versions : to_compact'[w] # NoFile => to_compact'[w] \in files_'[w]
    BY <1>2, <1>3, <1>4 DEF IInv, Remembered, TypeOK
  <2> QED BY <1>1, <2>2, <2>3, <2>4 DEF IInv, Remembered
<1>10. VersionsCounted'
  <2> SUFFICES ASSUME NEW w \in 1..made
               PROVE  refs_'[w] = Holders(w)' /\ (w \in dead' <=> Holders(w)' = 0)
    BY <1>1 DEF VersionsCounted
  <2>1. Holders(w)' = Holders(w)
    BY <1>1 DEF Holders
  <2>2. CASE w = v
    <3>1. ByReaders(v) = 0
      <4>1. {r \in Readers : reader[r] = v} = {}
        BY <1>1 DEF IInv, PendingAlone
      <4> QED BY <4>1, FS_EmptySet DEF ByReaders
    <3>2. Holders(v) = 0
      BY <1>1, <3>1, HoldersNat DEF IInv, PendingAlone
    <3>3. refs_'[v] = 0 /\ v \in dead'
      BY <1>1, <1>3 DEF IInv, PendingAlone, Deleted
    <3> QED BY <2>1, <2>2, <3>2, <3>3
  <2>3. CASE w # v
    <3>1. refs_[w] = Holders(w) /\ (w \in dead <=> Holders(w) = 0)
      BY <2>3 DEF IInv, VersionsCounted
    <3> QED BY <1>3, <2>1, <2>3, <3>1 DEF Deleted
  <2> QED BY <2>2, <2>3
<1>11. FilesCounted'
  BY <1>1, <1>2, <1>3, FilesDeleted DEF IInv
<1> QED
  BY <1>6, <1>7, <1>8, <1>9, <1>10, <1>11 DEF IInv

\* AppendVersion: the new version is current, and the last of the list.
LEMMA AppendEffect ==
  ASSUME RefsAssumption, TypeOK, pending \in Versions, SetHeap(AppendVersion(Heap, pending))
  PROVE  LET u == Unref(Heap, current_)
         IN /\ u \in HeapSet
            /\ refs_' = [u.refs_ EXCEPT ![pending] = @ + 1]
            /\ files_' = u.files_ /\ to_compact' = u.to_compact /\ dead' = u.dead
            /\ refs' = u.refs /\ files_dead' = u.files_dead
            /\ next_' = [[u.next_ EXCEPT ![pending] = dummy_versions_] EXCEPT ![u.prev_[dummy_versions_]] = pending]
            /\ prev_' = [[u.prev_ EXCEPT ![pending] = u.prev_[dummy_versions_]] EXCEPT ![dummy_versions_] = pending]
<1> DEFINE v == pending
           u == Unref(Heap, current_)
           g == Ref(u, v)
           last == g.prev_[dummy_versions_]
           linked == [g EXCEPT !.prev_[v] = last, !.next_[v] = dummy_versions_]
           a == [linked EXCEPT !.next_[last] = v, !.prev_[dummy_versions_] = v]
<1>1. current_ \in Versions
  BY HeapFields DEF TypeOK
<1>2. u \in HeapSet
  BY <1>1, HeapFields, UnrefFields
<1> HIDE DEF u
<1>3. /\ g \in HeapSet /\ g.refs_ = [u.refs_ EXCEPT ![v] = @ + 1] /\ g.files_ = u.files_
      /\ g.to_compact = u.to_compact /\ g.next_ = u.next_ /\ g.prev_ = u.prev_ /\ g.dead = u.dead
      /\ g.refs = u.refs /\ g.files_dead = u.files_dead
  BY <1>2, RefFields
<1> HIDE DEF g
<1>4. last \in Nodes /\ v \in Nodes /\ dummy_versions_ \in Nodes /\ last = u.prev_[dummy_versions_]
  BY <1>3 DEF HeapSet, Nodes
<1> HIDE DEF last
<1>5. /\ linked \in HeapSet /\ linked.prev_ = [g.prev_ EXCEPT ![v] = last]
      /\ linked.next_ = [g.next_ EXCEPT ![v] = dummy_versions_]
      /\ linked.refs_ = g.refs_ /\ linked.files_ = g.files_ /\ linked.to_compact = g.to_compact
      /\ linked.dead = g.dead /\ linked.refs = g.refs /\ linked.files_dead = g.files_dead
  <2>1. [g.prev_ EXCEPT ![v] = last] \in [Nodes -> Nodes] /\ [g.next_ EXCEPT ![v] = dummy_versions_] \in [Nodes -> Nodes]
    BY <1>3, <1>4 DEF HeapSet
  <2> QED BY <1>3, <2>1 DEF HeapSet
<1>6. a = AppendVersion(Heap, v)
  BY DEF AppendVersion, Release, a, linked, last, g, u
<1> HIDE DEF linked
<1>7. /\ a.prev_ = [linked.prev_ EXCEPT ![dummy_versions_] = v] /\ a.next_ = [linked.next_ EXCEPT ![last] = v]
      /\ a.refs_ = linked.refs_ /\ a.files_ = linked.files_ /\ a.to_compact = linked.to_compact
      /\ a.dead = linked.dead /\ a.refs = linked.refs /\ a.files_dead = linked.files_dead
  BY <1>5 DEF HeapSet
<1> HIDE DEF a
<1>8. /\ refs_' = a.refs_ /\ files_' = a.files_ /\ to_compact' = a.to_compact /\ next_' = a.next_
      /\ prev_' = a.prev_ /\ dead' = a.dead /\ refs' = a.refs /\ files_dead' = a.files_dead
  BY <1>6 DEF SetHeap
<1>9. /\ refs_' = [u.refs_ EXCEPT ![v] = @ + 1]
      /\ files_' = u.files_ /\ to_compact' = u.to_compact /\ dead' = u.dead
      /\ refs' = u.refs /\ files_dead' = u.files_dead
  BY <1>3, <1>5, <1>7, <1>8
<1>10. /\ next_' = [[u.next_ EXCEPT ![v] = dummy_versions_] EXCEPT ![last] = v]
       /\ prev_' = [[u.prev_ EXCEPT ![v] = last] EXCEPT ![dummy_versions_] = v]
  BY <1>3, <1>5, <1>7, <1>8
<1> QED
  BY <1>2, <1>4, <1>9, <1>10 DEF u

LEMMA InstallKeeps ==
  ASSUME RefsAssumption, IInv, Install, NEW c, c = current_, NEW v, v = pending
  PROVE  IInv'
<1> DEFINE u == Unref(Heap, c)
<1>1. /\ v # NoVersion /\ current_' = v /\ pending' = NoVersion /\ SetHeap(AppendVersion(Heap, pending))
      /\ UNCHANGED <<made, files_made, reader, seek_file, input_version_, inputs, closed>>
  BY DEF Install
<1>2. v \in 1..made /\ v \in Versions /\ v = made /\ c \in 1..made /\ c \in Versions /\ c # v
  BY <1>1, HeapFields DEF IInv, TypeOK, PendingAlone, Versions, RefsAssumption
<1>3. ~closed
  BY <1>1 DEF IInv, AllEnded
<1>4. c \in Alive /\ refs_[c] >= 1
  BY <1>2, <1>3, HeldAlive DEF IInv
<1>5. /\ u \in HeapSet
      /\ refs_' = [u.refs_ EXCEPT ![v] = @ + 1]
      /\ files_' = u.files_ /\ to_compact' = u.to_compact /\ dead' = u.dead
      /\ refs' = u.refs /\ files_dead' = u.files_dead
      /\ next_' = [[u.next_ EXCEPT ![v] = dummy_versions_] EXCEPT ![u.prev_[dummy_versions_]] = v]
      /\ prev_' = [[u.prev_ EXCEPT ![v] = u.prev_[dummy_versions_]] EXCEPT ![dummy_versions_] = v]
  BY <1>1, <1>2, AppendEffect DEF IInv
<1>6. u.refs_ = [refs_ EXCEPT ![c] = @ - 1]
  <2>1. Heap \in HeapSet /\ Heap.refs_ = refs_ BY HeapFields DEF IInv
  <2>2. u.refs_ = [Heap.refs_ EXCEPT ![c] = @ - 1] BY <1>2, <2>1, UnrefFields
  <2> HIDE DEF u
  <2> QED BY <2>1, <2>2
<1>7. refs_[c] = 1 => Deleted(c) /\ to_compact' = [to_compact EXCEPT ![c] = NoFile]
  <2>1. refs_[c] = 1 =>
          /\ u.files_ = [files_ EXCEPT ![c] = {}] /\ u.to_compact = [to_compact EXCEPT ![c] = NoFile]
          /\ u.dead = dead \union {c} /\ u.refs = Fewer(refs, files_[c])
          /\ u.files_dead = files_dead \union {f \in files_[c] : refs[f] <= 1}
    <3> SUFFICES ASSUME refs_[c] = 1 PROVE
          /\ u.files_ = [files_ EXCEPT ![c] = {}] /\ u.to_compact = [to_compact EXCEPT ![c] = NoFile]
          /\ u.dead = dead \union {c} /\ u.refs = Fewer(refs, files_[c])
          /\ u.files_dead = files_dead \union {f \in files_[c] : refs[f] <= 1}
      OBVIOUS
    <3>1. /\ u.files_ = [Heap.files_ EXCEPT ![c] = {}] /\ u.to_compact = [Heap.to_compact EXCEPT ![c] = NoFile]
          /\ u.dead = Heap.dead \union {c} /\ u.refs = Fewer(Heap.refs, Heap.files_[c])
          /\ u.files_dead = Heap.files_dead \union {f \in Heap.files_[c] : Heap.refs[f] <= 1}
      <4>1. Heap \in HeapSet /\ Heap.refs_[c] = 1 BY HeapFields DEF IInv
      <4> QED BY <1>2, <4>1, UnrefFields
    <3> HIDE DEF u
    <3> QED BY <3>1, HeapFields DEF IInv
  <2> HIDE DEF u
  <2> QED BY <1>5, <2>1 DEF Deleted
<1>8. refs_[c] # 1 => UNCHANGED <<files_, dead, refs, files_dead, to_compact>>
  <2>1. refs_[c] # 1 => u.files_ = files_ /\ u.dead = dead /\ u.refs = refs /\ u.files_dead = files_dead /\ u.to_compact = to_compact
    <3> SUFFICES ASSUME refs_[c] # 1
                 PROVE  u.files_ = files_ /\ u.dead = dead /\ u.refs = refs /\ u.files_dead = files_dead /\ u.to_compact = to_compact
      OBVIOUS
    <3>1. Heap \in HeapSet /\ Heap.refs_[c] # 1 BY HeapFields DEF IInv
    <3>2. /\ u.files_ = Heap.files_ /\ u.dead = Heap.dead /\ u.refs = Heap.refs /\ u.files_dead = Heap.files_dead
          /\ u.to_compact = Heap.to_compact
      BY <1>2, <3>1, UnrefFields
    <3> HIDE DEF u
    <3> QED BY <3>2, HeapFields DEF IInv
  <2> HIDE DEF u
  <2> QED BY <1>5, <2>1
<1> HIDE DEF u
<1>9. /\ refs_' \in [Versions -> Int] /\ refs_'[c] = refs_[c] - 1 /\ refs_'[v] = 1
      /\ \A w \in Versions : w # c /\ w # v => refs_'[w] = refs_[w]
  <2>1. refs_[v] = 0 BY <1>1 DEF IInv, PendingAlone
  <2>2. refs_' = [[refs_ EXCEPT ![c] = @ - 1] EXCEPT ![v] = @ + 1] BY <1>5, <1>6
  <2>3. refs_ \in [Versions -> Int] BY DEF IInv, TypeOK
  <2> QED BY <1>2, <2>1, <2>2, <2>3
<1>10. /\ files_' \in [Versions -> SUBSET (1..files_made)]
       /\ \A w \in Versions : w # c => files_'[w] = files_[w]
       /\ files_'[c] = (IF refs_[c] = 1 THEN {} ELSE files_[c])
       /\ dead' = (IF refs_[c] = 1 THEN dead \union {c} ELSE dead)
       /\ refs' \in [Files -> Int] /\ files_dead' \in SUBSET (1..files_made)
       /\ to_compact' \in [Versions -> Int] /\ to_compact'[c] = (IF refs_[c] = 1 THEN NoFile ELSE to_compact[c])
       /\ \A w \in Versions : w # c => to_compact'[w] = to_compact[w]
  <2>1. CASE refs_[c] = 1
    <3>1. refs' \in [Files -> Int]
      BY <1>7, <2>1 DEF Deleted, Fewer, IInv, TypeOK
    <3>2. files_dead' \in SUBSET (1..files_made)
      BY <1>2, <1>7, <2>1 DEF Deleted, IInv, TypeOK
    <3> QED BY <1>2, <1>7, <2>1, <3>1, <3>2 DEF Deleted, IInv, TypeOK, NoFile
  <2>2. CASE refs_[c] # 1
    BY <1>2, <1>8, <2>2 DEF IInv, TypeOK
  <2> QED BY <2>1, <2>2
<1>11. next_' \in [Nodes -> Nodes] /\ prev_' \in [Nodes -> Nodes]
  <2>1. u.next_ \in [Nodes -> Nodes] /\ u.prev_ \in [Nodes -> Nodes]
    BY <1>5 DEF HeapSet
  <2> QED BY <1>2, <1>5, <2>1 DEF Nodes
<1>12. TypeOK'
  <2>1. dead' \in SUBSET (1..made)
    BY <1>2, <1>10 DEF IInv, TypeOK
  <2> QED BY <1>1, <1>2, <1>9, <1>10, <1>11, <2>1 DEF IInv, TypeOK, Held
<1>13. PendingAlone' /\ AllEnded'
  BY <1>1, <1>3 DEF PendingAlone, AllEnded
<1>14. Blank'
  BY <1>1, <1>2, <1>9, <1>10 DEF IInv, Blank, TypeOK
<1>15. ASSUME NEW w \in 1..made
       PROVE  Holders(w)' = IF w = c THEN Holders(w) - 1 ELSE IF w = v THEN 1 ELSE Holders(w)
  <2>1. ByReaders(w)' = ByReaders(w) BY <1>1, ReadersStay
  <2>2. w = v => ByReaders(w) = 0 /\ w # input_version_
    <3>1. {r \in Readers : reader[r] = v} = {} /\ v # input_version_
      BY <1>1 DEF IInv, PendingAlone
    <3> QED BY <3>1, FS_EmptySet DEF ByReaders
  <2> QED BY <1>1, <1>2, <1>3, <2>1, <2>2, HoldersNat, HoldersPrime
<1>16. VersionsCounted'
  <2> SUFFICES ASSUME NEW w \in 1..made
               PROVE  refs_'[w] = Holders(w)' /\ (w \in dead' <=> Holders(w)' = 0)
    BY <1>1 DEF VersionsCounted
  <2>1. w \in Versions
    BY HeapFields DEF IInv
  <2>2. w # v => refs_[w] = Holders(w) /\ (w \in dead <=> Holders(w) = 0)
    BY DEF IInv, VersionsCounted
  <2>3. v \notin dead
    BY <1>1 DEF IInv, PendingAlone
  <2>4. CASE w = v
    <3>1. Holders(w)' = 1 BY <1>2, <1>15, <2>4
    <3> QED BY <1>2, <1>9, <1>10, <2>3, <2>4, <3>1
  <2>5. CASE w = c
    <3>1. Holders(w)' = Holders(w) - 1 BY <1>15, <2>5
    <3>2. refs_[w] = Holders(w) /\ w \notin dead BY <1>2, <1>4, <2>2, <2>5 DEF Alive
    <3> QED BY <1>2, <1>9, <1>10, <2>5, <3>1, <3>2, HoldersNat
  <2>6. CASE w # v /\ w # c
    <3>1. Holders(w)' = Holders(w) BY <1>15, <2>6
    <3> QED BY <1>9, <1>10, <2>1, <2>2, <2>6, <3>1
  <2> QED BY <2>4, <2>5, <2>6
<1>17. FilesCounted'
  <2>1. CASE refs_[c] = 1
    BY <1>1, <1>4, <1>7, <2>1, FilesDeleted DEF IInv
  <2>2. CASE refs_[c] # 1
    BY <1>1, <1>8, <2>2, FilesKept DEF IInv
  <2> QED BY <2>1, <2>2
<1>18. refs_[c] = 1 => (\A r \in Readers : reader[r] # c) /\ c # input_version_
  <2>1. refs_[c] = Holders(c)
    BY <1>2 DEF IInv, VersionsCounted
  <2>2. Holders(c)' = Holders(c) - 1
    BY <1>2, <1>15
  <2> QED BY <1>1, <2>1, <2>2, NoHolder
<1>19. Remembered'
  <2>1. \A q \in Readers : seek_file'[q] # NoFile => reader'[q] # NoVersion /\ seek_file'[q] \in files_'[reader'[q]]
    <3> SUFFICES ASSUME NEW q \in Readers, seek_file[q] # NoFile
                 PROVE  reader[q] # NoVersion /\ seek_file[q] \in files_'[reader[q]]
      BY <1>1
    <3>1. reader[q] # NoVersion /\ seek_file[q] \in files_[reader[q]]
      BY DEF IInv, Remembered
    <3>2. reader[q] \in Versions
      BY <3>1, HeapFields DEF IInv, TypeOK, Held
    <3> QED BY <1>10, <1>18, <3>1, <3>2
  <2>2. input_version_ # NoVersion => inputs \subseteq files_'[input_version_]
    <3> SUFFICES ASSUME input_version_ # NoVersion PROVE inputs \subseteq files_'[input_version_]
      OBVIOUS
    <3>1. inputs \subseteq files_[input_version_] /\ input_version_ \in Versions
      BY HeapFields DEF IInv, Remembered, TypeOK, Held
    <3> QED BY <1>10, <1>18, <3>1
  <2>3. \A w \in Versions : to_compact'[w] # NoFile => to_compact'[w] \in files_'[w]
    BY <1>2, <1>10 DEF IInv, Remembered
  <2> QED BY <1>1, <2>1, <2>2, <2>3 DEF IInv, Remembered
<1> QED
  BY <1>12, <1>13, <1>14, <1>16, <1>17, <1>19 DEF IInv

(* The Builder: what is left of its own references, and the version it saved. *)
LEMMA MaybeAddFields ==
  ASSUME NEW h \in HeapSet, NEW fs \in SUBSET Files
  PROVE  /\ MaybeAddFile(h, fs) \in HeapSet
         /\ MaybeAddFile(h, fs).refs = [f \in Files |-> IF f \in fs THEN h.refs[f] + 1 ELSE h.refs[f]]
         /\ MaybeAddFile(h, fs).refs_ = h.refs_ /\ MaybeAddFile(h, fs).files_ = h.files_
         /\ MaybeAddFile(h, fs).to_compact = h.to_compact /\ MaybeAddFile(h, fs).dead = h.dead
         /\ MaybeAddFile(h, fs).next_ = h.next_ /\ MaybeAddFile(h, fs).prev_ = h.prev_
         /\ MaybeAddFile(h, fs).files_dead = h.files_dead
<1> DEFINE counts == [f \in Files |-> IF f \in fs THEN h.refs[f] + 1 ELSE h.refs[f]]
<1>1. MaybeAddFile(h, fs) = [h EXCEPT !.refs = counts]
  BY DEF MaybeAddFile, HeapSet
<1>2. counts \in [Files -> Int]
  BY DEF HeapSet
<1> HIDE DEF counts
<1>3. MaybeAddFile(h, fs).refs = counts
  BY <1>1 DEF HeapSet
<1> QED
  BY <1>1, <1>2, <1>3 DEF HeapSet, counts

LEMMA BuildEffect ==
  ASSUME RefsAssumption, TypeOK, NEW c, c = current_, refs_[c] >= 1,
         NEW added \in SUBSET Files, NEW deleted, Build(added, deleted),
         NEW saved, saved = (files_[c] \union added) \ deleted,
         NEW n, n = made + 1
  PROVE  /\ n \in Versions /\ made' = n /\ files_made' = files_made + Cardinality(added)
         /\ refs_' = refs_ /\ files_' = [files_ EXCEPT ![n] = saved]
         /\ UNCHANGED <<to_compact, next_, prev_, dead>>
         /\ files_dead' = files_dead \union (added \ saved)
         /\ refs' = [f \in Files |-> IF f \in added THEN (IF f \in saved THEN 1 ELSE 0)
                                     ELSE IF f \in saved THEN refs[f] + 1 ELSE refs[f]]
<1> DEFINE based == Ref(Heap, c)
           ones == [f \in Files |-> IF f \in added THEN 1 ELSE refs[f]]
           applied == [based EXCEPT !.refs = [f \in Files |-> IF f \in added THEN 1 ELSE @[f]]]
           noted == MaybeAddFile(applied, saved)
           done == UnrefFiles(noted, added)
           put == [done EXCEPT !.files_[n] = saved]
           u == Unref(put, c)
<1>1. c \in Versions /\ n \in Versions /\ made < MaxVersions /\ made' = n
      /\ files_made' = files_made + Cardinality(added) /\ SetHeap(u)
  <2>1. c \in Versions BY HeapFields DEF TypeOK
  <2>2. made < MaxVersions /\ made' = n /\ files_made' = files_made + Cardinality(added)
    BY DEF Build
  <2>3. n \in Versions BY <2>2 DEF TypeOK, Versions, RefsAssumption
  <2>4. SetHeap(u)
    BY DEF Build
  <2> QED BY <2>1, <2>2, <2>3, <2>4
<1>2. saved \in SUBSET Files
  BY <1>1, HeapFields DEF TypeOK
<1>3. /\ based \in HeapSet /\ based.refs_ = [refs_ EXCEPT ![c] = @ + 1] /\ based.files_ = files_
      /\ based.to_compact = to_compact /\ based.next_ = next_ /\ based.prev_ = prev_ /\ based.dead = dead
      /\ based.refs = refs /\ based.files_dead = files_dead
  BY <1>1, HeapFields, RefFields
<1> HIDE DEF based
<1>4. /\ applied \in HeapSet /\ applied.refs = ones /\ applied.refs_ = based.refs_
      /\ applied.files_ = based.files_ /\ applied.to_compact = based.to_compact
      /\ applied.next_ = based.next_ /\ applied.prev_ = based.prev_ /\ applied.dead = based.dead
      /\ applied.files_dead = based.files_dead
  <2>1. applied = [based EXCEPT !.refs = ones]
    BY <1>3 DEF HeapSet
  <2>2. ones \in [Files -> Int]
    BY DEF TypeOK
  <2> HIDE DEF ones, applied
  <2> QED BY <1>3, <2>1, <2>2 DEF HeapSet
<1> HIDE DEF applied
<1>5. /\ noted \in HeapSet /\ noted.refs = [f \in Files |-> IF f \in saved THEN ones[f] + 1 ELSE ones[f]]
      /\ noted.refs_ = applied.refs_
      /\ noted.files_ = applied.files_ /\ noted.to_compact = applied.to_compact
      /\ noted.next_ = applied.next_ /\ noted.prev_ = applied.prev_ /\ noted.dead = applied.dead
      /\ noted.files_dead = applied.files_dead
  <2> HIDE DEF ones
  <2>1. /\ noted \in HeapSet
        /\ noted.refs = [f \in Files |-> IF f \in saved THEN applied.refs[f] + 1 ELSE applied.refs[f]]
        /\ noted.refs_ = applied.refs_
        /\ noted.files_ = applied.files_ /\ noted.to_compact = applied.to_compact
        /\ noted.next_ = applied.next_ /\ noted.prev_ = applied.prev_ /\ noted.dead = applied.dead
        /\ noted.files_dead = applied.files_dead
    BY <1>2, <1>4, MaybeAddFields
  <2> QED BY <1>4, <2>1
<1> HIDE DEF noted
<1>6. /\ done \in HeapSet /\ done.refs = Fewer(noted.refs, added) /\ done.refs_ = noted.refs_
      /\ done.files_dead = noted.files_dead \union {f \in added : noted.refs[f] <= 1}
      /\ done.files_ = noted.files_ /\ done.to_compact = noted.to_compact
      /\ done.next_ = noted.next_ /\ done.prev_ = noted.prev_ /\ done.dead = noted.dead
  BY <1>5, UnrefFilesFields
<1> HIDE DEF done
<1>7. /\ put \in HeapSet /\ put.files_ = [done.files_ EXCEPT ![n] = saved] /\ put.refs_ = done.refs_
      /\ put.files_dead = done.files_dead /\ put.refs = done.refs
      /\ put.to_compact = done.to_compact
      /\ put.next_ = done.next_ /\ put.prev_ = done.prev_ /\ put.dead = done.dead
  <2>1. [done.files_ EXCEPT ![n] = saved] \in [Versions -> SUBSET Files]
    BY <1>1, <1>2, <1>6 DEF HeapSet
  <2> QED BY <1>6, <2>1 DEF HeapSet
<1> HIDE DEF put
<1>8. put.refs_ = [refs_ EXCEPT ![c] = @ + 1]
  BY <1>3, <1>4, <1>5, <1>6, <1>7
<1>9. put.refs_[c] # 1 /\ [put.refs_ EXCEPT ![c] = @ - 1] = refs_
  <2>1. refs_ \in [Versions -> Int] BY DEF TypeOK
  <2>2. put.refs_[c] = refs_[c] + 1 BY <1>1, <1>8, <2>1
  <2>3. [put.refs_ EXCEPT ![c] = @ - 1] \in [Versions -> Int]
    BY <1>1, <1>8, <2>1
  <2>4. \A w \in Versions : [put.refs_ EXCEPT ![c] = @ - 1][w] = refs_[w]
    BY <1>1, <1>8, <2>1
  <2>5. put.refs_[c] # 1
    BY <1>1, <2>1, <2>2
  <2> QED BY <2>1, <2>3, <2>4, <2>5
<1>10. /\ u.refs_ = [put.refs_ EXCEPT ![c] = @ - 1] /\ u.files_ = put.files_ /\ u.to_compact = put.to_compact
       /\ u.next_ = put.next_ /\ u.prev_ = put.prev_ /\ u.dead = put.dead /\ u.refs = put.refs
       /\ u.files_dead = put.files_dead
  <2>1. put \in HeapSet /\ c \in Versions /\ put.refs_[c] # 1 BY <1>1, <1>7, <1>9
  <2>2. u.refs_ = [put.refs_ EXCEPT ![c] = @ - 1] BY <2>1, UnrefFields
  <2>3. /\ u.files_ = put.files_ /\ u.to_compact = put.to_compact
        /\ u.next_ = put.next_ /\ u.prev_ = put.prev_ /\ u.dead = put.dead /\ u.refs = put.refs
        /\ u.files_dead = put.files_dead
    BY <2>1, UnrefFields
  <2> QED BY <2>2, <2>3
<1> HIDE DEF u
<1>11. /\ refs_' = u.refs_ /\ files_' = u.files_ /\ to_compact' = u.to_compact /\ next_' = u.next_
       /\ prev_' = u.prev_ /\ dead' = u.dead /\ refs' = u.refs /\ files_dead' = u.files_dead
  BY <1>1 DEF SetHeap
<1>12. /\ refs_' = refs_ /\ files_' = [files_ EXCEPT ![n] = saved] /\ UNCHANGED <<to_compact, next_, prev_, dead>>
  BY <1>3, <1>4, <1>5, <1>6, <1>7, <1>9, <1>10, <1>11
<1>13. ones \in [Files -> Int]
  BY DEF TypeOK
<1>14. \A f \in added : noted.refs[f] = IF f \in saved THEN 2 ELSE 1
  BY <1>5
<1>15. files_dead' = files_dead \union {f \in added : noted.refs[f] <= 1}
  BY <1>3, <1>4, <1>5, <1>6, <1>7, <1>10, <1>11
<1>16. files_dead' = files_dead \union (added \ saved)
  BY <1>14, <1>15
<1>17. refs' = Fewer(noted.refs, added)
  BY <1>6, <1>7, <1>10, <1>11
<1>18. refs' = [f \in Files |-> IF f \in added THEN (IF f \in saved THEN 1 ELSE 0)
                                ELSE IF f \in saved THEN refs[f] + 1 ELSE refs[f]]
  <2>1. ASSUME NEW f \in Files
        PROVE  (IF f \in added THEN noted.refs[f] - 1 ELSE noted.refs[f])
               = IF f \in added THEN (IF f \in saved THEN 1 ELSE 0) ELSE IF f \in saved THEN refs[f] + 1 ELSE refs[f]
    <3>1. CASE f \in added BY <1>14, <3>1
    <3>2. CASE f \notin added BY <1>5, <3>2
    <3> QED BY <3>1, <3>2
  <2> QED BY <1>17, <2>1 DEF Fewer
<1> QED
  BY <1>1, <1>12, <1>16, <1>18

\* Recover and LogAndApply: the version that is built lists the files that are kept and
\* those that are new.
LEMMA BuildKeeps ==
  ASSUME RefsAssumption, IInv, pending = NoVersion, ~closed,
         NEW added \in NewFiles, NEW deleted \in SUBSET (files_[current_] \union added),
         Build(added, deleted), pending' = made',
         UNCHANGED <<current_, reader, seek_file, input_version_, inputs, closed>>,
         NEW c, c = current_, NEW n, n = made + 1
  PROVE  IInv'
<1> DEFINE saved == (files_[c] \union added) \ deleted
<1>1. c \in 1..made /\ c \in Versions /\ c # n /\ n \notin 1..made /\ n # NoVersion /\ made \in Nat \ {0}
  BY HeapFields DEF IInv, TypeOK, Versions, RefsAssumption, NoVersion
<1>2. c \in Alive /\ refs_[c] >= 1
  BY <1>1, HeldAlive DEF IInv
<1>3. PICK k \in 0..(MaxFiles - files_made) : added = (files_made + 1)..(files_made + k)
  BY DEF NewFiles
<1>4. files_made \in Nat /\ MaxFiles \in Nat /\ k \in Nat /\ files_made + k <= MaxFiles
  BY <1>3 DEF IInv, TypeOK, RefsAssumption
<1>5. Cardinality(added) = k
  <2>1. Cardinality((files_made + 1)..(files_made + k))
        = IF files_made + 1 > files_made + k THEN 0 ELSE (files_made + k) - (files_made + 1) + 1
    <3>1. files_made + 1 \in Int /\ files_made + k \in Int BY <1>4
    <3> QED BY <3>1, FS_Interval, Zenon
  <2>2. (IF files_made + 1 > files_made + k THEN 0 ELSE (files_made + k) - (files_made + 1) + 1) = k
    BY <1>4
  <2> QED BY <1>3, <2>1, <2>2
<1>6. added \in SUBSET Files /\ added \cap (1..files_made) = {} /\ 1..(files_made + k) = (1..files_made) \union added
  BY <1>3, <1>4 DEF Files
<1>7. /\ n \in Versions /\ made' = n /\ files_made' = files_made + k
      /\ refs_' = refs_ /\ files_' = [files_ EXCEPT ![n] = saved]
      /\ UNCHANGED <<to_compact, next_, prev_, dead>>
      /\ files_dead' = files_dead \union (added \ saved)
      /\ refs' = [f \in Files |-> IF f \in added THEN (IF f \in saved THEN 1 ELSE 0)
                                  ELSE IF f \in saved THEN refs[f] + 1 ELSE refs[f]]
  <2> HIDE DEF saved
  <2>1. saved = (files_[c] \union added) \ deleted BY DEF saved
  <2> QED BY <1>2, <1>5, <1>6, <2>1, BuildEffect DEF IInv
<1>8. files_[c] \subseteq 1..files_made /\ saved \subseteq (1..files_made) \union added
  BY <1>1 DEF IInv, TypeOK
<1>9. files_[n] = {} /\ refs_[n] = 0
  BY <1>7, <1>4 DEF IInv, Blank, TypeOK, Versions, RefsAssumption
<1>10. \A w \in Versions : w # n => files_'[w] = files_[w]
  BY <1>7 DEF IInv, TypeOK
<1>11. files_'[n] = saved /\ n \notin dead
  BY <1>1, <1>7 DEF IInv, TypeOK
<1>12. 1..n = (1..made) \union {n} /\ 1..files_made' = (1..files_made) \union added
  BY <1>1, <1>6, <1>7
<1>13. TypeOK'
  <2>1. /\ files_' \in [Versions -> SUBSET (1..files_made')] /\ files_dead' \in SUBSET (1..files_made')
    BY <1>7, <1>8, <1>12 DEF IInv, TypeOK
  <2>2. refs' \in [Files -> Int] /\ files_made' \in 0..MaxFiles
    BY <1>4, <1>7 DEF IInv, TypeOK
  <2>3. dead' \in SUBSET (1..made') /\ current_' \in 1..made' /\ Held \subseteq Held' /\ inputs' \in SUBSET (1..files_made')
    BY <1>7, <1>12 DEF IInv, TypeOK, Held
  <2>4. reader' \in [Readers -> Held'] /\ input_version_' \in Held'
    BY <2>3 DEF IInv, TypeOK
  <2> QED BY <1>7, <2>1, <2>2, <2>3, <2>4 DEF IInv, TypeOK
<1>14. PendingAlone'
  <2>1. input_version_ # n /\ \A r \in Readers : reader[r] # n
    BY <1>1 DEF IInv, TypeOK, Held
  <2> QED BY <1>1, <1>7, <1>9, <1>11, <2>1 DEF PendingAlone
<1>15. Blank'
  <2> SUFFICES ASSUME NEW w \in Versions, w > n \/ w \in dead
               PROVE  files_'[w] = {} /\ (w > n => refs_[w] = 0)
    BY <1>7 DEF Blank
  <2>1. w # n /\ (w > n => w > made)
    BY <1>1, <1>11 DEF Versions, RefsAssumption
  <2> QED BY <1>10, <2>1 DEF IInv, Blank
<1>16. AllEnded'
  BY DEF AllEnded
<1>17. Remembered'
  <2>1. ASSUME NEW w \in Held, w # NoVersion PROVE w \in Versions /\ w # n /\ files_'[w] = files_[w]
    <3>1. w \in Versions /\ w # n BY <1>1, <2>1, HeapFields DEF IInv, Held
    <3> QED BY <1>10, <3>1
  <2>2. input_version_ # NoVersion => inputs \subseteq files_'[input_version_]
    BY <2>1 DEF IInv, Remembered, TypeOK
  <2>3. \A r \in Readers : seek_file[r] # NoFile => reader[r] # NoVersion /\ seek_file[r] \in files_'[reader[r]]
    <3> SUFFICES ASSUME NEW r \in Readers, seek_file[r] # NoFile
                 PROVE  reader[r] # NoVersion /\ seek_file[r] \in files_'[reader[r]]
      OBVIOUS
    <3>1. reader[r] # NoVersion /\ seek_file[r] \in files_[reader[r]] /\ reader[r] \in Held
      BY DEF IInv, Remembered, TypeOK
    <3> QED BY <2>1, <3>1
  <2>4. \A w \in Versions : to_compact[w] # NoFile => to_compact[w] \in files_'[w]
    BY <1>9, <1>10 DEF IInv, Remembered
  <2> QED BY <1>7, <2>2, <2>3, <2>4 DEF IInv, Remembered
<1>18. VersionsCounted'
  <2> SUFFICES ASSUME NEW w \in 1..made
               PROVE  refs_[w] = Holders(w)' /\ (w \in dead <=> Holders(w)' = 0)
    BY <1>1, <1>7, <1>12 DEF VersionsCounted
  <2>1. ByReaders(w)' = ByReaders(w)
    BY ReadersStay
  <2>2. Holders(w)' = Holders(w)
    BY <2>1, HoldersNat, HoldersPrime
  <2>3. w # pending
    BY DEF NoVersion, IInv, TypeOK
  <2> QED BY <2>2, <2>3 DEF IInv, VersionsCounted
<1>19. FilesCounted'
  <2> DEFINE L(f) == {w \in Alive : f \in files_[w]}
             M(f) == {w \in Alive' : f \in files_'[w]}
  <2> HIDE DEF saved
  <2> SUFFICES ASSUME NEW f \in 1..files_made'
               PROVE  refs'[f] = Cardinality(M(f)) /\ (f \in files_dead' <=> M(f) = {})
    BY DEF FilesCounted
  <2>1. f \in Files
    BY <1>6, <1>12, HeapFields DEF IInv
  <2>2. L(f) \subseteq 1..made /\ n \notin L(f) /\ IsFiniteSet(L(f)) /\ Cardinality(L(f)) \in Nat
    <3>1. L(f) \subseteq 1..made /\ n \notin L(f)
      BY <1>1 DEF Alive
    <3>2. IsFiniteSet(1..made)
      BY <1>1, FS_Interval
    <3> HIDE DEF L
    <3> QED BY <3>1, <3>2, FS_Subset, FS_CardinalityType
  <2>3. M(f) = IF f \in saved THEN L(f) \union {n} ELSE L(f)
    <3>1. Alive' = Alive \union {n}
      BY <1>7, <1>11, <1>12 DEF Alive
    <3>2. \A w \in Alive : files_'[w] = files_[w]
      BY <1>1, <1>10, HeapFields DEF Alive, IInv
    <3> QED BY <1>11, <3>1, <3>2
  <2>4. refs'[f] = IF f \in added THEN (IF f \in saved THEN 1 ELSE 0) ELSE IF f \in saved THEN refs[f] + 1 ELSE refs[f]
    BY <1>7, <2>1
  <2>5. f \in files_dead' <=> f \in files_dead \/ (f \in added /\ f \notin saved)
    BY <1>7
  <2>6. f \in saved => M(f) # {} /\ Cardinality(M(f)) = Cardinality(L(f)) + 1
    <3> SUFFICES ASSUME f \in saved PROVE M(f) # {} /\ Cardinality(M(f)) = Cardinality(L(f)) + 1
      OBVIOUS
    <3>1. M(f) = L(f) \union {n} BY <2>3
    <3> HIDE DEF L, M
    <3> QED BY <2>2, <3>1, FS_AddElement
  <2>7. f \notin saved => M(f) = L(f)
    BY <2>3
  <2>8. CASE f \in added
    <3>1. f \notin 1..files_made /\ f \notin files_dead
      BY <1>6, <2>8 DEF IInv, TypeOK
    <3>2. L(f) = {}
      BY <3>1, HeapFields DEF IInv, TypeOK, Alive
    <3>3. Cardinality(L(f)) = 0
      BY <3>2, FS_EmptySet
    <3> HIDE DEF L, M
    <3> QED BY <2>4, <2>5, <2>6, <2>7, <2>8, <3>1, <3>2, <3>3
  <2>9. CASE f \notin added
    <3>1. f \in 1..files_made
      BY <1>12, <2>9
    <3>2. refs[f] = Cardinality(L(f)) /\ (f \in files_dead <=> L(f) = {})
      BY <3>1 DEF IInv, FilesCounted
    <3>3. f \in saved => L(f) # {}
      <4>1. f \in saved => f \in files_[c] BY <2>9 DEF saved
      <4> QED BY <1>2, <4>1
    <3> HIDE DEF L, M
    <3> QED BY <2>4, <2>5, <2>6, <2>7, <2>9, <3>2, <3>3
  <2> QED BY <2>8, <2>9
<1> QED
  BY <1>13, <1>14, <1>15, <1>16, <1>17, <1>18, <1>19 DEF IInv

LEMMA RecoverKeeps ==
  ASSUME RefsAssumption, IInv, Recover
  PROVE  IInv'
<1>1. made = 1 /\ pending' = made' /\ UNCHANGED <<current_, reader, seek_file, input_version_, inputs, closed>>
  BY DEF Recover
<1>2. PICK added \in NewFiles : \E deleted \in SUBSET added : Build(added, deleted)
  BY DEF Recover
<1>3. PICK deleted \in SUBSET added : Build(added, deleted)
  BY <1>2
<1>4. pending = NoVersion /\ ~closed
  BY <1>1 DEF IInv, TypeOK, PendingAlone, AllEnded
<1>5. deleted \in SUBSET (files_[current_] \union added)
  BY <1>3
<1> QED
  BY <1>1, <1>3, <1>4, <1>5, BuildKeeps

LEMMA LogAndApplyKeeps ==
  ASSUME RefsAssumption, IInv, LogAndApply
  PROVE  IInv'
<1>1. /\ pending = NoVersion /\ ~closed /\ pending' = made'
      /\ UNCHANGED <<current_, reader, seek_file, input_version_, inputs, closed>>
  BY DEF LogAndApply
<1>2. PICK added \in NewFiles : \E deleted \in SUBSET files_[current_] : Build(added, deleted)
  BY DEF LogAndApply
<1>3. PICK deleted \in SUBSET files_[current_] : Build(added, deleted)
  BY <1>2
<1>4. deleted \in SUBSET (files_[current_] \union added)
  BY <1>3
<1> QED
  BY <1>1, <1>3, <1>4, BuildKeeps

LEMMA InitIInv ==
  ASSUME RefsAssumption, Init
  PROVE  IInv
<1>1. Versions = 1..MaxVersions /\ 1 \in Versions /\ 1..made = {1} /\ 1..files_made = {}
  BY DEF Versions, RefsAssumption, Init
<1>2. TypeOK
  <2>1. next_ \in [Nodes -> Nodes] /\ prev_ \in [Nodes -> Nodes]
    BY <1>1 DEF Init, Nodes, dummy_versions_
  <2>2. files_ \in [Versions -> SUBSET (1..files_made)] /\ refs_ \in [Versions -> Int] /\ refs \in [Files -> Int]
    BY DEF Init
  <2>3. to_compact \in [Versions -> Int] /\ seek_file \in [Readers -> Int] /\ reader \in [Readers -> Held]
    BY DEF Init, NoFile, Held
  <2>4. made \in Versions /\ files_made \in 0..MaxFiles /\ dead \in SUBSET (1..made) /\ files_dead \in SUBSET (1..files_made)
    BY <1>1 DEF Init, RefsAssumption
  <2>5. current_ \in 1..made /\ pending \in {NoVersion, made} /\ input_version_ \in Held /\ inputs \in SUBSET (1..files_made) /\ closed \in BOOLEAN
    BY <1>1 DEF Init, Held
  <2> QED BY <2>1, <2>2, <2>3, <2>4, <2>5 DEF TypeOK
<1>3. PendingAlone /\ AllEnded
  BY DEF Init, PendingAlone, AllEnded
<1>4. Blank
  BY DEF Init, Blank, Versions, RefsAssumption
<1>5. Remembered
  BY DEF Init, Remembered
<1>6. Holders(1) = 1
  <2>1. {r \in Readers : reader[r] = 1} = {}
    BY DEF Init, NoVersion
  <2>2. ByReaders(1) = 0
    BY <2>1, FS_EmptySet DEF ByReaders
  <2> QED BY <2>2, HoldersNat DEF Init, NoVersion
<1>7. VersionsCounted
  BY <1>1, <1>6 DEF Init, VersionsCounted
<1>8. FilesCounted
  BY <1>1 DEF FilesCounted
<1> QED
  BY <1>2, <1>3, <1>4, <1>5, <1>7, <1>8 DEF IInv

LEMMA StutterKeeps ==
  ASSUME IInv, UNCHANGED vars
  PROVE  IInv'
<1>1. UNCHANGED <<refs_, files_, next_, prev_, made, dead, refs, files_made, files_dead, to_compact,
                  current_, pending, reader, seek_file, input_version_, inputs, closed>>
  BY DEF vars
<1>2. TypeOK' /\ PendingAlone' /\ Blank' /\ AllEnded' /\ Remembered'
  BY <1>1 DEF IInv, TypeOK, Held, PendingAlone, Blank, AllEnded, Remembered
<1>3. VersionsCounted' /\ FilesCounted'
  BY <1>1 DEF IInv, VersionsCounted, FilesCounted, Holders, Alive
<1> QED
  BY <1>2, <1>3 DEF IInv

LEMMA NextKeeps ==
  ASSUME RefsAssumption, IInv, [Next]_vars
  PROVE  IInv'
<1>1. ASSUME Recover PROVE IInv' BY <1>1, RecoverKeeps
<1>2. ASSUME LogAndApply PROVE IInv' BY <1>2, LogAndApplyKeeps
<1>3. ASSUME Install PROVE IInv' BY <1>3, InstallKeeps
<1>4. ASSUME ManifestFails PROVE IInv' BY <1>4, ManifestFailsKeeps
<1>5. ASSUME NEW r \in Readers, StartRead(r) PROVE IInv' BY <1>5, StartReadKeeps
<1>6. ASSUME NEW r \in Readers, EndRead(r) PROVE IInv' BY <1>6, EndReadKeeps
<1>7. ASSUME RecordReadSample PROVE IInv' BY <1>7, RecordReadSampleKeeps
<1>8. ASSUME PickCompaction PROVE IInv' BY <1>8, PickCompactionKeeps
<1>9. ASSUME ReleaseInputs PROVE IInv' BY <1>9, ReleaseInputsKeeps
<1>10. ASSUME Close PROVE IInv' BY <1>10, CloseKeeps
<1>11. ASSUME UNCHANGED vars PROVE IInv' BY <1>11, StutterKeeps
<1> QED
  BY <1>1, <1>2, <1>3, <1>4, <1>5, <1>6, <1>7, <1>8, <1>9, <1>10, <1>11 DEF Next

\* Every step keeps the invariant, from Init on.
LEMMA Invariance == ASSUME RefsAssumption PROVE Spec => []IInv
<1>1. Init => IInv
  BY InitIInv
<1>2. IInv /\ [Next]_vars => IInv'
  BY NextKeeps
<1> QED
  BY <1>1, <1>2, PTL DEF Spec

(* The list. *)
LEMMA ChainRemoves ==
  ASSUME NEW next \in [Nodes -> Nodes], NEW prev \in [Nodes -> Nodes], NEW S \in SUBSET Nodes,
         Chain(next, prev, S), NEW v \in S, v # dummy_versions_
  PROVE  Chain([next EXCEPT ![prev[v]] = next[v]], [prev EXCEPT ![next[v]] = prev[v]], S \ {v})
<1> DEFINE p == prev[v]
           q == next[v]
           nx == [next EXCEPT ![p] = q]
           pv == [prev EXCEPT ![q] = p]
<1>1. S \subseteq Int
  BY DEF Nodes, Versions, dummy_versions_
<1>2. p \in S /\ q \in S /\ next[p] = v /\ prev[q] = v /\ q # v /\ p # v
  BY <1>1 DEF Chain
<1>3. ASSUME NEW w \in S \ {v}
      PROVE  /\ nx[w] = (IF w = p THEN q ELSE next[w]) /\ pv[w] = (IF w = q THEN p ELSE prev[w])
             /\ w # p => next[w] # v
             /\ w # q => prev[w] # v
  BY <1>2 DEF Chain
<1> HIDE DEF nx, pv, p, q
<1>4. ASSUME NEW w \in S \ {v}
      PROVE  nx[w] \in S \ {v} /\ pv[w] \in S \ {v} /\ pv[nx[w]] = w /\ nx[pv[w]] = w
  <2>1. nx[w] \in S \ {v} /\ pv[w] \in S \ {v}
    BY <1>2, <1>3 DEF Chain
  <2>2. pv[nx[w]] = w
    <3>1. CASE w = p
      BY <1>2, <1>3, <2>1, <3>1
    <3>2. CASE w # p
      <4>1. nx[w] = next[w] /\ prev[next[w]] = w
        BY <1>3, <3>2 DEF Chain
      <4>2. next[w] # q
        BY <1>2, <4>1
      <4> QED BY <1>3, <2>1, <4>1, <4>2
    <3> QED BY <3>1, <3>2
  <2>3. nx[pv[w]] = w
    <3>1. CASE w = q
      BY <1>2, <1>3, <2>1, <3>1
    <3>2. CASE w # q
      <4>1. pv[w] = prev[w] /\ next[prev[w]] = w
        BY <1>3, <3>2 DEF Chain
      <4>2. prev[w] # p
        BY <1>2, <4>1
      <4> QED BY <1>3, <2>1, <4>1, <4>2
    <3> QED BY <3>1, <3>2
  <2> QED BY <2>1, <2>2, <2>3
<1>5. q = dummy_versions_ \/ q > v
  BY DEF Chain, q
<1>6. v > p
  BY <1>2 DEF Chain
<1>7. ASSUME NEW w \in S \ {v}
      PROVE  /\ nx[w] = dummy_versions_ \/ nx[w] > w
             /\ \A x \in S \ {v} : x > w => nx[w] # dummy_versions_ /\ nx[w] <= x
  <2>1. CASE w # p
    BY <1>3, <2>1 DEF Chain
  <2>2. CASE w = p
    <3>1. \A x \in S : x > v => q # dummy_versions_ /\ q <= x
      BY DEF Chain, q
    <3>2. \A x \in S : x > p => v <= x
      BY <1>2 DEF Chain
    <3> QED BY <1>1, <1>2, <1>3, <1>5, <1>6, <2>2, <3>1, <3>2
  <2> QED BY <2>1, <2>2
<1> QED
  BY <1>4, <1>7 DEF Chain, nx, pv, p, q

LEMMA ChainAppends ==
  ASSUME NEW next \in [Nodes -> Nodes], NEW prev \in [Nodes -> Nodes], NEW S \in SUBSET Nodes,
         Chain(next, prev, S), dummy_versions_ \in S, NEW v \in Nodes, \A w \in S : v > w,
         NEW last, last = prev[dummy_versions_]
  PROVE  Chain([[next EXCEPT ![v] = dummy_versions_] EXCEPT ![last] = v],
               [[prev EXCEPT ![v] = last] EXCEPT ![dummy_versions_] = v], S \union {v})
<1> DEFINE nx == [[next EXCEPT ![v] = dummy_versions_] EXCEPT ![last] = v]
           pv == [[prev EXCEPT ![v] = last] EXCEPT ![dummy_versions_] = v]
<1>1. S \subseteq Int /\ v \in Int /\ v \notin S /\ v # dummy_versions_
  BY DEF Nodes, Versions, dummy_versions_
<1>2. last \in S /\ last # v /\ next[last] = dummy_versions_
  BY <1>1 DEF Chain
<1>3. nx[v] = dummy_versions_ /\ nx[last] = v /\ pv[v] = last /\ pv[dummy_versions_] = v
  BY <1>1, <1>2
<1>4. \A w \in S : /\ nx[w] = IF w = last THEN v ELSE next[w]
                   /\ pv[w] = IF w = dummy_versions_ THEN v ELSE prev[w]
  BY <1>1, <1>2
<1> HIDE DEF nx, pv
<1>5. \A w \in S : w # last => next[w] # dummy_versions_
  BY <1>2 DEF Chain
<1>6. \A w \in S : w # dummy_versions_ => prev[w] # last
  BY <1>2 DEF Chain
<1>7. ASSUME NEW w \in S
      PROVE  nx[w] \in S \union {v} /\ pv[w] \in S \union {v} /\ pv[nx[w]] = w /\ nx[pv[w]] = w
  <2>1. nx[w] \in S \union {v} /\ pv[w] \in S \union {v}
    BY <1>4 DEF Chain
  <2>2. pv[nx[w]] = w
    BY <1>3, <1>4, <1>5 DEF Chain
  <2>3. nx[pv[w]] = w
    BY <1>3, <1>4, <1>6 DEF Chain
  <2> QED BY <2>1, <2>2, <2>3
<1>8. ASSUME NEW w \in S
      PROVE  /\ nx[w] = dummy_versions_ \/ nx[w] > w
             /\ \A x \in S \union {v} : x > w => nx[w] # dummy_versions_ /\ nx[w] <= x
  <2>1. CASE w = last
    <3>1. \A x \in S : ~(x > last)
      BY <1>2 DEF Chain
    <3> QED BY <1>1, <1>3, <2>1, <3>1
  <2>2. CASE w # last
    <3>1. nx[w] = next[w] /\ next[w] # dummy_versions_ /\ next[w] \in S
      BY <1>4, <1>5, <2>2 DEF Chain
    <3>2. v > next[w] /\ next[w] \in Int /\ v \in Int
      BY <1>1, <3>1
    <3>3. next[w] > w
      BY <3>1 DEF Chain
    <3>4. \A x \in S : x > w => next[w] <= x
      BY DEF Chain
    <3>5. v > w => next[w] <= v
      BY <3>2
    <3> QED BY <3>1, <3>3, <3>4, <3>5
  <2> QED BY <2>1, <2>2
<1>9. \A x \in S \union {v} : ~(x > v)
  BY <1>1
<1>10. /\ nx[v] \in S \union {v} /\ pv[v] \in S \union {v} /\ pv[nx[v]] = v /\ nx[pv[v]] = v
       /\ nx[v] = dummy_versions_ \/ nx[v] > v
       /\ \A x \in S \union {v} : x > v => nx[v] # dummy_versions_ /\ nx[v] <= x
  BY <1>2, <1>3, <1>9
<1>11. Chain(nx, pv, S \union {v})
  <2> SUFFICES ASSUME NEW w \in S \union {v}
               PROVE  /\ nx[w] \in S \union {v} /\ pv[w] \in S \union {v} /\ pv[nx[w]] = w /\ nx[pv[w]] = w
                      /\ nx[w] = dummy_versions_ \/ nx[w] > w
                      /\ \A x \in S \union {v} : x > w => nx[w] # dummy_versions_ /\ nx[w] <= x
    BY DEF Chain
  <2>1. CASE w \in S
    BY <1>7, <1>8, <2>1
  <2>2. CASE w = v
    BY <1>10, <2>2
  <2> QED BY <2>1, <2>2
<1> QED
  BY <1>11 DEF nx, pv

\* Steps that give up a reference: the version leaves the list if that was the last.
LEMMA ListLoses ==
  ASSUME RefsAssumption, IInv, IInv', ListInv, NEW v \in Alive \ {pending}, Loses(v),
         refs_[v] = 1 => Unlinks(v), refs_[v] # 1 => UNCHANGED <<next_, prev_>>,
         UNCHANGED <<made, pending, current_>>, ~closed' => ~closed
  PROVE  ListInv'
<1>1. v \in Versions /\ v \in Linked /\ v # dummy_versions_ /\ v \in 1..made /\ v # pending
  BY HeapFields DEF Alive, Linked, dummy_versions_, Versions, IInv
<1>2. CASE refs_[v] # 1
  <2>1. UNCHANGED <<next_, prev_, dead>>
    BY <1>2 DEF Loses
  <2> QED BY <2>1 DEF ListInv, Linked, Alive
<1>3. CASE refs_[v] = 1
  <2>1. /\ next_' = [next_ EXCEPT ![prev_[v]] = next_[v]] /\ prev_' = [prev_ EXCEPT ![next_[v]] = prev_[v]]
        /\ dead' = dead \union {v}
    BY <1>3 DEF Loses, Unlinks, Deleted
  <2>2. Linked' = Linked \ {v}
    BY <1>1, <2>1 DEF Linked, Alive
  <2>3. Linked \in SUBSET Nodes /\ next_ \in [Nodes -> Nodes] /\ prev_ \in [Nodes -> Nodes] /\ dummy_versions_ \in Linked
    BY HeapFields DEF Linked, Nodes, Alive, IInv, TypeOK
  <2>4. Chain(next_', prev_', Linked')
    BY <1>1, <2>1, <2>2, <2>3, ChainRemoves DEF ListInv
  <2>5. prev_[v] \in Linked /\ next_[v] \in Linked /\ prev_[next_[v]] = v
    BY <1>1 DEF ListInv, Chain
  <2>6. \A w \in Versions : w > made \/ w = pending => w \notin Linked
    <3>1. made \in Int /\ Versions \subseteq Int /\ dummy_versions_ \notin Versions
      BY DEF IInv, TypeOK, Versions, dummy_versions_
    <3> QED BY <3>1 DEF Linked, Alive
  <2>7. \A w \in Versions : w > made \/ w = pending => next_'[w] = w /\ prev_'[w] = w
    BY <2>1, <2>3, <2>5, <2>6 DEF ListInv, Nodes
  <2>8. ASSUME ~closed' PROVE prev_'[dummy_versions_] = current_
    <3>1. prev_[dummy_versions_] = current_
      BY <2>8 DEF ListInv
    <3>2. v # current_
      <4>1. Holders(current_)' # 0
        BY <2>8, HoldersPrime
      <4>2. current_ \in (1..made) \ {pending}
        BY DEF IInv, TypeOK, PendingAlone, NoVersion
      <4>3. current_ \notin dead'
        BY <4>1, <4>2 DEF IInv, VersionsCounted
      <4> QED BY <2>1, <4>3
    <3>3. next_[v] # dummy_versions_
      BY <2>5, <3>1, <3>2
    <3> QED BY <2>1, <2>3, <3>1, <3>3
  <2> QED BY <2>4, <2>7, <2>8 DEF ListInv
<1> QED
  BY <1>2, <1>3

\* Build and the steps that only count leave the list alone.
LEMMA ListStays ==
  ASSUME RefsAssumption, IInv, ListInv, UNCHANGED <<next_, prev_, dead, current_>>,
         \/ UNCHANGED <<made, pending>>
         \/ pending = NoVersion /\ made' = made + 1 /\ pending' = made',
         ~closed' => ~closed
  PROVE  ListInv'
<1>1. made \in Nat /\ Versions \subseteq Int /\ dead \in SUBSET (1..made)
  BY DEF IInv, TypeOK, Versions
<1>2. Linked' = Linked
  <2>1. CASE UNCHANGED <<made, pending>>
    BY <2>1 DEF Linked, Alive
  <2>2. CASE pending = NoVersion /\ made' = made + 1 /\ pending' = made'
    <3>1. Linked = Alive \union {dummy_versions_}
      BY <1>1, <2>2 DEF Linked, Alive, NoVersion
    <3>2. Alive' \ {made + 1} = Alive
      BY <1>1, <2>2 DEF Alive
    <3> QED BY <2>2, <3>1, <3>2 DEF Linked
  <2> QED BY <2>1, <2>2
<1>3. \A v \in Versions : v > made' \/ v = pending' => v > made \/ v = pending
  BY <1>1
<1> QED
  BY <1>2, <1>3 DEF ListInv

LEMMA BuildLists ==
  ASSUME RefsAssumption, IInv, ListInv, Recover \/ LogAndApply
  PROVE  ListInv'
<1>1. /\ pending' = made' /\ UNCHANGED <<current_, closed>> /\ pending = NoVersion /\ ~closed
  <2>1. CASE Recover
    BY <2>1 DEF Recover, IInv, TypeOK, PendingAlone, AllEnded
  <2>2. CASE LogAndApply
    BY <2>2 DEF LogAndApply
  <2> QED BY <2>1, <2>2
<1>2. PICK added \in NewFiles : \E deleted : Build(added, deleted)
  BY DEF Recover, LogAndApply
<1>3. PICK deleted : Build(added, deleted)
  BY <1>2
<1>4. added \in SUBSET Files
  BY DEF NewFiles, Files, IInv, TypeOK, RefsAssumption
<1>5. refs_[current_] >= 1
  BY <1>1, HeldAlive DEF IInv, TypeOK
<1>6. made' = made + 1 /\ UNCHANGED <<next_, prev_, dead>>
  BY <1>3, <1>4, <1>5, BuildEffect DEF IInv
<1> QED
  BY <1>1, <1>6, ListStays

LEMMA InstallLists ==
  ASSUME RefsAssumption, IInv, ListInv, Install, NEW c, c = current_, NEW v, v = pending
  PROVE  ListInv'
<1> DEFINE u == Unref(Heap, c)
           gone == IF refs_[c] = 1 THEN {c} ELSE {}
<1>1. /\ v # NoVersion /\ current_' = v /\ pending' = NoVersion /\ SetHeap(AppendVersion(Heap, pending))
      /\ UNCHANGED <<made, closed>>
  BY DEF Install
<1>2. v \in 1..made /\ v \in Versions /\ v = made /\ c \in 1..made /\ c \in Versions /\ c # v /\ v \notin dead
  BY <1>1, HeapFields DEF IInv, TypeOK, PendingAlone, Versions, RefsAssumption
<1>3. /\ u \in HeapSet /\ dead' = u.dead
      /\ next_' = [[u.next_ EXCEPT ![v] = dummy_versions_] EXCEPT ![u.prev_[dummy_versions_]] = v]
      /\ prev_' = [[u.prev_ EXCEPT ![v] = u.prev_[dummy_versions_]] EXCEPT ![dummy_versions_] = v]
  BY <1>1, <1>2, AppendEffect DEF IInv
<1>4. c \in Linked /\ c # dummy_versions_ /\ Linked \in SUBSET Nodes /\ dummy_versions_ \in Linked /\ v \notin Linked
  <2>1. c \in Alive
    BY <1>1, <1>2, HeldAlive DEF IInv, AllEnded
  <2> QED BY <1>2, <2>1, HeapFields DEF Linked, Nodes, Alive, Versions, dummy_versions_, IInv
<1>5. next_ \in [Nodes -> Nodes] /\ prev_ \in [Nodes -> Nodes] /\ Chain(next_, prev_, Linked)
  BY DEF IInv, TypeOK, ListInv
<1>6. Chain(u.next_, u.prev_, Linked \ gone) /\ u.dead = dead \union gone
  <2>1. CASE refs_[c] = 1
    <3>1. Heap \in HeapSet /\ Heap.refs_[c] = 1 BY <2>1, HeapFields DEF IInv
    <3>2. /\ u.next_ = [Heap.next_ EXCEPT ![Heap.prev_[c]] = Heap.next_[c]]
          /\ u.prev_ = [Heap.prev_ EXCEPT ![Heap.next_[c]] = Heap.prev_[c]] /\ u.dead = Heap.dead \union {c}
      BY <1>2, <3>1, UnrefFields
    <3> HIDE DEF u
    <3>3. /\ u.next_ = [next_ EXCEPT ![prev_[c]] = next_[c]] /\ u.prev_ = [prev_ EXCEPT ![next_[c]] = prev_[c]]
          /\ u.dead = dead \union {c}
      BY <3>2, HeapFields DEF IInv
    <3>4. gone = {c} BY <2>1
    <3> HIDE DEF gone
    <3>5. Chain([next_ EXCEPT ![prev_[c]] = next_[c]], [prev_ EXCEPT ![next_[c]] = prev_[c]], Linked \ {c})
      BY <1>4, <1>5, ChainRemoves
    <3> QED BY <3>3, <3>4, <3>5
  <2>2. CASE refs_[c] # 1
    <3>1. Heap \in HeapSet /\ Heap.refs_[c] # 1 BY <2>2, HeapFields DEF IInv
    <3>2. u.next_ = Heap.next_ /\ u.prev_ = Heap.prev_ /\ u.dead = Heap.dead
      BY <1>2, <3>1, UnrefFields
    <3> HIDE DEF u
    <3>3. u.next_ = next_ /\ u.prev_ = prev_ /\ u.dead = dead
      BY <3>2, HeapFields DEF IInv
    <3> QED BY <1>5, <2>2, <3>3
  <2> QED BY <2>1, <2>2
<1> HIDE DEF u
<1>7. Linked' = (Linked \ gone) \union {v}
  <2>1. Alive' = Alive \ gone
    BY <1>1, <1>3, <1>6 DEF Alive
  <2>2. v \in Alive /\ v \notin gone /\ NoVersion \notin Alive /\ dummy_versions_ \notin gone
    BY <1>2, <1>4 DEF Alive, NoVersion
  <2> HIDE DEF gone
  <2> QED BY <1>1, <2>1, <2>2 DEF Linked
<1>8. \A w \in Linked \ gone : v > w
  BY <1>2, <1>4 DEF Linked, Alive, dummy_versions_
<1>9. Chain(next_', prev_', Linked')
  <2>1. /\ u.next_ \in [Nodes -> Nodes] /\ u.prev_ \in [Nodes -> Nodes] /\ v \in Nodes
        /\ Linked \ gone \in SUBSET Nodes /\ dummy_versions_ \in Linked \ gone
    BY <1>2, <1>3, <1>4 DEF HeapSet, Nodes
  <2> HIDE DEF gone
  <2> QED BY <1>3, <1>6, <1>7, <1>8, <2>1, ChainAppends
<1>10. prev_'[dummy_versions_] = v
  <2>1. u.prev_ \in [Nodes -> Nodes] /\ dummy_versions_ \in Nodes
    BY <1>3 DEF HeapSet, Nodes
  <2> QED BY <1>3, <2>1
<1>11. ASSUME NEW w \in Versions, w > made PROVE next_'[w] = w /\ prev_'[w] = w
  <2>1. w \notin Linked /\ w # v /\ w # dummy_versions_ /\ w \in Nodes
    BY <1>2, <1>11 DEF Linked, Alive, Versions, dummy_versions_, Nodes
  <2>2. u.next_[w] = w /\ u.prev_[w] = w /\ u.prev_[dummy_versions_] \in Linked
    <3>1. next_[w] = w /\ prev_[w] = w
      BY <1>11 DEF ListInv
    <3>2. u.prev_[dummy_versions_] \in Linked
      BY <1>4, <1>6 DEF Chain
    <3>3. CASE refs_[c] = 1
      <4>1. Heap \in HeapSet /\ Heap.refs_[c] = 1 BY <3>3, HeapFields DEF IInv
      <4>2. /\ u.next_ = [Heap.next_ EXCEPT ![Heap.prev_[c]] = Heap.next_[c]]
            /\ u.prev_ = [Heap.prev_ EXCEPT ![Heap.next_[c]] = Heap.prev_[c]]
        BY <1>2, <4>1, UnrefFields DEF u
      <4>3. /\ u.next_ = [next_ EXCEPT ![prev_[c]] = next_[c]] /\ u.prev_ = [prev_ EXCEPT ![next_[c]] = prev_[c]]
        BY <4>2, HeapFields DEF IInv
      <4>4. prev_[c] # w /\ next_[c] # w
        BY <1>4, <1>5, <2>1 DEF Chain
      <4> QED BY <1>5, <2>1, <3>1, <3>2, <4>3, <4>4
    <3>4. CASE refs_[c] # 1
      <4>1. Heap \in HeapSet /\ Heap.refs_[c] # 1 BY <3>4, HeapFields DEF IInv
      <4>2. u.next_ = Heap.next_ /\ u.prev_ = Heap.prev_
        BY <1>2, <4>1, UnrefFields DEF u
      <4> QED BY <3>1, <3>2, <4>2, HeapFields DEF IInv
    <3> QED BY <3>3, <3>4
  <2>3. u.next_ \in [Nodes -> Nodes] /\ u.prev_ \in [Nodes -> Nodes] /\ u.prev_[dummy_versions_] # w
    BY <1>3, <2>1, <2>2 DEF HeapSet
  <2> QED BY <1>3, <2>1, <2>2, <2>3
<1>12. \A w \in Versions : w # NoVersion
  BY DEF Versions, NoVersion
<1> QED
  BY <1>1, <1>9, <1>10, <1>11, <1>12 DEF ListInv

LEMMA ManifestFailsLists ==
  ASSUME RefsAssumption, IInv, ListInv, ManifestFails, NEW v, v = pending
  PROVE  ListInv'
<1>1. /\ v # NoVersion /\ pending' = NoVersion /\ SetHeap(Destroy(Heap, v))
      /\ UNCHANGED <<made, current_, closed>>
  BY DEF ManifestFails
<1>2. v \in 1..made /\ v \in Versions /\ v = made /\ v \in Alive
  BY <1>1, HeapFields DEF IInv, TypeOK, PendingAlone, Alive, Versions, RefsAssumption
<1>3. Deleted(v) /\ Unlinks(v)
  BY <1>1, <1>2, DestroyEffect DEF IInv
<1>4. next_[v] = v /\ prev_[v] = v /\ next_ \in [Nodes -> Nodes] /\ prev_ \in [Nodes -> Nodes]
  BY <1>2 DEF ListInv, IInv, TypeOK
<1>5. next_' = next_ /\ prev_' = prev_
  BY <1>3, <1>4 DEF Unlinks
<1>6. Linked' = Linked
  <2>1. Alive' = Alive \ {v} /\ NoVersion \notin Alive
    BY <1>1, <1>3 DEF Alive, Deleted, NoVersion
  <2> QED BY <1>1, <2>1 DEF Linked
<1>7. \A w \in Versions : w # NoVersion
  BY DEF Versions, NoVersion
<1> QED
  BY <1>1, <1>5, <1>6, <1>7 DEF ListInv

\* EndRead, ReleaseInputs and Close give up a version that is in the list.
LEMMA UnrefLists ==
  ASSUME RefsAssumption, IInv, IInv', ListInv,
         ReleaseInputs \/ Close \/ \E r \in Readers : EndRead(r)
  PROVE  ListInv'
<1>1. PICK v \in 1..made, marks \in [Versions -> Int] :
        /\ SetHeap(Unref([Heap EXCEPT !.to_compact = marks], v))
        /\ \/ v = current_ /\ ~closed
           \/ v = input_version_
           \/ \E r \in Readers : reader[r] = v
  <2>1. Heap = [Heap EXCEPT !.to_compact = to_compact] /\ to_compact \in [Versions -> Int]
    BY DEF Heap, IInv, TypeOK
  <2>2. CASE ReleaseInputs
    <3>1. input_version_ \in 1..made /\ SetHeap(Unref(Heap, input_version_))
      BY <2>2 DEF ReleaseInputs, IInv, TypeOK, Held
    <3> QED BY <2>1, <3>1
  <2>3. CASE Close
    <3>1. current_ \in 1..made /\ ~closed /\ SetHeap(Unref(Heap, current_))
      BY <2>3 DEF Close, Opened, IInv, TypeOK
    <3> QED BY <2>1, <3>1
  <2>4. ASSUME NEW r \in Readers, EndRead(r)
        PROVE  \E v \in 1..made, marks \in [Versions -> Int] :
                 SetHeap(Unref([Heap EXCEPT !.to_compact = marks], v)) /\ reader[r] = v
    <3>1. reader[r] \in 1..made /\ reader[r] \in Versions
      BY <2>4, HeapFields DEF EndRead, IInv, TypeOK, Held
    <3>2. CASE SetHeap(Unref(Heap, reader[r]))
      BY <2>1, <3>1, <3>2
    <3>3. CASE SetHeap(Unref([Heap EXCEPT !.to_compact[reader[r]] = seek_file[r]], reader[r]))
      <4> DEFINE m == [to_compact EXCEPT ![reader[r]] = seek_file[r]]
      <4>1. [Heap EXCEPT !.to_compact[reader[r]] = seek_file[r]] = [Heap EXCEPT !.to_compact = m]
        BY DEF Heap
      <4>2. m \in [Versions -> Int]
        BY <3>1 DEF IInv, TypeOK
      <4> HIDE DEF m
      <4> QED BY <3>1, <3>3, <4>1, <4>2
    <3> QED BY <2>4, <3>2, <3>3 DEF EndRead
  <2> QED BY <2>2, <2>3, <2>4
<1>2. v \in Alive \ {pending} /\ v \in Versions
  BY <1>1, HeldAlive, HeapFields DEF IInv
<1>3. /\ Loses(v) /\ (refs_[v] = 1 => Unlinks(v)) /\ (refs_[v] # 1 => UNCHANGED <<next_, prev_>>)
  BY <1>1, <1>2, UnrefEffect DEF IInv
<1>4. UNCHANGED <<made, pending, current_>> /\ (~closed' => ~closed)
  <2>1. CASE ReleaseInputs
    BY <2>1 DEF ReleaseInputs
  <2>2. CASE Close
    BY <2>2 DEF Close
  <2>3. CASE \E r \in Readers : EndRead(r)
    <3>1. PICK r \in Readers : EndRead(r) BY <2>3
    <3>2. UNCHANGED <<made, files_made, current_, pending, input_version_, inputs, closed>>
      BY <3>1 DEF EndRead
    <3> QED BY <3>2
  <2> QED BY <2>1, <2>2, <2>3
<1> QED
  BY <1>2, <1>3, <1>4, ListLoses

LEMMA CountLists ==
  ASSUME RefsAssumption, IInv, ListInv,
         PickCompaction \/ RecordReadSample \/ UNCHANGED vars \/ \E r \in Readers : StartRead(r)
  PROVE  ListInv'
<1>1. current_ \in Versions
  BY HeapFields DEF IInv, TypeOK
<1>2. UNCHANGED <<next_, prev_, dead, current_, made, pending, closed>>
  <2>1. CASE PickCompaction
    BY <1>1, <2>1, RefEffect DEF PickCompaction, HoldInputs, IInv
  <2>2. CASE RecordReadSample
    BY <2>2 DEF RecordReadSample
  <2>3. CASE UNCHANGED vars
    BY <2>3 DEF vars
  <2>4. ASSUME NEW r \in Readers, StartRead(r) PROVE UNCHANGED <<next_, prev_, dead, current_, made, pending, closed>>
    BY <1>1, <2>4, RefEffect DEF StartRead, IInv
  <2> QED BY <2>1, <2>2, <2>3, <2>4
<1> QED
  BY <1>2, ListStays

LEMMA InitList ==
  ASSUME RefsAssumption, Init
  PROVE  ListInv
<1>1. 1 \in Versions /\ made = 1 /\ Linked = {1, dummy_versions_}
  BY DEF Init, Linked, Alive, Versions, RefsAssumption, NoVersion
<1>2. next_[1] = dummy_versions_ /\ next_[dummy_versions_] = 1 /\ prev_ = next_
  BY <1>1 DEF Init, dummy_versions_
<1>3. \A v \in Versions : v > 1 => next_[v] = v
  BY DEF Init, Versions, dummy_versions_, RefsAssumption
<1>4. Chain(next_, prev_, Linked)
  BY <1>1, <1>2 DEF Chain, dummy_versions_
<1>5. \A v \in Versions : v > made \/ v = pending => next_[v] = v /\ prev_[v] = v
  <2>1. pending = NoVersion /\ NoVersion \notin Versions
    BY DEF Init, NoVersion, Versions
  <2> QED BY <1>1, <1>2, <1>3, <2>1
<1>6. prev_[dummy_versions_] = current_
  BY <1>2 DEF Init
<1> QED
  BY <1>4, <1>5, <1>6 DEF ListInv

\* The list stays a list.
LEMMA ListInvariance == ASSUME RefsAssumption PROVE Spec => []ListInv
<1>1. Init => ListInv
  BY InitList
<1>2. IInv /\ IInv' /\ ListInv /\ [Next]_vars => ListInv'
  <2> SUFFICES ASSUME IInv, IInv', ListInv, [Next]_vars PROVE ListInv'
    OBVIOUS
  <2>1. ASSUME Recover \/ LogAndApply PROVE ListInv' BY <2>1, BuildLists
  <2>2. ASSUME Install PROVE ListInv' BY <2>2, InstallLists
  <2>3. ASSUME ManifestFails PROVE ListInv' BY <2>3, ManifestFailsLists
  <2>4. ASSUME ReleaseInputs \/ Close \/ \E r \in Readers : EndRead(r) PROVE ListInv' BY <2>4, UnrefLists
  <2>5. ASSUME PickCompaction \/ RecordReadSample \/ UNCHANGED vars \/ \E r \in Readers : StartRead(r)
        PROVE  ListInv'
    BY <2>5, CountLists
  <2> QED BY <2>1, <2>2, <2>3, <2>4, <2>5 DEF Next
<1> QED
  BY <1>1, <1>2, Invariance, PTL DEF Spec

\* A reference count of a version is the number of those that hold it, and the version
\* is deleted exactly when there is nobody left: never under a Get, an iterator or a
\* compaction, and never later (Version::Ref, Version::Unref, ~Version).
THEOREM VersionsCountedRight == ASSUME RefsAssumption PROVE Spec => []VersionsCounted
<1>1. IInv => VersionsCounted
  BY DEF IInv
<1> QED
  BY <1>1, Invariance, PTL

\* A FileMetaData has as many references as there are versions that list it, the one
\* that waits for the MANIFEST included, and is deleted with the last of them, however
\* the Builder's own references come and go (Builder::SaveTo, ~Builder, ~Version).
THEOREM FilesCountedRight == ASSUME RefsAssumption PROVE Spec => []FilesCounted
<1>1. IInv => FilesCounted
  BY DEF IInv
<1> QED
  BY <1>1, Invariance, PTL

\* Whoever points to a file holds a version that lists it.
LEMMA HeldPointersLive ==
  ASSUME RefsAssumption, IInv
  PROVE  PointersLive
<1>1. ASSUME NEW v \in Alive PROVE files_[v] \cap files_dead = {}
  <2>1. files_[v] \subseteq 1..files_made
    BY HeapFields DEF IInv, TypeOK, Alive
  <2>2. \A f \in files_[v] : {w \in Alive : f \in files_[w]} # {}
    OBVIOUS
  <2> QED BY <2>1, <2>2 DEF IInv, FilesCounted
<1>2. NoFile \notin files_dead
  BY DEF IInv, TypeOK, NoFile
<1>3. inputs \cap files_dead = {}
  <2>1. CASE input_version_ = NoVersion
    BY <2>1 DEF IInv, Remembered
  <2>2. CASE input_version_ # NoVersion
    <3>1. input_version_ \in 1..made
      BY <2>2 DEF IInv, TypeOK, Held
    <3>2. input_version_ \in Alive
      BY <3>1, HeldAlive DEF IInv
    <3> QED BY <1>1, <2>2, <3>2 DEF IInv, Remembered
  <2> QED BY <2>1, <2>2
<1>4. ASSUME NEW r \in Readers PROVE seek_file[r] \notin files_dead
  <2>1. CASE seek_file[r] = NoFile
    BY <1>2, <2>1
  <2>2. CASE seek_file[r] # NoFile
    <3>1. reader[r] # NoVersion /\ seek_file[r] \in files_[reader[r]]
      BY <2>2 DEF IInv, Remembered
    <3>2. reader[r] \in 1..made
      BY <3>1 DEF IInv, TypeOK, Held
    <3>3. reader[r] \in Alive
      BY <3>2, HeldAlive DEF IInv
    <3> QED BY <1>1, <3>1, <3>3
  <2> QED BY <2>1, <2>2
<1>5. ASSUME NEW v \in Alive PROVE to_compact[v] \notin files_dead
  <2>1. v \in Versions
    BY HeapFields DEF IInv, Alive
  <2> QED BY <1>1, <1>2, <2>1 DEF IInv, Remembered
<1> QED BY <1>3, <1>4, <1>5 DEF PointersLive

\* The files that a compaction, a Get and a version's mark point to are not deleted,
\* because each belongs to a version that is held (Compaction::inputs_,
\* GetStats::seek_file, Version::file_to_compact_).
THEOREM PointersAreLive == ASSUME RefsAssumption PROVE Spec => []PointersLive
<1>1. IInv => PointersLive
  BY HeldPointersLive
<1> QED
  BY <1>1, Invariance, PTL

\* The list that AddLiveFiles walks is that of the versions that are installed and not
\* deleted, oldest first and the same in both directions, with the current one at its end
\* (VersionSet::AppendVersion, ~Version, VersionSet::AddLiveFiles).
THEOREM ListIsRight == ASSUME RefsAssumption PROVE Spec => []ListRight
<1>1. IInv /\ ListInv => ListRight
  <2> SUFFICES ASSUME IInv, ListInv, NEW v \in Linked
               PROVE  next_[v] = IF After(v) = {} THEN dummy_versions_ ELSE Min(After(v))
    BY DEF ListInv, Chain, ListRight, Linked
  <2>1. Linked \subseteq Int /\ next_[v] \in Linked
    BY DEF Linked, Alive, dummy_versions_, IInv, TypeOK, Versions, ListInv, Chain
  <2>2. CASE After(v) = {}
    BY <2>1, <2>2 DEF After, Linked, ListInv, Chain
  <2>3. CASE After(v) # {}
    <3>1. PICK w \in Linked : w \in After(v) /\ w > v
      BY <2>3 DEF After, Linked
    <3>2. next_[v] # dummy_versions_ /\ next_[v] > v /\ \A x \in After(v) : next_[v] <= x
      BY <3>1 DEF ListInv, Chain, After, Linked
    <3>3. next_[v] \in After(v)
      BY <2>1, <3>2 DEF After, Linked
    <3>4. After(v) \subseteq Int
      BY <2>1 DEF After, Linked
    <3>5. next_[v] = Min(After(v))
      BY <3>2, <3>3, <3>4 DEF Min
    <3> QED BY <2>3, <3>5
  <2> QED BY <2>2, <2>3
<1> QED
  BY <1>1, Invariance, ListInvariance, PTL

\* Without holders every version is deleted, and without versions every file.
LEMMA UnheldAllDead ==
  ASSUME RefsAssumption, IInv
  PROVE  ClosedEmpty
<1> SUFFICES ASSUME closed PROVE Alive = {} /\ files_dead = 1..files_made
  BY DEF ClosedEmpty
<1>1. pending = NoVersion /\ input_version_ = NoVersion /\ \A r \in Readers : reader[r] = NoVersion
  BY DEF IInv, AllEnded
<1>2. ASSUME NEW v \in 1..made PROVE v \in dead
  <2>1. v # NoVersion
    BY DEF NoVersion, IInv, TypeOK
  <2>2. {r \in Readers : reader[r] = v} = {}
    BY <1>1, <2>1
  <2>3. Holders(v) = 0
    BY <1>1, <2>1, <2>2, FS_EmptySet, HoldersNat DEF ByReaders
  <2> QED BY <1>1, <2>1, <2>3 DEF IInv, VersionsCounted
<1>3. Alive = {}
  BY <1>2 DEF Alive
<1>4. \A f \in 1..files_made : f \in files_dead
  BY <1>3 DEF IInv, FilesCounted
<1> QED BY <1>3, <1>4 DEF IInv, TypeOK

\* When the database is closed every version has been deleted, and every file of theirs
\* (~VersionSet and its assertion that the list is empty).
THEOREM ClosedIsEmpty == ASSUME RefsAssumption PROVE Spec => []ClosedEmpty
<1>1. IInv => ClosedEmpty
  BY UnheldAllDead
<1> QED
  BY <1>1, Invariance, PTL
=============================================================================
