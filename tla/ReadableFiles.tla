--------------------------- MODULE ReadableFiles ---------------------------
(***************************************************************************)
(* PosixEnv::NewRandomAccessFile and its Limiters: a file that is opened   *)
(* for reading is mapped as long as there are regions left, keeps a        *)
(* descriptor as long as there are some left, and is opened again for each *)
(* read otherwise.  Threads open, read and delete their files at any time; *)
(* the counters are atomic, but Acquire takes two steps when it fails.     *)
(***************************************************************************)
EXTENDS Integers, FiniteSets

CONSTANTS
  Threads,     \* each has at most one file
  MmapLimit,   \* MaxMmaps(), 1000 on 64 bits
  FdLimit      \* MaxOpenFiles(), a fifth of the descriptors

VARIABLES
  allowed,     \* acquires_allowed_ of mmap_limiter_ and fd_limiter_
  pc,          \* where each thread is
  fds,         \* the descriptors each thread has open
  refused      \* history: Acquire said no while this many were in use
vars == <<allowed, pc, fds, refused>>

Limiters == {"mmap", "fd"}
Limit == [l \in Limiters |-> IF l = "mmap" THEN MmapLimit ELSE FdLimit]
Goto(t, place) == pc' = [pc EXCEPT ![t] = place]
FdsOf(t, n) == fds' = [fds EXCEPT ![t] = n]
Add(l, n) == allowed' = [allowed EXCEPT ![l] = @ + n]

Init ==
  /\ allowed = Limit
  /\ pc = [t \in Threads |-> "none"]
  /\ fds = [t \in Threads |-> 0]
  /\ refused = [l \in Limiters |-> Limit[l]]

\* Who has a resource of a limiter: files that keep one, and threads about to
\* make such a file.
Using(l) == {t \in Threads : pc[t] \in IF l = "mmap" THEN {"mapping", "map_failed", "mapped", "unmapped"}
                                       ELSE {"kept", "closed"}}

\* ::open; a file that is not there is an error.
Open(t) == pc[t] = "none" /\ FdsOf(t, 1) /\ Goto(t, "opened") /\ UNCHANGED <<allowed, refused>>

\* The first step of Acquire: fetch_sub, and what its old value says.
Acquire(t, l, from, yes, no) ==
  /\ pc[t] = from
  /\ Add(l, -1)
  /\ Goto(t, IF allowed[l] > 0 THEN yes ELSE no)
  /\ refused' = IF allowed[l] > 0 THEN refused ELSE [refused EXCEPT ![l] = Cardinality(Using(l))]
  /\ UNCHANGED fds

\* The second step of an Acquire that fails.
Undo(t, l, from, to) == pc[t] = from /\ Add(l, 1) /\ Goto(t, to) /\ UNCHANGED <<fds, refused>>

AcquireMmap(t) == Acquire(t, "mmap", "opened", "mapping", "no_map")
UndoMmap(t) == Undo(t, "mmap", "no_map", "random")

\* GetFileSize and mmap; the descriptor is closed either way.
Map(t) == pc[t] = "mapping" /\ FdsOf(t, 0) /\ Goto(t, "mapped") /\ UNCHANGED <<allowed, refused>>

MapFails(t) == pc[t] = "mapping" /\ FdsOf(t, 0) /\ Goto(t, "map_failed") /\ UNCHANGED <<allowed, refused>>
MapFailed(t) == pc[t] = "map_failed" /\ Add("mmap", 1) /\ Goto(t, "none") /\ UNCHANGED <<fds, refused>>

\* PosixRandomAccessFile.
AcquireFd(t) == Acquire(t, "fd", "random", "kept", "no_fd")
UndoFd(t) == Undo(t, "fd", "no_fd", "close_it")
CloseIt(t) == pc[t] = "close_it" /\ FdsOf(t, 0) /\ Goto(t, "by_name") /\ UNCHANGED <<allowed, refused>>

\* Read from a file that is opened for it; open may fail.
OpenToRead(t) == pc[t] = "by_name" /\ FdsOf(t, 1) /\ Goto(t, "reading") /\ UNCHANGED <<allowed, refused>>
ReadDone(t) == pc[t] = "reading" /\ FdsOf(t, 0) /\ Goto(t, "by_name") /\ UNCHANGED <<allowed, refused>>

\* The destructors: the resource first, then the limiter.
Unmap(t) == pc[t] = "mapped" /\ Goto(t, "unmapped") /\ UNCHANGED <<allowed, fds, refused>>
ReleaseMmap(t) == pc[t] = "unmapped" /\ Add("mmap", 1) /\ Goto(t, "none") /\ UNCHANGED <<fds, refused>>

CloseFd(t) == pc[t] = "kept" /\ FdsOf(t, 0) /\ Goto(t, "closed") /\ UNCHANGED <<allowed, refused>>
ReleaseFd(t) == pc[t] = "closed" /\ Add("fd", 1) /\ Goto(t, "none") /\ UNCHANGED <<fds, refused>>
Forget(t) == pc[t] = "by_name" /\ Goto(t, "none") /\ UNCHANGED <<allowed, fds, refused>>

NewRandomAccessFile(t) ==
  \/ Open(t) \/ AcquireMmap(t) \/ UndoMmap(t) \/ Map(t) \/ MapFails(t) \/ MapFailed(t)
  \/ AcquireFd(t) \/ UndoFd(t) \/ CloseIt(t)
UseFile(t) == OpenToRead(t) \/ ReadDone(t)
DeleteFile(t) == Unmap(t) \/ ReleaseMmap(t) \/ CloseFd(t) \/ ReleaseFd(t) \/ Forget(t)
Next == \E t \in Threads : NewRandomAccessFile(t) \/ UseFile(t) \/ DeleteFile(t)
Spec == Init /\ [][Next]_vars
-----------------------------------------------------------------------------
\* The threads between the two steps of an Acquire that fails.
Failing(l) == {t \in Threads : pc[t] = IF l = "mmap" THEN "no_map" ELSE "no_fd"}

\* The counters are conserved: what is allowed, what is in use and what is
\* being given back after an Acquire in vain add up to the limit.
Conserved ==
  \A l \in Limiters : allowed[l] + Cardinality(Using(l)) + Cardinality(Failing(l)) = Limit[l]

\* The limits hold whatever the threads do, and a descriptor that stays open
\* is one the limiter knows of.
Within ==
  /\ \A l \in Limiters : Cardinality(Using(l)) <= Limit[l]
  /\ \A t \in Threads : pc[t] \in {"none", "mapped", "unmapped", "by_name", "closed"} => fds[t] = 0

\* "If another resource is available, acquire it and return true.  Else return
\* false." (env_posix.cc, Limiter::Acquire).
RefusedOnlyWhenFull == \A l \in Limiters : refused[l] = Limit[l]
=============================================================================
