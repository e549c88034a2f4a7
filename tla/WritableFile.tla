---------------------------- MODULE WritableFile ----------------------------
(***************************************************************************)
(* PosixWritableFile: what is appended is collected in a buffer, goes to   *)
(* the system when the buffer is full or flushed, and to the disk when it  *)
(* is synced.  write(2) may fail after any number of bytes; a call that is *)
(* interrupted is made again.                                              *)
(*                                                                         *)
(* The k-th byte that is appended carries the number of files created      *)
(* before it: a manifest names files, whose directory entries are on the   *)
(* disk only after the directory is synced.                                *)
(***************************************************************************)
EXTENDS Integers, Sequences, SequencesExt, FiniteSetsExt

CONSTANTS
  BufferSize,    \* kWritableFileBufferSize, 65536 in the code
  Sizes,         \* the lengths of what is appended
  IsManifest,    \* is_manifest_
  WritesBack,    \* whether the system writes its pages to the disk by itself
  Faults,        \* bound: system calls that fail
  MaxBytes,      \* bound
  MaxFiles       \* bound: files created

VARIABLES
  buf,        \* buf_[0, pos_ - 1]
  fd,         \* fd_ >= 0
  file,       \* what the system has
  disk,       \* how much of it is on the disk
  created,    \* files created in the directory
  dir,        \* how many of their entries are on the disk
  faults,     \* system calls that failed
  appended,   \* history: what the callers appended
  result      \* the last call and its status
vars == <<buf, fd, file, disk, created, dir, faults, appended, result>>

Init ==
  /\ buf = <<>> /\ fd = TRUE /\ file = <<>> /\ disk = 0
  /\ created = 0 /\ dir = 0 /\ faults = 0
  /\ appended = <<>>
  /\ result = [call |-> "open", ok |-> TRUE]

MayFail == faults < Faults
Return(call, ok) == result' = [call |-> call, ok |-> ok] /\ faults' = IF ok THEN faults ELSE faults + 1

\* How much of size bytes WriteUnbuffered gets to the system: all of it, or any
\* number before an error.
Written(size) == {n \in 0..size : n = size \/ MayFail}
Prefix(s, n) == SubSeq(s, 1, n)
Rest(s, n) == SubSeq(s, n + 1, Len(s))

NextBytes(n) == [i \in 1..n |-> [id |-> Len(appended) + i, refers |-> created]]

\* pos_ = 0 whether the buffer was written or not.
AfterFailedFlush(all, n) == <<>>

\* As much as fits into the buffer.
CopySize(n) == Min({n, BufferSize - Len(buf)})

AppendData(n) ==
  LET data == NextBytes(n)
      copy == CopySize(n)
      all == buf \o Prefix(data, copy)
      rest == Rest(data, copy)
  IN /\ fd
     /\ Len(appended) + n <= MaxBytes
     /\ appended' = appended \o data
     /\ IF rest = <<>> THEN buf' = all /\ UNCHANGED file /\ Return("append", TRUE)
        ELSE \E w \in Written(Len(all)) :
          IF w < Len(all)
          THEN buf' = AfterFailedFlush(all, w) /\ file' = file \o Prefix(all, w) /\ Return("append", FALSE)
          ELSE IF Len(rest) < BufferSize
          THEN buf' = rest /\ file' = file \o all /\ Return("append", TRUE)
          ELSE \E v \in Written(Len(rest)) :
            buf' = <<>> /\ file' = file \o all \o Prefix(rest, v) /\ Return("append", v = Len(rest))
     /\ UNCHANGED <<fd, disk, created, dir>>

Flush ==
  /\ fd
  /\ \E w \in Written(Len(buf)) :
       /\ file' = file \o Prefix(buf, w)
       /\ buf' = IF w < Len(buf) THEN AfterFailedFlush(buf, w) ELSE <<>>
       /\ Return("flush", w = Len(buf))
  /\ UNCHANGED <<fd, disk, created, dir, appended>>

\* The directory is opened and synced, for a manifest only.
SyncDirFails == IsManifest /\ MayFail /\ Return("sync", FALSE) /\ UNCHANGED <<buf, file, disk, dir>>

\* What is on the disk of the directory when the file itself is synced.
SyncedDir == IF IsManifest THEN created ELSE dir

Sync ==
  /\ fd
  /\ \/ SyncDirFails
     \/ \E w \in Written(Len(buf)) :
          /\ file' = file \o Prefix(buf, w)
          /\ buf' = IF w < Len(buf) THEN AfterFailedFlush(buf, w) ELSE <<>>
          /\ dir' = SyncedDir
          /\ \/ w < Len(buf) /\ Return("sync", FALSE) /\ UNCHANGED disk
             \/ w = Len(buf) /\ MayFail /\ Return("sync", FALSE) /\ UNCHANGED disk
             \/ w = Len(buf) /\ disk' = Len(file') /\ Return("sync", TRUE)
  /\ UNCHANGED <<fd, created, appended>>

\* The destructor closes a file that is still open, and ignores the status.
Close ==
  /\ fd
  /\ fd' = FALSE
  /\ \E w \in Written(Len(buf)) :
       /\ file' = file \o Prefix(buf, w)
       /\ buf' = <<>>
       /\ \/ Return("close", w = Len(buf))
          \/ w = Len(buf) /\ MayFail /\ Return("close", FALSE)
  /\ UNCHANGED <<disk, created, dir, appended>>

\* Another file, written and synced by itself, gets its entry.
Create ==
  /\ created < MaxFiles
  /\ created' = created + 1
  /\ UNCHANGED <<buf, fd, file, disk, dir, faults, appended, result>>

\* The system writes pages of the file when it likes.
WriteBack ==
  /\ WritesBack
  /\ disk < Len(file)
  /\ disk' = disk + 1
  /\ UNCHANGED <<buf, fd, file, created, dir, faults, appended, result>>

Next ==
  \/ \E n \in Sizes : AppendData(n)
  \/ Flush
  \/ Sync
  \/ Close
  \/ Create
  \/ WriteBack
Spec == Init /\ [][Next]_vars
-----------------------------------------------------------------------------
\* The state is well formed: the buffer never holds more than its size, and
\* nothing is on the disk that the system does not have.
TypeOK ==
  /\ Len(buf) <= BufferSize
  /\ disk \in 0..Len(file)
  /\ dir \in 0..created

\* Until a call fails nothing is lost: the file and the buffer are exactly
\* what was appended, and all of it is on the disk once Sync returns ok.
NothingLost ==
  faults = 0 =>
    /\ file \o buf = appended
    /\ result.call = "sync" => disk = Len(appended)

\* After a failed call there may be gaps, but nothing is ever out of order or
\* written twice.
InOrder ==
  LET all == file \o buf
  IN \A i \in 1..(Len(all) - 1) : all[i].id < all[i + 1].id

\* A manifest on the disk names no file whose entry is not on the disk:
\* "This needs to happen before the manifest file is flushed to disk, to avoid
\* crashing in a state where the manifest refers to files that are not yet on
\* disk" (env_posix.cc, Sync).
ManifestSafe == IsManifest => \A i \in 1..disk : file[i].refers <= dir
=============================================================================
