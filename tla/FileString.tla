----------------------------- MODULE FileString -----------------------------
(***************************************************************************)
(* The file CURRENT: SetCurrentFile (db/filename.cc) writes a string to a   *)
(* temporary file and renames it (util/env.cc), and a later open reads it   *)
(* with ReadFileToString in fragments.  Calls of the system may fail, write *)
(* or read less than they were asked to, or be interrupted, and the process *)
(* may exit between any two of them.  A file is a sequence of characters.   *)
(***************************************************************************)
EXTENDS Integers, Sequences, FiniteSets, SequencesExt, TLAPS

CONSTANTS
  Strings,        \* bound: what is written, each string with its newline
  kBufferSize,    \* 8192 in the code
  MaxFailures, MaxWrites    \* bounds

VARIABLES
  fs,         \* files by their names
  pc,         \* where SetCurrentFile or ReadFileToString is
  s,          \* its status
  contents,   \* the string that is written
  offset,     \* read offset of the SequentialFile
  data,       \* what ReadFileToString has so far
  failures, writes,
  before      \* history: CURRENT when the call started
vars == <<fs, pc, s, contents, offset, data, failures, writes, before>>

Absent == <<"absent">>
Tmp == "tmp"
Current == "CURRENT"

Init ==
  /\ fs \in {[n \in {Current, Tmp} |-> IF n = Current THEN c ELSE Absent] : c \in Strings}
  /\ pc = "idle" /\ s = "ok" /\ contents = <<>> /\ offset = 0 /\ data = <<>>
  /\ failures = 0 /\ writes = 0 /\ before = fs[Current]

Fail == failures < MaxFailures /\ failures' = failures + 1 /\ s' = "error"
Works == s' = "ok" /\ UNCHANGED failures
Goto(p) == pc' = p
SameWrite == UNCHANGED <<contents, offset, data, writes, before>>

\* TempFileName
Target == Tmp

SetCurrentFile(str) ==
  /\ pc = "idle" /\ writes < MaxWrites
  /\ contents' = str /\ writes' = writes + 1 /\ before' = fs[Current]
  /\ Goto("open") /\ s' = "ok"
  /\ UNCHANGED <<fs, offset, data, failures>>

\* NewWritableFile truncates the file.
OpenFile ==
  /\ pc = "open" /\ SameWrite
  /\ \/ Works /\ fs' = [fs EXCEPT ![Target] = <<>>] /\ Goto("append")
     \/ Fail /\ UNCHANGED fs /\ Goto("delete tmp")

\* Append and the write of its buffer: all of it, or part of it and an error.
AppendData ==
  /\ pc = "append" /\ SameWrite
  /\ \/ Works /\ fs' = [fs EXCEPT ![Target] = contents] /\ Goto("sync")
     \/ /\ Fail /\ Goto("delete file")
        /\ \E n \in 0..(Len(contents) - 1) : fs' = [fs EXCEPT ![Target] = SubSeq(contents, 1, n)]

SyncFile ==
  /\ pc = "sync" /\ SameWrite /\ UNCHANGED fs
  /\ (Works /\ Goto("close")) \/ (Fail /\ Goto("delete file"))

CloseFile ==
  /\ pc = "close" /\ SameWrite /\ UNCHANGED fs
  /\ (Works /\ Goto("rename")) \/ (Fail /\ Goto("delete file"))

Unlinked(n) == fs' = [fs EXCEPT ![n] = Absent] /\ UNCHANGED failures

\* DeleteFile, whose status is not looked at.
DeleteOnError(p) ==
  /\ Goto(p)
  /\ \/ Unlinked(Target)
     \/ failures < MaxFailures /\ failures' = failures + 1 /\ UNCHANGED fs

DeleteFile == pc = "delete file" /\ SameWrite /\ UNCHANGED s /\ DeleteOnError("delete tmp")

RenameFile ==
  /\ pc = "rename" /\ SameWrite
  /\ \/ Works /\ fs' = [fs EXCEPT ![Current] = fs[Target], ![Target] = Absent] /\ Goto("idle")
     \/ Fail /\ UNCHANGED fs /\ Goto("delete tmp")

DeleteTmp == pc = "delete tmp" /\ SameWrite /\ UNCHANGED s /\ DeleteOnError("idle")
-----------------------------------------------------------------------------
ReadFileToString ==
  /\ pc = "idle"
  /\ data' = <<>> /\ offset' = 0 /\ before' = fs[Current]
  /\ \/ Works /\ Goto("read")
     \/ Fail /\ Goto("idle")
  /\ UNCHANGED <<fs, contents, writes>>

LastFragment(fragment) == fragment = <<>>

\* PosixSequentialFile::Read: read() gives between one and n characters, none at the
\* end, or an error; an interrupted call is made again, which changes nothing.
Read ==
  /\ pc = "read" /\ UNCHANGED <<fs, contents, writes, before>>
  /\ \/ LET left == Len(fs[Current]) - offset
            most == IF left < kBufferSize THEN left ELSE kBufferSize
        IN \E n \in (IF left = 0 THEN {0} ELSE 1..most) :
             LET fragment == SubSeq(fs[Current], offset + 1, offset + n) IN
             /\ data' = data \o fragment /\ offset' = offset + n
             /\ Goto(IF LastFragment(fragment) THEN "got" ELSE "read")
             /\ Works
     \/ Fail /\ Goto("idle") /\ UNCHANGED <<data, offset>>

ReadDone == pc = "got" /\ Goto("idle") /\ UNCHANGED <<fs, s, contents, offset, data, failures, writes, before>>

\* The process exits and is started again.
Exit ==
  /\ pc # "idle"
  /\ Goto("idle") /\ s' = "ok"
  /\ contents' = <<>> /\ offset' = 0 /\ data' = <<>> /\ before' = fs[Current]
  /\ UNCHANGED <<fs, failures, writes>>

Next ==
  \/ \E str \in Strings : SetCurrentFile(str)
  \/ OpenFile \/ AppendData \/ SyncFile \/ CloseFile \/ DeleteFile \/ RenameFile \/ DeleteTmp
  \/ ReadFileToString \/ Read \/ ReadDone \/ Exit
Spec == Init /\ [][Next]_vars
-----------------------------------------------------------------------------
\* CURRENT is one of the strings written, whole, at every moment, so that an
\* exit at any of them leaves a database that can be opened.
CurrentWhole == fs[Current] \in Strings

\* A read that succeeds gives the whole file, whatever fragments it came in.
ReadWhole == pc = "got" => data = fs[Current]

\* SetCurrentFile that fails changes nothing: CURRENT is as it was, and unless a
\* DeleteFile fails too, the temporary file is gone.
FailedUndone ==
  pc # "idle" /\ pc' = "idle" /\ s = "error" /\ s' = "error" =>
    fs'[Current] = before /\ (failures' = failures => fs'[Tmp] = Absent)
-----------------------------------------------------------------------------
(* Proofs, for any strings, sizes of the buffer and failures.               *)

Chars == UNION {Range(str) : str \in Strings}

StringAssumption == Strings \subseteq Seq(Chars) /\ kBufferSize \in Nat

\* Where SetCurrentFile is, before and after the data is in the file.
Writing == {"open", "append"}
Written == {"sync", "close", "rename"}
Undoing == {"delete file", "delete tmp"}
Reading == {"read", "got"}

TypeOK ==
  /\ DOMAIN fs = {Current, Tmp}
  /\ pc \in {"idle"} \union Writing \union Written \union Undoing \union Reading
  /\ failures \in Nat

\* The temporary file is complete before it gets the name CURRENT.
TmpComplete ==
  /\ pc \in Writing \union Written => contents \in Strings
  /\ pc \in Written => fs[Tmp] = contents

\* While a call is under way CURRENT is as it found it, and what a read has is
\* the part of it up to the offset.
Untouched == pc # "idle" => fs[Current] = before
PartRead ==
  pc \in Reading =>
    /\ s = "ok"
    /\ offset \in 0..Len(fs[Current]) /\ data = SubSeq(fs[Current], 1, offset)
    /\ pc = "got" => offset = Len(fs[Current])

IInv == TypeOK /\ CurrentWhole /\ TmpComplete /\ Untouched /\ PartRead

\* A fragment extends what was read by what follows it (ReadFileToString).
LEMMA FragmentExtends ==
  ASSUME NEW C, NEW f \in Seq(C), NEW o \in 0..Len(f), NEW n \in 0..(Len(f) - o)
  PROVE  /\ SubSeq(f, 1, o) \o SubSeq(f, o + 1, o + n) = SubSeq(f, 1, o + n)
         /\ SubSeq(f, o + 1, o + n) = <<>> <=> n = 0
<1> DEFINE a == SubSeq(f, 1, o)
           b == SubSeq(f, o + 1, o + n)
           r == SubSeq(f, 1, o + n)
<1>1. /\ Len(f) \in Nat /\ o \in Nat /\ n \in Nat /\ o + n \in 0..Len(f)
      /\ f \in [1..Len(f) -> C]
  OBVIOUS
<1>2. a \in Seq(C) /\ Len(a) = o /\ \A i \in 1..o : a[i] = f[i]
  BY <1>1
<1>3. b \in Seq(C) /\ Len(b) = n /\ \A i \in 1..n : b[i] = f[o + i]
  BY <1>1
<1>4. r \in Seq(C) /\ Len(r) = o + n /\ \A i \in 1..(o + n) : r[i] = f[i]
  BY <1>1
<1> HIDE DEF a, b, r
<1>5. a \o b \in Seq(C) /\ Len(a \o b) = o + n
  BY <1>1, <1>2, <1>3
<1>6. \A i \in 1..(o + n) : (a \o b)[i] = r[i]
  <2> SUFFICES ASSUME NEW i \in 1..(o + n) PROVE (a \o b)[i] = r[i]
    OBVIOUS
  <2>1. CASE i \in 1..o
    BY <1>1, <1>2, <1>3, <1>4, <2>1
  <2>2. CASE i \in (o + 1)..(o + n)
    <3>1. i - o \in 1..n /\ o + (i - o) = i
      BY <1>1, <2>2
    <3>2. (a \o b)[i] = b[i - o]
      <4>1. i \in 1..(Len(a) + Len(b)) /\ ~(i <= Len(a))
        BY <1>1, <1>2, <1>3, <2>2
      <4> QED
        BY <1>2, <1>3, <4>1
    <3> QED
      BY <1>3, <1>4, <3>1, <3>2
  <2>3. i \in 1..o \/ i \in (o + 1)..(o + n)
    BY <1>1
  <2> QED
    BY <2>1, <2>2, <2>3
<1>7. a \o b = r
  BY <1>4, <1>5, <1>6
<1>8. b = <<>> <=> n = 0
  BY <1>3
<1> QED
  BY <1>7, <1>8 DEF a, b, r

\* The steps of SetCurrentFile leave CURRENT alone but for the rename.
LEMMA WriteSteps ==
  ASSUME StringAssumption, IInv,
         \/ \E str \in Strings : SetCurrentFile(str)
         \/ OpenFile \/ AppendData \/ SyncFile \/ CloseFile \/ DeleteFile \/ RenameFile \/ DeleteTmp
  PROVE  IInv'
<1> USE DEF Writing, Written, Undoing, Reading
<1>1. pc' \notin Reading => PartRead'
  BY DEF PartRead
<1>2. /\ DOMAIN fs = {Current, Tmp} /\ Current # Tmp /\ failures \in Nat
      /\ fs[Current] \in Strings /\ TmpComplete /\ Untouched
  BY DEF IInv, TypeOK, CurrentWhole, Current, Tmp
<1>3. ASSUME NEW v, fs' = [fs EXCEPT ![Target] = v]
      PROVE  DOMAIN fs' = {Current, Tmp} /\ fs'[Current] = fs[Current] /\ fs'[Tmp] = v
  BY <1>2, <1>3 DEF Target
<1>4. Works \/ Fail => failures' \in Nat
  BY <1>2 DEF Works, Fail
<1>5. ASSUME NEW str \in Strings, SetCurrentFile(str) PROVE IInv'
  <2>1. /\ pc' = "open" /\ contents' = str /\ before' = fs[Current] /\ UNCHANGED <<fs, failures>>
    BY <1>5 DEF SetCurrentFile, Goto
  <2> QED
    BY <1>1, <1>2, <2>1 DEF IInv, TypeOK, CurrentWhole, TmpComplete, Untouched
<1>6. CASE OpenFile
  <2>1. pc = "open" /\ UNCHANGED <<contents, before>> /\ (pc' = "append" \/ pc' = "delete tmp")
    BY <1>6 DEF OpenFile, SameWrite, Goto
  <2>2. failures' \in Nat
    BY <1>4, <1>6 DEF OpenFile
  <2>3. DOMAIN fs' = {Current, Tmp} /\ fs'[Current] = fs[Current]
    BY <1>2, <1>3, <1>6 DEF OpenFile
  <2> QED
    BY <1>1, <1>2, <2>1, <2>2, <2>3 DEF IInv, TypeOK, CurrentWhole, TmpComplete, Untouched
<1>7. CASE AppendData
  <2>1. pc = "append" /\ UNCHANGED <<contents, before>> /\ (pc' = "sync" \/ pc' = "delete file")
    BY <1>7 DEF AppendData, SameWrite, Goto
  <2>2. failures' \in Nat
    BY <1>4, <1>7 DEF AppendData
  <2>3. DOMAIN fs' = {Current, Tmp} /\ fs'[Current] = fs[Current]
    BY <1>2, <1>3, <1>7 DEF AppendData
  <2>4. pc' = "sync" => fs'[Tmp] = contents
    <3>1. pc' = "sync" => fs' = [fs EXCEPT ![Target] = contents]
      BY <1>7 DEF AppendData, Goto
    <3> QED
      BY <1>3, <3>1
  <2> QED
    BY <1>1, <1>2, <2>1, <2>2, <2>3, <2>4 DEF IInv, TypeOK, CurrentWhole, TmpComplete, Untouched
<1>8. CASE SyncFile \/ CloseFile
  <2>1. /\ pc \in {"sync", "close"} /\ UNCHANGED <<contents, before, fs>>
        /\ pc' \in {"close", "rename", "delete file"}
    BY <1>8 DEF SyncFile, CloseFile, SameWrite, Goto
  <2>2. failures' \in Nat
    BY <1>4, <1>8 DEF SyncFile, CloseFile
  <2> QED
    BY <1>1, <1>2, <2>1, <2>2 DEF IInv, TypeOK, CurrentWhole, TmpComplete, Untouched
<1>9. CASE DeleteFile \/ DeleteTmp
  <2>1. pc \in Undoing /\ UNCHANGED <<contents, before>> /\ (pc' = "delete tmp" \/ pc' = "idle")
    BY <1>9 DEF DeleteFile, DeleteTmp, DeleteOnError, SameWrite, Goto
  <2>2. failures' \in Nat
    <3>1. failures' = failures \/ failures' = failures + 1
      BY <1>9 DEF DeleteFile, DeleteTmp, DeleteOnError, Unlinked
    <3> QED
      BY <1>2, <3>1
  <2>3. DOMAIN fs' = {Current, Tmp} /\ fs'[Current] = fs[Current]
    <3>1. fs' = [fs EXCEPT ![Target] = Absent] \/ UNCHANGED fs
      BY <1>9 DEF DeleteFile, DeleteTmp, DeleteOnError, Unlinked
    <3> QED
      BY <1>2, <1>3, <3>1
  <2> QED
    BY <1>1, <1>2, <2>1, <2>2, <2>3 DEF IInv, TypeOK, CurrentWhole, TmpComplete, Untouched
<1>10. CASE RenameFile
  <2>1. pc = "rename" /\ UNCHANGED <<contents, before>> /\ (pc' = "idle" \/ pc' = "delete tmp")
    BY <1>10 DEF RenameFile, SameWrite, Goto
  <2>2. failures' \in Nat
    BY <1>4, <1>10 DEF RenameFile
  <2>3. fs[Tmp] \in Strings
    BY <1>2, <2>1 DEF TmpComplete
  <2>4. \/ pc' = "idle" /\ DOMAIN fs' = {Current, Tmp} /\ fs'[Current] = fs[Tmp]
        \/ UNCHANGED fs
    BY <1>2, <1>10 DEF RenameFile, Target, Goto
  <2> QED
    BY <1>1, <1>2, <2>1, <2>2, <2>3, <2>4 DEF IInv, TypeOK, CurrentWhole, TmpComplete, Untouched
<1> QED
  BY <1>5, <1>6, <1>7, <1>8, <1>9, <1>10

\* The steps of a read, and an exit at any place.
LEMMA ReadSteps ==
  ASSUME StringAssumption, IInv, ReadFileToString \/ Read \/ ReadDone \/ Exit
  PROVE  IInv'
<1>1. fs[Current] \in Seq(Chars)
  BY DEF StringAssumption, IInv, CurrentWhole
<1> DEFINE f == fs[Current]
<1>2. CASE ReadFileToString
  <2>1. SubSeq(f, 1, 0) = <<>> /\ 0 \in 0..Len(f)
    <3> HIDE DEF f
    <3> QED
      BY <1>1
  <2>2. /\ data' = <<>> /\ offset' = 0 /\ before' = fs[Current] /\ UNCHANGED <<fs, contents>>
        /\ failures' \in Nat
        /\ (pc' = "read" /\ s' = "ok") \/ pc' = "idle"
    BY <1>2 DEF ReadFileToString, Goto, Works, Fail, IInv, TypeOK
  <2>3. TmpComplete' /\ Untouched' /\ CurrentWhole'
    BY <2>2 DEF IInv, CurrentWhole, TmpComplete, Untouched, Writing, Written
  <2>4. PartRead'
    BY <2>1, <2>2 DEF PartRead, Reading
  <2>5. TypeOK'
    BY <2>2 DEF IInv, TypeOK, Reading
  <2> QED
    BY <2>3, <2>4, <2>5 DEF IInv
<1> USE DEF IInv, TypeOK, Writing, Written, Undoing, Reading, Goto, Works, Fail
<1>3. CASE Read
  <2>1. /\ pc = "read" /\ UNCHANGED <<fs, contents, writes, before>> /\ s = "ok"
        /\ offset \in 0..Len(fs[Current]) /\ data = SubSeq(fs[Current], 1, offset)
    BY <1>3 DEF Read, PartRead
  <2>2. CASE Fail /\ Goto("idle")
    BY <2>1, <2>2 DEF CurrentWhole, TmpComplete, Untouched, PartRead
  <2> DEFINE left == Len(fs[Current]) - offset
             most == IF left < kBufferSize THEN left ELSE kBufferSize
             frag(n) == SubSeq(fs[Current], offset + 1, offset + n)
  <2>3. ASSUME NEW n \in (IF left = 0 THEN {0} ELSE 1..most),
               data' = data \o frag(n), offset' = offset + n,
               Goto(IF LastFragment(frag(n)) THEN "got" ELSE "read"), Works
        PROVE  IInv'
    <3>1. n \in 0..(Len(fs[Current]) - offset) /\ (n = 0 => offset = Len(fs[Current]))
      BY <1>1, <2>1 DEF StringAssumption
    <3>2. /\ SubSeq(fs[Current], 1, offset) \o frag(n) = SubSeq(fs[Current], 1, offset + n)
          /\ frag(n) = <<>> <=> n = 0
      BY <1>1, <2>1, <3>1, FragmentExtends
    <3>3. offset + n \in 0..Len(fs[Current])
      BY <1>1, <2>1, <3>1
    <3>4. data' = SubSeq(fs[Current], 1, offset')
      BY <2>1, <2>3, <3>2
    <3>5. pc' = (IF n = 0 THEN "got" ELSE "read")
      BY <2>3, <3>2 DEF LastFragment
    <3>6. pc' = "got" => offset' = Len(fs[Current])
      BY <1>1, <2>1, <2>3, <3>1, <3>5
    <3> HIDE DEF frag, left
    <3> QED
      BY <2>1, <2>3, <3>3, <3>4, <3>5, <3>6 DEF CurrentWhole, TmpComplete, Untouched, PartRead
  <2> QED
    BY <1>3, <2>2, <2>3 DEF Read
<1>4. CASE ReadDone
  BY <1>4 DEF ReadDone, CurrentWhole, TmpComplete, Untouched, PartRead
<1>5. CASE Exit
  BY <1>5 DEF Exit, CurrentWhole, TmpComplete, Untouched, PartRead
<1> QED
  BY <1>2, <1>3, <1>4, <1>5

\* The invariant.
LEMMA Invariance == ASSUME StringAssumption PROVE Spec => []IInv
<1>1. Init => IInv
  BY DEF Init, IInv, TypeOK, CurrentWhole, TmpComplete, Untouched, PartRead, Writing, Written,
         Undoing, Reading, Current, Tmp
<1>2. IInv /\ [Next]_vars => IInv'
  <2>1. IInv /\ UNCHANGED vars => IInv'
    BY DEF vars, IInv, TypeOK, CurrentWhole, TmpComplete, Untouched, PartRead
  <2> QED
    BY <2>1, WriteSteps, ReadSteps DEF Next
<1> QED
  BY <1>1, <1>2, PTL DEF Spec

\* CURRENT is one of the strings written, whole, at every moment, whatever calls
\* fail and wherever the process exits (SetCurrentFile).
THEOREM CurrentIsWhole == ASSUME StringAssumption PROVE Spec => []CurrentWhole
<1>1. IInv => CurrentWhole
  BY DEF IInv
<1> QED
  BY <1>1, Invariance, PTL

\* A read that succeeds gives the whole file, in whatever fragments the system
\* handed it out (ReadFileToString).
THEOREM ReadsAreWhole == ASSUME StringAssumption PROVE Spec => []ReadWhole
<1>1. IInv => ReadWhole
  <2> SUFFICES ASSUME IInv, pc = "got" PROVE data = fs[Current]
    BY DEF ReadWhole
  <2>1. fs[Current] \in Seq(Chars) /\ data = SubSeq(fs[Current], 1, Len(fs[Current]))
    BY DEF IInv, PartRead, Reading, StringAssumption, CurrentWhole
  <2> QED
    BY <2>1
<1> QED
  BY <1>1, Invariance, PTL

\* A SetCurrentFile that fails leaves CURRENT as it was and no temporary file,
\* unless a DeleteFile fails as well (WriteStringToFileSync, SetCurrentFile).
THEOREM FailuresUndone == ASSUME StringAssumption PROVE Spec => [][FailedUndone]_vars
<1>1. IInv /\ [Next]_vars => [FailedUndone]_vars
  <2> SUFFICES ASSUME IInv, Next, pc # "idle", pc' = "idle", s = "error", s' = "error"
               PROVE  fs'[Current] = before /\ (failures' = failures => fs'[Tmp] = Absent)
    BY DEF FailedUndone
  <2> USE DEF Goto, Works, Fail
  <2>1. DeleteTmp
    BY DEF Next, SetCurrentFile, OpenFile, AppendData, SyncFile, CloseFile, DeleteFile, DeleteOnError,
           RenameFile, ReadFileToString, Read, ReadDone, Exit, IInv, PartRead, Reading
  <2>2. failures \in Nat /\ fs[Current] = before /\ DOMAIN fs = {Current, Tmp}
    BY DEF IInv, TypeOK, Untouched
  <2> QED
    <3>1. \/ fs' = [fs EXCEPT ![Tmp] = Absent]
          \/ UNCHANGED fs /\ failures' = failures + 1
      BY <2>1 DEF DeleteTmp, DeleteOnError, Unlinked, Target
    <3>2. Current # Tmp
      BY DEF Current, Tmp
    <3> QED
      BY <2>2, <3>1, <3>2
<1> QED
  BY <1>1, Invariance, PTL DEF Spec
=============================================================================
