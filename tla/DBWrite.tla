------------------------------ MODULE DBWrite ------------------------------
(***************************************************************************)
(* leveldb's DBImpl under concurrent callers: the queue of writers, the    *)
(* group a leader writes for those behind it, the switch to a new memtable *)
(* and the background thread that writes the old one out.  Everything a    *)
(* thread does between taking mutex_ and giving it up (by Unlock, by Wait  *)
(* or by returning) is separated by the variable mutex, so a step is       *)
(* interleaved with others exactly where the code lets it be.              *)
(*                                                                         *)
(* Of the versions only the number of files at level 0 is kept, of a table *)
(* only the entries it holds, of a batch its count and its size.           *)
(***************************************************************************)
EXTENDS Integers, FiniteSets, Sequences, SequencesExt, FiniteSetsExt

CONSTANTS
  Threads,            \* callers of the database
  Batches,            \* what they write: records [count, size]
  Kinds,              \* what they call: "write", "flush" (TEST_CompactMemTable),
                      \* "manual" (TEST_CompactRange)
  kSmallBatch,        \* 128 << 10: room a small batch leaves to others
  kMaxBatch,          \* 1 << 20: largest group
  WriteBufferSize,    \* entries a memtable takes before it is full
  kL0_CompactionTrigger, kL0_SlowdownWritesTrigger, kL0_StopWritesTrigger,
  MaxCalls,           \* bound: calls in a behaviour
  MaxFaults,          \* bound: failures of the file system in a behaviour
  MaxRounds           \* bound: compactions one manual compaction needs

TriggerAssumption ==
  0 < kL0_CompactionTrigger /\ kL0_CompactionTrigger <= kL0_SlowdownWritesTrigger
  /\ kL0_SlowdownWritesTrigger <= kL0_StopWritesTrigger

VARIABLES
  mutex,              \* the thread that holds mutex_, or Free
  pc,                 \* where each caller is
  w,                  \* the Writer, or the ManualCompaction, of each caller
  writers,            \* writers_
  woken,              \* threads whose condition variable was signalled
  group,              \* the leader's batch: its calls and first sequence number
  calls,              \* history: every call made, and how it returned
  log,                \* records handed to the log, in order
  mem, imm,           \* entries of the memtables; imm is None when imm_ is null
  tables,             \* entries in table files
  level0,             \* versions_->NumLevelFiles(0)
  lastSequence,       \* versions_->LastSequence()
  bgError,            \* ~bg_error_.ok()
  bg,                 \* where the background thread is
  manual,             \* manual_compaction_: the caller it belongs to, or None
  down,               \* shutting_down_, and how far the destructor is
  faults              \* failures so far

callerVars == <<pc, w, writers, group, calls>>
dataVars   == <<log, mem, tables, lastSequence>>
bgVars     == <<imm, level0, bg>>
vars == <<mutex, callerVars, woken, dataVars, bgVars, bgError, manual, down, faults>>

Free   == "free"
Closer == "closer"
None   == [none |-> TRUE]
NoGroup == [ids |-> <<>>, seq |-> 0, n |-> 0]

\* The background thread: at rest, queued in Env::Schedule, or in a part of a
\* compaction that runs without mutex_.  work: inside DoCompactionWork; man: it
\* compacts for manual_compaction_; files: level-0 files it takes away.
At(where, work, man, files) == [at |-> where, work |-> work, man |-> man, files |-> files]
Idle == At("idle", FALSE, FALSE, 0)
Scheduled == At("scheduled", FALSE, FALSE, 0)

Init ==
  /\ mutex = Free /\ writers = <<>> /\ woken = {} /\ group = NoGroup
  /\ pc = [t \in Threads |-> "idle"]
  /\ w = [t \in Threads |-> None]
  /\ calls = <<>> /\ log = <<>> /\ mem = {} /\ imm = None /\ tables = {}
  /\ level0 = 0 /\ lastSequence = 0 /\ bgError = FALSE
  /\ bg = Idle /\ manual = None /\ down = "open" /\ faults = 0

Sum(s) == FoldLeft(LAMBDA a, b : a + b, 0, s)
Goto(t, l) == pc' = [pc EXCEPT ![t] = l]
Fault == faults < MaxFaults /\ faults' = faults + 1
NoFault == UNCHANGED faults

\* background_work_finished_signal_.SignalAll()
SignalAll ==
  woken \cup {t \in Threads : pc[t] \in {"roomwait", "flushwait", "manualwait"}} \cup {Closer}

RecordBackgroundError ==
  /\ bgError' = TRUE
  /\ woken' = IF bgError THEN woken ELSE SignalAll

NeedsCompaction(l0) == l0 >= kL0_CompactionTrigger

MaybeScheduleCompaction_NoManual(b, err, i, m, l0) ==
  IF b = Idle /\ down = "open" /\ ~err /\ (i # None \/ NeedsCompaction(l0)) THEN Scheduled ELSE b

\* The background thread after MaybeScheduleCompaction, which found it at b.
MaybeScheduleCompaction(b, err, i, m, l0) ==
  IF b = Idle /\ down = "open" /\ ~err /\ (i # None \/ m # None \/ NeedsCompaction(l0))
  THEN Scheduled ELSE b

-----------------------------------------------------------------------------
(* The queue of writers. *)

Write(t, kind, b, sync) ==
  /\ pc[t] = "idle" /\ mutex = Free /\ down = "open" /\ Len(calls) < MaxCalls
  /\ kind = "flush" => ~sync /\ b = None
  /\ kind = "write" => b # None
  /\ calls' = Append(calls, [kind |-> kind, batch |-> b, sync |-> sync, status |-> "pending",
                             had |-> IF kind = "flush" THEN mem ELSE {}])
  /\ w' = [w EXCEPT ![t] = [id |-> Len(calls) + 1, done |-> FALSE, status |-> "pending",
                            force |-> kind = "flush", delay |-> kind # "flush"]]
  /\ writers' = Append(writers, t)
  /\ IF writers = <<>> THEN Goto(t, "room") /\ mutex' = t
                       ELSE Goto(t, "queued") /\ mutex' = mutex
  /\ UNCHANGED <<woken, group, dataVars, bgVars, bgError, manual, down, faults>>

Finish(id, st) == calls' = [calls EXCEPT ![id].status = st]

\* Write returns st to t, where ws are the Writers: to the caller, or to
\* TEST_CompactMemTable, which goes on when it is OK.
Return(t, ws, st) ==
  IF calls[ws[t].id].kind = "flush" /\ st = "ok"
  THEN Goto(t, "flush") /\ w' = ws /\ UNCHANGED calls
  ELSE Goto(t, "idle") /\ w' = [ws EXCEPT ![t] = None] /\ Finish(ws[t].id, st)

\* w.cv.Wait() returns; the loop looks at done and at the head again.
Awake(t) ==
  /\ pc[t] = "queued" /\ mutex = Free
  /\ woken' = woken \ {t}
  /\ IF w[t].done THEN Return(t, w, w[t].status) /\ UNCHANGED mutex
     ELSE IF t = Head(writers) THEN Goto(t, "room") /\ mutex' = t /\ UNCHANGED <<w, calls>>
     ELSE UNCHANGED <<pc, w, calls, mutex>>
  /\ UNCHANGED <<writers, group, dataVars, bgVars, bgError, manual, down, faults>>

\* Mutant: the new head of the queue is not woken.
LeaveQueue_NoSignal(t, n, st) ==
  LET others == {writers[i] : i \in 2..n}
  IN  /\ writers' = SubSeq(writers, n + 1, Len(writers))
      /\ woken' = (woken \cup others) \ {t}
      /\ Return(t, [u \in Threads |-> IF u \in others THEN [w[u] EXCEPT !.done = TRUE, !.status = st]
                                      ELSE w[u]], st)
      /\ mutex' = Free

\* The end of Write: the first n writers leave the queue, the others among them
\* learn the status, the new head is woken, the leader returns.
LeaveQueue(t, n, st) ==
  LET rest   == SubSeq(writers, n + 1, Len(writers))
      others == {writers[i] : i \in 2..n}
  IN  /\ writers' = rest
      /\ woken' = (woken \cup others \cup (IF rest = <<>> THEN {} ELSE {Head(rest)})) \ {t}
      /\ Return(t, [u \in Threads |-> IF u \in others THEN [w[u] EXCEPT !.done = TRUE, !.status = st]
                                      ELSE w[u]], st)
      /\ mutex' = Free

\* How many writers at the front of the queue the leader writes for.
BuildBatchGroup ==
  LET call(i)   == calls[w[writers[i]].id]
      size(i)   == IF call(i).batch = None THEN 0 ELSE call(i).batch.size
      limit     == IF size(1) <= kSmallBatch THEN size(1) + kSmallBatch ELSE kMaxBatch
      joins(i)  == /\ ~(call(i).sync /\ ~call(1).sync)
                   /\ call(i).batch = None \/ Sum([j \in 1..i |-> size(j)]) <= limit
      stops     == {i \in 2..Len(writers) : ~joins(i)}
  IN  IF stops = {} THEN Len(writers) ELSE Min(stops) - 1

-----------------------------------------------------------------------------
(* MakeRoomForWrite: one turn of its loop, by the thread at the head. *)

InRoom(t) == pc[t] = "room" /\ mutex = t
Slow(t) == w[t].delay /\ level0 >= kL0_SlowdownWritesTrigger
Room(t) == ~w[t].force /\ Cardinality(mem) <= WriteBufferSize

RoomError(t) ==
  /\ InRoom(t) /\ bgError
  /\ LeaveQueue(t, 1, "error")
  /\ UNCHANGED <<group, dataVars, bgVars, bgError, manual, down, faults>>

RoomSlow(t) ==
  /\ InRoom(t) /\ ~bgError /\ Slow(t)
  /\ Goto(t, "sleep") /\ mutex' = Free
  /\ UNCHANGED <<w, writers, woken, group, calls, dataVars, bgVars, bgError, manual, down, faults>>

SleepEnds(t) ==
  /\ pc[t] = "sleep" /\ mutex = Free
  /\ w' = [w EXCEPT ![t].delay = FALSE]
  /\ Goto(t, "room") /\ mutex' = t
  /\ UNCHANGED <<writers, woken, group, calls, dataVars, bgVars, bgError, manual, down, faults>>

\* There is room: a flush is done, a write forms its group and gives up mutex_.
RoomFound(t) ==
  /\ InRoom(t) /\ ~bgError /\ ~Slow(t) /\ Room(t)
  /\ IF calls[w[t].id].batch = None
     THEN LeaveQueue(t, 1, "ok") /\ UNCHANGED group
     ELSE LET n == BuildBatchGroup
          IN  /\ group' = [ids |-> SelectSeq([i \in 1..n |-> w[writers[i]].id],
                                             LAMBDA id : calls[id].batch # None),
                           seq |-> lastSequence + 1, n |-> n]
              /\ Goto(t, "log") /\ mutex' = Free
              /\ UNCHANGED <<w, writers, woken, calls>>
  /\ UNCHANGED <<dataVars, bgVars, bgError, manual, down, faults>>

Full(t) == InRoom(t) /\ ~bgError /\ ~Slow(t) /\ ~Room(t)
MustWait_Level0Only == level0 >= kL0_StopWritesTrigger

MustWait == imm # None \/ level0 >= kL0_StopWritesTrigger

RoomWait(t) ==
  /\ Full(t) /\ MustWait
  /\ Goto(t, "roomwait") /\ mutex' = Free /\ woken' = woken \ {t}
  /\ UNCHANGED <<w, writers, group, calls, dataVars, bgVars, bgError, manual, down, faults>>

RoomWaitEnds(t) ==
  /\ pc[t] = "roomwait" /\ mutex = Free
  /\ Goto(t, "room") /\ mutex' = t /\ woken' = woken \ {t}
  /\ UNCHANGED <<w, writers, group, calls, dataVars, bgVars, bgError, manual, down, faults>>

SwitchMemTable(t) ==
  /\ Full(t) /\ ~MustWait
  /\ imm' = [entries |-> mem] /\ mem' = {}
  /\ w' = [w EXCEPT ![t].force = FALSE]
  /\ bg' = MaybeScheduleCompaction(bg, bgError, imm', manual, level0)
  /\ UNCHANGED <<mutex, pc, writers, woken, group, calls, log, tables, level0, lastSequence,
                 bgError, manual, down, faults>>

NewLogFails(t) ==
  /\ Full(t) /\ ~MustWait /\ Fault
  /\ LeaveQueue(t, 1, "error")
  /\ UNCHANGED <<group, dataVars, bgVars, bgError, manual, down>>

-----------------------------------------------------------------------------
(* The leader without mutex_: log, sync, memtable. *)

Count(id) == calls[id].batch.count

\* The entries of a group: the calls' operations, numbered from its first number.
Entries(g) ==
  LET base(i)  == g.seq + Sum([j \in 1..(i - 1) |-> Count(g.ids[j])])
  IN  UNION {{[seq |-> base(i) + k, id |-> g.ids[i]] : k \in 0..(Count(g.ids[i]) - 1)}
               : i \in 1..Len(g.ids)}

AddRecord(t) ==
  LET record(st) == [ids |-> group.ids, seq |-> group.seq, state |-> st]
  IN  /\ pc[t] = "log"
      /\ \/ /\ log' = Append(log, record("written")) /\ NoFault
            /\ Goto(t, IF calls[w[t].id].sync THEN "sync" ELSE "insert")
         \/ log' = Append(log, record("torn")) /\ Goto(t, "failed") /\ Fault
      /\ UNCHANGED <<mutex, w, writers, woken, group, calls, mem, tables, lastSequence, bgVars,
                     bgError, manual, down>>

\* A Sync covers every record before it; a failed one leaves its record unknown.
Sync(t) ==
  /\ pc[t] = "sync"
  /\ \/ /\ log' = [i \in 1..Len(log) |-> IF log[i].state = "written"
                                         THEN [log[i] EXCEPT !.state = "synced"] ELSE log[i]]
        /\ Goto(t, "insert") /\ NoFault
     \/ log' = [log EXCEPT ![Len(log)].state = "unknown"] /\ Goto(t, "syncerror") /\ Fault
  /\ UNCHANGED <<mutex, w, writers, woken, group, calls, mem, tables, lastSequence, bgVars, bgError,
                 manual, down>>

InsertInto(t) ==
  /\ pc[t] = "insert"
  /\ mem' = mem \cup Entries(group)
  /\ Goto(t, "written")
  /\ UNCHANGED <<mutex, w, writers, woken, group, calls, log, tables, lastSequence, bgVars, bgError,
                 manual, down, faults>>

\* mutex_ is taken again; a failed Sync ends all writing before the group is let go.
SyncFailed(t) ==
  /\ pc[t] = "syncerror" /\ mutex = Free
  /\ RecordBackgroundError
  /\ mutex' = t /\ Goto(t, "failed")
  /\ UNCHANGED <<w, writers, group, calls, dataVars, bgVars, manual, down, faults>>

WriteEnds(t) ==
  /\ pc[t] \in {"written", "failed"} /\ mutex \in {Free, t}
  /\ lastSequence' = lastSequence + Sum([i \in 1..Len(group.ids) |-> Count(group.ids[i])])
  /\ LeaveQueue(t, group.n, IF pc[t] = "written" THEN "ok" ELSE "error")
  /\ group' = NoGroup
  /\ UNCHANGED <<log, mem, tables, bgVars, bgError, manual, down, faults>>

-----------------------------------------------------------------------------
(* TEST_CompactMemTable after its write, TEST_CompactRange, the destructor. *)

FlushWait(t) ==
  /\ pc[t] \in {"flush", "flushwait"} /\ mutex = Free
  /\ woken' = woken \ {t}
  /\ IF imm # None /\ ~bgError
     THEN Goto(t, "flushwait") /\ UNCHANGED <<w, calls>>
     ELSE /\ Goto(t, "idle") /\ w' = [w EXCEPT ![t] = None]
          /\ Finish(w[t].id, IF imm = None THEN "ok" ELSE "error")
  /\ UNCHANGED <<mutex, writers, group, dataVars, bgVars, bgError, manual, down, faults>>

CompactRange(t) ==
  /\ pc[t] = "idle" /\ mutex = Free /\ down = "open" /\ Len(calls) < MaxCalls
  /\ calls' = Append(calls, [kind |-> "manual", batch |-> None, sync |-> FALSE,
                             status |-> "pending", had |-> {}])
  /\ w' = [w EXCEPT ![t] = [id |-> Len(calls) + 1, done |-> FALSE, left |-> MaxRounds]]
  /\ Goto(t, "manual")
  /\ UNCHANGED <<mutex, writers, woken, group, dataVars, bgVars, bgError, manual, down, faults>>

\* One pass of its loop, up to the Wait or the return.
ManualTurn(t) ==
  /\ pc[t] \in {"manual", "manualwait"} /\ mutex = Free
  /\ woken' = woken \ {t}
  /\ IF ~w[t].done /\ ~bgError
     THEN /\ Goto(t, "manualwait") /\ UNCHANGED <<w, calls>>
          /\ manual' = IF manual = None THEN [by |-> t] ELSE manual
          /\ bg' = IF manual = None THEN MaybeScheduleCompaction(bg, bgError, imm, manual', level0)
                   ELSE bg
     ELSE /\ Goto(t, "idle") /\ w' = [w EXCEPT ![t] = None] /\ Finish(w[t].id, "ok")
          /\ manual' = IF manual = [by |-> t] THEN None ELSE manual
          /\ UNCHANGED bg
  /\ UNCHANGED <<mutex, writers, group, dataVars, imm, level0, bgError, down, faults>>

\* The owner deletes the database when none of its calls is under way.
Close ==
  /\ down = "open" /\ mutex = Free /\ \A t \in Threads : pc[t] = "idle"
  /\ down' = "closing" /\ woken' = woken \cup {Closer}
  /\ UNCHANGED <<mutex, callerVars, dataVars, bgVars, bgError, manual, faults>>

CloseWait ==
  /\ down = "closing" /\ mutex = Free
  /\ woken' = woken \ {Closer}
  /\ down' = IF bg = Idle THEN "closed" ELSE down
  /\ UNCHANGED <<mutex, callerVars, dataVars, bgVars, bgError, manual, faults>>

-----------------------------------------------------------------------------
(* The background thread. *)

\* The end of BackgroundCall, with what the call left behind.
EndCall(err, i, m, l0) ==
  /\ bg' = MaybeScheduleCompaction(Idle, err, i, m, l0)
  /\ woken' = SignalAll

\* The end of a manual round.  The caller may have left and taken its record along.
EndManual(st) ==
  IF manual = None
  THEN down' = "crashed" /\ UNCHANGED <<w, manual>>
  ELSE /\ w' = [w EXCEPT ![manual.by].done = @ \/ st = "error", ![manual.by].left = @ - 1]
       /\ manual' = None /\ UNCHANGED down

BackgroundCall ==
  /\ bg = Scheduled /\ mutex = Free
  /\ IF down # "open" \/ bgError
     THEN EndCall(bgError, imm, manual, level0) /\ UNCHANGED <<w, manual>>
     ELSE IF imm # None
     THEN bg' = At("build", FALSE, FALSE, 0) /\ UNCHANGED <<w, manual, woken>>
     ELSE IF manual # None
     THEN IF w[manual.by].left = 0
          THEN /\ w' = [w EXCEPT ![manual.by].done = TRUE] /\ manual' = None
               /\ EndCall(bgError, imm, None, level0)
          ELSE /\ \E k \in 0..level0 : bg' = At("work", TRUE, TRUE, k)
               /\ UNCHANGED <<w, manual, woken>>
     ELSE IF NeedsCompaction(level0)
     THEN /\ \/ \E k \in 1..level0 : bg' = At("work", TRUE, FALSE, k)
             \/ bg' = At("install", TRUE, FALSE, 1)
          /\ UNCHANGED <<w, manual, woken>>
     ELSE EndCall(bgError, imm, manual, level0) /\ UNCHANGED <<w, manual>>
  /\ UNCHANGED <<mutex, pc, writers, group, calls, dataVars, imm, level0, bgError, down, faults>>

\* The end of CompactMemTable: back to BackgroundCall or to DoCompactionWork.
EndMemTable(err, i, l0) ==
  IF bg.work THEN bg' = At("work", TRUE, bg.man, bg.files) /\ woken' = SignalAll
             ELSE EndCall(err, i, manual, l0)

BuildTable ==
  /\ bg.at = "build" /\ mutex = Free
  /\ \/ /\ down = "open" /\ NoFault
        /\ bg' = [bg EXCEPT !.at = "apply"] /\ UNCHANGED <<bgError, woken>>
     \/ /\ IF down = "open" THEN Fault ELSE NoFault
        /\ bgError' = TRUE /\ EndMemTable(TRUE, imm, level0)
  /\ UNCHANGED <<mutex, callerVars, dataVars, imm, level0, manual, down>>

\* LogAndApply of the new table: at level 0 or deeper, nowhere if it is empty.
ApplyTable ==
  /\ bg.at = "apply" /\ mutex = Free
  /\ \/ /\ NoFault
        /\ tables' = tables \cup imm.entries
        /\ imm' = None
        /\ level0' \in IF imm.entries = {} THEN {level0} ELSE {level0, level0 + 1}
        /\ EndMemTable(bgError, None, level0') /\ UNCHANGED bgError
     \/ /\ Fault /\ bgError' = TRUE
        /\ EndMemTable(TRUE, imm, level0) /\ UNCHANGED <<tables, imm, level0>>
  /\ UNCHANGED <<mutex, callerVars, log, mem, lastSequence, manual, down>>

\* DoCompactionWork sees has_imm_ and writes the memtable out first.
WorkYields ==
  /\ bg.at = "work" /\ mutex = Free /\ imm # None /\ down = "open"
  /\ bg' = [bg EXCEPT !.at = "build"]
  /\ UNCHANGED <<mutex, callerVars, woken, dataVars, imm, level0, bgError, manual, down, faults>>

EndCompaction(err, l0) ==
  /\ IF bg.man THEN EndManual(IF err THEN "error" ELSE "ok") ELSE UNCHANGED <<w, manual, down>>
  /\ EndCall(bgError \/ err, imm, manual', l0)

WorkEnds ==
  /\ bg.at = "work" /\ mutex = Free
  /\ \/ /\ down = "open" /\ NoFault
        /\ bg' = [bg EXCEPT !.at = "install"] /\ UNCHANGED <<bgError, w, manual, down, woken>>
     \/ /\ IF down = "open" THEN Fault ELSE NoFault
        /\ bgError' = TRUE /\ EndCompaction(TRUE, level0)
  /\ UNCHANGED <<mutex, pc, writers, group, calls, dataVars, imm, level0>>

\* LogAndApply of a compaction, or of a trivial move.
Install ==
  /\ bg.at = "install" /\ mutex = Free
  /\ \/ NoFault /\ level0' = level0 - bg.files /\ EndCompaction(FALSE, level0') /\ UNCHANGED bgError
     \/ Fault /\ bgError' = TRUE /\ EndCompaction(TRUE, level0) /\ UNCHANGED level0
  /\ UNCHANGED <<mutex, pc, writers, group, calls, dataVars, imm>>

-----------------------------------------------------------------------------

Call(t) ==
  \/ \E b \in Batches, s \in BOOLEAN : "write" \in Kinds /\ Write(t, "write", b, s)
  \/ "flush" \in Kinds /\ Write(t, "flush", None, FALSE)
  \/ "manual" \in Kinds /\ CompactRange(t)

Step(t) ==
  \/ Awake(t) \/ RoomError(t) \/ RoomSlow(t) \/ SleepEnds(t) \/ RoomFound(t) \/ RoomWait(t)
  \/ RoomWaitEnds(t) \/ SwitchMemTable(t) \/ NewLogFails(t) \/ AddRecord(t) \/ Sync(t)
  \/ InsertInto(t) \/ SyncFailed(t) \/ WriteEnds(t) \/ FlushWait(t) \/ ManualTurn(t)

Background == BackgroundCall \/ BuildTable \/ ApplyTable \/ WorkYields \/ WorkEnds \/ Install

Stopped == down = "closed" /\ UNCHANGED vars

Next ==
  \/ /\ down # "crashed"
     /\ \/ \E t \in Threads : Call(t) \/ Step(t)
        \/ Background \/ Close \/ CloseWait
  \/ Stopped

\* A thread that sleeps on a condition variable runs again once it is signalled;
\* a thread that keeps asking for mutex_ gets it, however often others wake up
\* without reason and take it in between.
Asleep(t) == pc[t] \in {"queued", "roomwait", "flushwait", "manualwait"} /\ t \notin woken

CloserAwake == Closer \in woken

Spec == Init /\ [][Next]_vars

FairSpec ==
  /\ Spec
  /\ \A t \in Threads : SF_vars(~Asleep(t) /\ Step(t))
  /\ SF_vars(Background)
  /\ SF_vars(CloserAwake /\ CloseWait)

-----------------------------------------------------------------------------
(* Properties. *)

Applied == mem \cup tables \cup (IF imm = None THEN {} ELSE imm.entries)
Returned(id, st) == calls[id].kind = "write" /\ calls[id].status = st
Record(id) == {i \in 1..Len(log) : \E k \in 1..Len(log[i].ids) : log[i].ids[k] = id}

TypeOK ==
  /\ mutex \in Threads \cup {Free} /\ woken \subseteq Threads \cup {Closer}
  /\ \A t \in Threads : pc[t] = "idle" <=> w[t] = None
  /\ \A t \in Threads : pc[t] \in {"idle", "queued", "room", "sleep", "roomwait", "log", "sync",
       "insert", "written", "failed", "syncerror", "flush", "flushwait", "manual", "manualwait"}
  /\ bg.at \in {"idle", "scheduled", "build", "apply", "work", "install"}
  /\ level0 \in 0..MaxCalls /\ lastSequence \in Nat /\ down \in {"open", "closing", "closed"}

\* A write that returned OK is applied, all of it, with numbers no other write
\* has; one that returned an error left nothing in the memtables; and a write
\* that asked for Sync and got OK lies in a record some Sync covered, whoever
\* wrote it (Write, BuildBatchGroup).
StatusIsOfBatch ==
  /\ \A id \in 1..Len(calls) :
       /\ Returned(id, "ok") =>
            /\ Cardinality({e \in Applied : e.id = id}) = Count(id)
            /\ calls[id].sync => \E i \in Record(id) : log[i].state = "synced"
       /\ Returned(id, "error") => \A e \in Applied : e.id # id
  /\ \A d, e \in Applied : d.seq = e.seq => d = e

\* Writes become visible in the order of the queue: the numbers of the log's
\* records ascend, without overlap, and every call is in one record at most.
LogOrdered ==
  \A i, j \in 1..Len(log) : i < j =>
    /\ log[i].seq + Sum([k \in 1..Len(log[i].ids) |-> Count(log[i].ids[k])]) <= log[j].seq
    /\ \A a \in 1..Len(log[i].ids), b \in 1..Len(log[j].ids) : log[i].ids[a] # log[j].ids[b]

\* "We force the DB into a mode where all future writes fail": nothing is
\* appended to the log after a record whose Sync failed.
NothingAfterSyncError == \A i \in 1..Len(log) : log[i].state = "unknown" => i = Len(log)

\* A reader at LastSequence sees the same entries for ever: no step adds or
\* removes one with a number up to it (SetLastSequence comes after InsertInto,
\* and a memtable is let go only once its table is part of the version).
VisibleIsStable ==
  {e \in Applied : e.seq <= lastSequence} = {e \in Applied' : e.seq <= lastSequence}

\* There is one logger, at the head of the queue, and nobody switches the
\* memtable under it.
Logging == {t \in Threads : pc[t] \in {"log", "sync", "insert", "written", "failed", "syncerror"}}
OneLogger ==
  /\ Cardinality(Logging) <= 1 /\ \A t \in Logging : t = Head(writers)
  /\ Logging # {} => mem \subseteq mem'

\* The files at level 0 and the memtable about to become one stay within the limit
\* at which MakeRoomForWrite stops.
Level0Bounded == level0 + (IF imm = None \/ imm = [entries |-> {}] THEN 0 ELSE 1) <= kL0_StopWritesTrigger

\* No wakeup is lost: who waits and has nothing left to wait for is signalled.
NoLostWakeup ==
  mutex = Free =>
  \A t \in Threads \ woken :
    /\ pc[t] = "queued" => ~w[t].done /\ t # Head(writers)
    /\ pc[t] = "roomwait" => ~bgError /\ MustWait
    /\ pc[t] = "flushwait" => imm # None /\ ~bgError
    /\ pc[t] = "manualwait" => ~w[t].done /\ ~bgError

\* Whoever waits for background work waits for work that is under way.
WaitsForWork ==
  (\E t \in Threads : pc[t] \in {"roomwait", "flushwait", "manualwait"} /\ t \notin woken) => bg # Idle

\* Every call returns, and so does the destructor.
Calling(c) == IF c = Closer THEN down = "closing" ELSE pc[c] # "idle"
CallsReturn == \A c \in Threads \cup {Closer} : Calling(c) ~> ~Calling(c)

\* "Force current memtable contents to be compacted": what the memtable held when
\* TEST_CompactMemTable was called is in a table when it returns OK.
FlushForced ==
  \A id \in 1..Len(calls) :
    calls[id].kind = "flush" /\ calls[id].status = "ok" => calls[id].had \subseteq tables

\* "Cancel my manual compaction": leaving early takes the record away from the
\* background thread for good, which must not look for it again.
ManualCancelled == down # "crashed"
=============================================================================
