-------------------------- MODULE BackgroundQueue --------------------------
(***************************************************************************)
(* PosixEnv::Schedule and its background thread: a queue under a mutex,    *)
(* one thread that is started with the first item and never ends, and a    *)
(* condition variable that is signalled only when the queue was empty.     *)
(* A wait may also end by itself.                                          *)
(***************************************************************************)
EXTENDS Integers, Sequences, FiniteSets

CONSTANTS
  Callers,     \* the threads that schedule work
  MaxItems,    \* bound: items of each caller
  Repeats      \* bound: items that schedule another one when they run

VARIABLES
  queue,       \* background_work_queue_
  started,     \* started_background_thread_
  bg,          \* where the background thread is
  running,     \* the item it runs
  scheduled,   \* history: what was scheduled, in order
  ran          \* history: what ran, in order
vars == <<queue, started, bg, running, scheduled, ran>>

None == <<>>
Init ==
  /\ queue = <<>> /\ started = FALSE /\ bg = "none" /\ running = None
  /\ scheduled = <<>> /\ ran = <<>>

\* Mutant: the thread is woken when there is work already.
Wakes_NotEmpty == queue # <<>>

\* Whether background_work_cv_ is signalled, before the item is put in.
Wakes == queue = <<>>

\* Where the background thread is after a call of Schedule.
Started == IF ~started THEN "top" ELSE IF Wakes /\ bg = "waiting" THEN "top" ELSE bg

Put(item) ==
  /\ started' = TRUE
  /\ queue' = Append(queue, item)
  /\ scheduled' = Append(scheduled, item)

\* Schedule, under the mutex.
Schedule(c) ==
  LET n == Cardinality({i \in DOMAIN scheduled : scheduled[i][1] = c})
  IN /\ n < MaxItems
     /\ Put(<<c, n + 1>>)
     /\ bg' = Started
     /\ UNCHANGED <<running, ran>>

\* The top of the loop: wait, or take the first item.  The mutex is free while
\* the thread waits.
Wait ==
  /\ bg = "top"
  /\ queue = <<>>
  /\ bg' = "waiting"
  /\ UNCHANGED <<queue, started, running, scheduled, ran>>
Spurious ==
  /\ bg = "waiting"
  /\ bg' = "top"
  /\ UNCHANGED <<queue, started, running, scheduled, ran>>

Take ==
  /\ bg = "top"
  /\ queue # <<>>
  /\ running' = Head(queue)
  /\ queue' = Tail(queue)
  /\ bg' = "running"
  /\ UNCHANGED <<started, scheduled, ran>>

\* The item is over; a compaction may have scheduled the next one.
Finish ==
  /\ bg = "running"
  /\ ran' = Append(ran, running)
  /\ running' = None
  /\ bg' = "top"
  /\ UNCHANGED <<queue, started, scheduled>>
ScheduleNext ==
  LET n == Cardinality({i \in DOMAIN scheduled : scheduled[i][1] = "bg"})
  IN /\ bg = "running"
     /\ n < Repeats
     /\ Put(<<"bg", n + 1>>)
     /\ UNCHANGED <<bg, running, ran>>

Background == Wait \/ Take \/ Finish
Next == (\E c \in Callers : Schedule(c)) \/ Background \/ Spurious \/ ScheduleNext

\* The background thread runs, and its work ends.  A wait need not end by
\* itself.
Spec == Init /\ [][Next]_vars /\ WF_vars(Background)
-----------------------------------------------------------------------------
\* What was scheduled is run once each and in that order, and nothing is lost
\* between the queue and the thread.
InOrder == ran \o (IF running = None THEN <<>> ELSE <<running>>) \o queue = scheduled

\* No wake-up is lost: everything that is scheduled is run in the end, however
\* the calls of Schedule meet the thread on its way to its wait.
Waiting(n) == Len(ran) < n /\ n <= Len(scheduled)
AllRun == \A n \in 1..(MaxItems * Cardinality(Callers) + Repeats) : Waiting(n) ~> ~Waiting(n)
=============================================================================
