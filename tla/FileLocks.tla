----------------------------- MODULE FileLocks -----------------------------
(***************************************************************************)
(* PosixEnv::LockFile and UnlockFile on the LOCK file of one database:     *)
(* clients of several processes open it.  The table of a process keeps its *)
(* own clients apart, fcntl(F_SETLK) the processes.                        *)
(*                                                                         *)
(* The lock of the system belongs to a process, and closing any descriptor *)
(* of the file gives it up (external: POSIX record locks).                 *)
(***************************************************************************)
EXTENDS Integers, FiniteSets, FiniteSetTheorems, TLAPS

CONSTANTS
  Clients,      \* the threads that open the database
  Processes,
  ProcessOf,    \* a function from Clients
  Faults        \* whether fcntl fails to unlock

VARIABLES
  pc,           \* where each client is
  locked,       \* locked_files_ of each process: whether the file is in it
  owner         \* the process that has the lock of the system, or None
vars == <<pc, locked, owner>>

None == "none"
Init ==
  /\ pc = [c \in Clients |-> "idle"]
  /\ locked = [p \in Processes |-> FALSE]
  /\ owner = None

Goto(c, place) == pc' = [pc EXCEPT ![c] = place]

\* External: close(fd), and fcntl(fd, F_SETLK) with F_UNLCK.
GiveUp(c) == owner' = IF owner = ProcessOf[c] THEN None ELSE owner

\* ::open of the LOCK file.
Open(c) == pc[c] = "idle" /\ Goto(c, "opened") /\ UNCHANGED <<locked, owner>>

\* Mutant: the table is not asked.
TableInsert_Always(c) ==
  /\ pc[c] = "opened"
  /\ locked' = [locked EXCEPT ![ProcessOf[c]] = TRUE]
  /\ Goto(c, "inserted")
  /\ UNCHANGED owner

\* locks_.Insert under its mutex.
TableInsert(c) ==
  /\ pc[c] = "opened"
  /\ locked' = [locked EXCEPT ![ProcessOf[c]] = TRUE]
  /\ Goto(c, IF locked[ProcessOf[c]] THEN "refused" ELSE "inserted")
  /\ UNCHANGED owner

\* "already held by process".
Refuse(c) == pc[c] = "refused" /\ Goto(c, "idle") /\ GiveUp(c) /\ UNCHANGED locked

\* LockOrUnlock(fd, true): a process may lock what it has locked itself.
SetLock(c) ==
  /\ pc[c] = "inserted"
  /\ IF owner \in {None, ProcessOf[c]}
     THEN owner' = ProcessOf[c] /\ Goto(c, "holds")
     ELSE Goto(c, "denied") /\ UNCHANGED owner
  /\ UNCHANGED locked

Denied(c) == pc[c] = "denied" /\ GiveUp(c) /\ Goto(c, "denied_closed") /\ UNCHANGED locked

DeniedRemove(c) ==
  /\ pc[c] = "denied_closed"
  /\ locked' = [locked EXCEPT ![ProcessOf[c]] = FALSE]
  /\ Goto(c, "idle")
  /\ UNCHANGED owner

\* UnlockFile: the system's lock, the table, the descriptor.
Unlock(c) ==
  /\ pc[c] = "holds"
  /\ GiveUp(c)
  /\ Goto(c, "unlocked")
  /\ UNCHANGED locked
UnlockFails(c) == Faults /\ pc[c] = "holds" /\ Goto(c, "stuck") /\ UNCHANGED <<locked, owner>>
UnlockRemove(c) ==
  /\ pc[c] = "unlocked"
  /\ locked' = [locked EXCEPT ![ProcessOf[c]] = FALSE]
  /\ Goto(c, "removed")
  /\ UNCHANGED owner
UnlockClose(c) == pc[c] = "removed" /\ GiveUp(c) /\ Goto(c, "idle") /\ UNCHANGED locked

\* A process dies with all it holds.
Die(p) ==
  /\ \E c \in Clients : ProcessOf[c] = p /\ pc[c] # "idle"
  /\ pc' = [c \in Clients |-> IF ProcessOf[c] = p THEN "idle" ELSE pc[c]]
  /\ locked' = [locked EXCEPT ![p] = FALSE]
  /\ owner' = IF owner = p THEN None ELSE owner

LockFile(c) == Open(c) \/ TableInsert(c) \/ Refuse(c) \/ SetLock(c) \/ Denied(c) \/ DeniedRemove(c)
UnlockFile(c) == Unlock(c) \/ UnlockFails(c) \/ UnlockRemove(c) \/ UnlockClose(c)
Next == (\E c \in Clients : LockFile(c) \/ UnlockFile(c)) \/ \E p \in Processes : Die(p)

\* A thread inside LockFile or UnlockFile goes on; a client need not give the
\* lock back.
Inside(c) == TableInsert(c) \/ Refuse(c) \/ SetLock(c) \/ Denied(c) \/ DeniedRemove(c) \/ UnlockRemove(c) \/ UnlockClose(c)
Spec == Init /\ [][Next]_vars /\ \A c \in Clients : WF_vars(Inside(c))
-----------------------------------------------------------------------------
Holders == {c \in Clients : pc[c] \in {"holds", "stuck"}}

\* The table of a process has the file exactly while one of its clients has
\* the lock or is between the table and the system: a failed attempt never
\* leaves it behind or takes away that of another.
TableExact ==
  \A p \in Processes :
    Cardinality({c \in Clients : ProcessOf[c] = p /\ pc[c] \in {"inserted", "holds", "denied", "denied_closed", "unlocked", "stuck"}})
      = IF locked[p] THEN 1 ELSE 0

\* Two clients of the same process never have the lock at once.
OnePerProcess == \A c, d \in Holders : ProcessOf[c] = ProcessOf[d] => c = d

\* The lock "prevents concurrent access to the same db by multiple processes"
\* (env.h, LockFile): no two clients have it at once.
OneHolder == \A c, d \in Holders : c = d

\* The table never keeps the file without a reason: from some moment on the
\* file is out of it or a client of the process has the lock.
LeftIn(p) == locked[p] /\ ~\E c \in Holders : ProcessOf[c] = p
TableSettles == \A p \in Processes : LeftIn(p) ~> ~LeftIn(p)
-----------------------------------------------------------------------------
(* Proofs, for any clients and processes.                                   *)

\* A client is a thread of one process, and no process is called none.
LocksAssumption == ProcessOf \in [Clients -> Processes] /\ None \notin Processes

\* The intended use: a process opens a database once.
OneClientEach == \A c, d \in Clients : ProcessOf[c] = ProcessOf[d] => c = d

InTable == {"inserted", "holds", "denied", "denied_closed", "unlocked", "stuck"}
Places == InTable \union {"idle", "opened", "refused", "removed"}

TypeOK ==
  /\ pc \in [Clients -> Places]
  /\ locked \in [Processes -> BOOLEAN]
  /\ owner \in Processes \union {None}

\* The table of a process has the file for one of its clients, and for no two.
Tabled ==
  /\ \A c \in Clients : pc[c] \in InTable => locked[ProcessOf[c]]
  /\ \A c, d \in Clients : pc[c] \in InTable /\ pc[d] \in InTable /\ ProcessOf[c] = ProcessOf[d] => c = d
  /\ \A p \in Processes : locked[p] => \E c \in Clients : ProcessOf[c] = p /\ pc[c] \in InTable

\* Who has the lock has it from the system.
Owned == \A c \in Holders : owner = ProcessOf[c]

\* A step of one client, with its table if need be.
LEMMA ClientStep ==
  ASSUME LocksAssumption, TypeOK, Tabled, NEW c \in Clients, LockFile(c) \/ UnlockFile(c)
  PROVE  TypeOK' /\ Tabled'
<1> USE DEF LocksAssumption, TypeOK, Places, InTable
<1>1. ProcessOf[c] \in Processes
  OBVIOUS
<1>2. ASSUME NEW place \in Places, Goto(c, place), UNCHANGED locked, owner' \in Processes \union {None},
             pc[c] \in InTable <=> place \in InTable
      PROVE  TypeOK' /\ Tabled'
  BY <1>1, <1>2 DEF Goto, Tabled
<1>3. ASSUME pc[c] \notin InTable, ~locked[ProcessOf[c]], Goto(c, "inserted"), UNCHANGED owner,
             locked' = [locked EXCEPT ![ProcessOf[c]] = TRUE]
      PROVE  TypeOK' /\ Tabled'
  <2>1. pc'[c] = "inserted" /\ \A d \in Clients : d # c => pc'[d] = pc[d]
    BY <1>3 DEF Goto
  <2>2. locked'[ProcessOf[c]] = TRUE /\ \A p \in Processes : p # ProcessOf[c] => locked'[p] = locked[p]
    BY <1>1, <1>3
  <2>3. \A d \in Clients : pc[d] \in InTable => ProcessOf[d] # ProcessOf[c]
    BY <1>3 DEF Tabled
  <2>4. TypeOK'
    BY <1>1, <1>3 DEF Goto
  <2> QED
    BY <1>1, <2>1, <2>2, <2>3, <2>4 DEF Tabled
<1>4. ASSUME NEW place \in Places \ InTable, pc[c] \in InTable, Goto(c, place), UNCHANGED owner,
             locked' = [locked EXCEPT ![ProcessOf[c]] = FALSE]
      PROVE  TypeOK' /\ Tabled'
  <2>1. pc'[c] = place /\ \A d \in Clients : d # c => pc'[d] = pc[d]
    BY <1>4 DEF Goto
  <2>2. locked'[ProcessOf[c]] = FALSE /\ \A p \in Processes : p # ProcessOf[c] => locked'[p] = locked[p]
    BY <1>1, <1>4
  <2>3. \A d \in Clients : pc'[d] \in InTable => d # c /\ pc[d] \in InTable /\ ProcessOf[d] # ProcessOf[c]
    BY <1>4, <2>1 DEF Tabled
  <2>4. TypeOK'
    BY <1>1, <1>4 DEF Goto
  <2>5. \A d \in Clients : pc'[d] \in InTable => locked'[ProcessOf[d]]
    BY <2>2, <2>3 DEF Tabled
  <2>6. \A d, e \in Clients : pc'[d] \in InTable /\ pc'[e] \in InTable /\ ProcessOf[d] = ProcessOf[e] => d = e
    BY <2>3 DEF Tabled
  <2>7. ASSUME NEW p \in Processes, locked'[p]
        PROVE  \E d \in Clients : ProcessOf[d] = p /\ pc'[d] \in InTable
    <3>1. p # ProcessOf[c] /\ locked[p]
      BY <2>2, <2>7
    <3>2. PICK d \in Clients : ProcessOf[d] = p /\ pc[d] \in InTable
      BY <3>1 DEF Tabled
    <3>3. d # c
      BY <3>1, <3>2
    <3> QED
      BY <2>1, <3>2, <3>3
  <2> QED
    BY <2>4, <2>5, <2>6, <2>7 DEF Tabled
<1>5. GiveUp(c) => owner' \in Processes \union {None}
  BY DEF GiveUp
<1>6. CASE Open(c) \/ Refuse(c)
  BY <1>2, <1>5, <1>6 DEF Open, Refuse
<1>7. CASE TableInsert(c)
  <2>1. CASE locked[ProcessOf[c]]
    <3>1. UNCHANGED locked /\ Goto(c, "refused") /\ UNCHANGED owner /\ pc[c] = "opened"
      <4>1. locked' = locked
        BY <1>1, <1>7, <2>1 DEF TableInsert
      <4> QED
        BY <1>7, <2>1, <4>1 DEF TableInsert
    <3> QED
      BY <1>2, <3>1
  <2>2. CASE ~locked[ProcessOf[c]]
    BY <1>3, <1>7, <2>2 DEF TableInsert
  <2> QED
    BY <2>1, <2>2
<1>8. CASE SetLock(c)
  <2>1. pc[c] = "inserted" /\ UNCHANGED locked /\ owner' \in Processes \union {None}
    BY <1>1, <1>8 DEF SetLock
  <2>2. Goto(c, "holds") \/ Goto(c, "denied")
    BY <1>8 DEF SetLock
  <2> QED
    BY <1>2, <2>1, <2>2
<1>9. CASE Denied(c) \/ Unlock(c) \/ UnlockFails(c)
  BY <1>2, <1>5, <1>9 DEF Denied, Unlock, UnlockFails
<1>10. CASE DeniedRemove(c) \/ UnlockRemove(c)
  BY <1>4, <1>10 DEF DeniedRemove, UnlockRemove
<1>11. CASE UnlockClose(c)
  BY <1>2, <1>5, <1>11 DEF UnlockClose
<1> QED
  BY <1>6, <1>7, <1>8, <1>9, <1>10, <1>11 DEF LockFile, UnlockFile

\* A process dies with its table and all of its clients.
LEMMA DieStep ==
  ASSUME LocksAssumption, TypeOK, Tabled, NEW p \in Processes, Die(p)
  PROVE  TypeOK' /\ Tabled'
<1> USE DEF LocksAssumption, TypeOK
<1>1. /\ \A c \in Clients : pc'[c] = IF ProcessOf[c] = p THEN "idle" ELSE pc[c]
      /\ locked'[p] = FALSE /\ \A q \in Processes : q # p => locked'[q] = locked[q]
  BY DEF Die
<1>2. TypeOK'
  BY DEF Die, Places
<1>3. "idle" \notin InTable
  BY DEF InTable
<1>4. \A c \in Clients : pc'[c] \in InTable <=> ProcessOf[c] # p /\ pc[c] \in InTable
  BY <1>1, <1>3
<1> QED
  BY <1>1, <1>2, <1>4 DEF Tabled

\* The table of each process stays exact.
LEMMA TableInvariance == ASSUME LocksAssumption PROVE Spec => [](TypeOK /\ Tabled)
<1>1. Init => TypeOK /\ Tabled
  BY DEF Init, TypeOK, Tabled, InTable, Places, LocksAssumption
<1>2. TypeOK /\ Tabled /\ [Next]_vars => TypeOK' /\ Tabled'
  <2>1. UNCHANGED vars /\ TypeOK /\ Tabled => TypeOK' /\ Tabled'
    BY DEF vars, TypeOK, Tabled
  <2> QED
    BY <2>1, ClientStep, DieStep DEF Next
<1> QED
  BY <1>1, <1>2, PTL DEF Spec

\* The table of a process has the file exactly while one of its clients has the
\* lock or is between the table and the system, for any number of clients that
\* try and fail, and whenever a process dies (PosixLockTable).
THEOREM TableIsExact == ASSUME LocksAssumption PROVE Spec => []TableExact
<1>1. TypeOK /\ Tabled => TableExact
  <2> SUFFICES ASSUME TypeOK, Tabled, NEW p \in Processes
               PROVE  Cardinality({c \in Clients : ProcessOf[c] = p /\ pc[c] \in InTable})
                        = IF locked[p] THEN 1 ELSE 0
    BY DEF TableExact, InTable
  <2> DEFINE S == {c \in Clients : ProcessOf[c] = p /\ pc[c] \in InTable}
  <2>1. CASE locked[p]
    <3>1. PICK c \in Clients : ProcessOf[c] = p /\ pc[c] \in InTable
      BY <2>1 DEF Tabled
    <3>2. S = {c}
      BY <3>1 DEF Tabled
    <3>3. Cardinality(S) = 1
      BY <3>2, FS_Singleton
    <3> QED
      BY <2>1, <3>3
  <2>2. CASE ~locked[p]
    <3>1. S = {}
      BY <2>2 DEF Tabled
    <3>2. Cardinality(S) = 0
      BY <3>1, FS_EmptySet
    <3> QED
      BY <2>2, <3>2
  <2> QED
    BY <2>1, <2>2
<1> QED
  BY <1>1, TableInvariance, PTL

\* Two clients of one process never have the lock at once (LockFile).
THEOREM OneHolderPerProcess == ASSUME LocksAssumption PROVE Spec => []OnePerProcess
<1>1. TypeOK /\ Tabled => OnePerProcess
  BY DEF Tabled, InTable, OnePerProcess, Holders
<1> QED
  BY <1>1, TableInvariance, PTL

\* Who has the lock owns it after every step.
LEMMA OwnedStep ==
  ASSUME LocksAssumption, OneClientEach, TypeOK, Owned, [Next]_vars
  PROVE  Owned'
<1> USE DEF LocksAssumption, TypeOK, Owned, Holders
<1>1. CASE UNCHANGED vars
  BY <1>1 DEF vars
<1>2. ASSUME NEW c \in Clients, LockFile(c) \/ UnlockFile(c) PROVE Owned'
  <2>1. \A d \in Clients : d # c => ProcessOf[d] # ProcessOf[c]
    BY DEF OneClientEach
  <2>2. ASSUME NEW place \in Places \ {"holds", "stuck"}, Goto(c, place), GiveUp(c) \/ UNCHANGED owner
        PROVE  Owned'
    BY <2>1, <2>2 DEF Goto, GiveUp
  <2>3. CASE Open(c) \/ Refuse(c) \/ Denied(c) \/ DeniedRemove(c)
    BY <2>2, <2>3 DEF Open, Refuse, Denied, DeniedRemove, Places, InTable
  <2>4. CASE Unlock(c) \/ UnlockRemove(c) \/ UnlockClose(c)
    BY <2>2, <2>4 DEF Unlock, UnlockRemove, UnlockClose, Places, InTable
  <2>5. CASE TableInsert(c)
    <3>1. (Goto(c, "refused") \/ Goto(c, "inserted")) /\ UNCHANGED owner
      BY <2>5 DEF TableInsert
    <3> QED
      BY <2>2, <3>1 DEF Places, InTable
  <2>6. CASE UnlockFails(c)
    BY <2>6 DEF UnlockFails, Goto
  <2>7. CASE SetLock(c) /\ owner \in {None, ProcessOf[c]}
    <3>1. owner' = ProcessOf[c] /\ Goto(c, "holds")
      BY <2>7 DEF SetLock
    <3>2. \A d \in Clients : pc[d] \in {"holds", "stuck"} => d = c
      BY <2>1, <2>7
    <3> QED
      BY <3>1, <3>2 DEF Goto
  <2>8. CASE SetLock(c) /\ owner \notin {None, ProcessOf[c]}
    <3>1. Goto(c, "denied") /\ UNCHANGED owner
      BY <2>8 DEF SetLock
    <3> QED
      BY <2>2, <3>1 DEF Places, InTable
  <2> QED
    BY <1>2, <2>3, <2>4, <2>5, <2>6, <2>7, <2>8 DEF LockFile, UnlockFile
<1>3. ASSUME NEW p \in Processes, Die(p) PROVE Owned'
  BY <1>3 DEF Die
<1> QED
  BY <1>1, <1>2, <1>3 DEF Next

\* No two processes have the database at once, when each opens it once: what
\* LockFile promises.  Without OneClientEach it does not hold, because the
\* descriptor of a refused second attempt takes the lock along (LockFile).
THEOREM OneProcessHolds == ASSUME LocksAssumption, OneClientEach PROVE Spec => []OneHolder
<1>1. Init => Owned
  BY DEF Init, Owned, Holders
<1>2. TypeOK /\ Owned /\ [Next]_vars => Owned'
  BY OwnedStep
<1>3. Owned => OneHolder
  BY DEF Owned, OneHolder, OneClientEach, Holders
<1>4. Spec => []TypeOK
  BY TableInvariance, PTL
<1> QED
  BY <1>1, <1>2, <1>3, <1>4, PTL DEF Spec
=============================================================================
