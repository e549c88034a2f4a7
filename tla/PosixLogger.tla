---------------------------- MODULE PosixLogger ----------------------------
(***************************************************************************)
(* The info log (util/posix_logger.h): threads print a line into a buffer   *)
(* on the stack, try again with one that is allocated if it does not fit,   *)
(* and append it to the file.  A line is a sequence of characters: a header *)
(* and a message, which may end in a newline already.                       *)
(***************************************************************************)
EXTENDS Integers, Sequences, FiniteSets, SequencesExt

CONSTANTS
  Threads,
  Messages,             \* bound: messages
  Header,               \* the time and the thread, as characters
  kStackBufferSize,     \* 512 in the code
  MaxLines              \* bound: calls of Logv

HeaderFits == Len(Header) < kStackBufferSize

NewLine == "nl"
Zero == "zero"

VARIABLES
  message,      \* of each thread's call, or none
  iteration,    \* of its loop
  buffer,       \* characters in its buffer
  buffer_size,
  offset,       \* buffer_offset
  pc,           \* "idle", "print", "finish"
  allocated,    \* dynamic buffers
  file,         \* the lines in the file
  logged        \* history: the messages whose Logv has written
vars == <<message, iteration, buffer, buffer_size, offset, pc, allocated, file, logged>>

Init ==
  /\ message = [t \in Threads |-> <<>>] /\ iteration = [t \in Threads |-> 0]
  /\ buffer = [t \in Threads |-> <<>>] /\ buffer_size = [t \in Threads |-> 0] /\ offset = [t \in Threads |-> 0]
  /\ pc = [t \in Threads |-> "idle"] /\ allocated = {} /\ file = <<>> /\ logged = <<>>

Calls == Len(logged) + Cardinality({t \in Threads : pc[t] # "idle"})

Logv(t) ==
  /\ pc[t] = "idle" /\ Calls < MaxLines
  /\ \E m \in Messages : message' = [message EXCEPT ![t] = m]
  /\ iteration' = [iteration EXCEPT ![t] = 0]
  /\ buffer_size' = [buffer_size EXCEPT ![t] = kStackBufferSize]
  /\ pc' = [pc EXCEPT ![t] = "print"]
  /\ UNCHANGED <<buffer, offset, allocated, file, logged>>

\* snprintf: as much as fits, and a zero; the result is the whole length.
Printed(text, size) == Append(SubSeq(text, 1, IF Len(text) < size THEN Len(text) ELSE size - 1), Zero)

\* One more character is needed for a newline.
DoesNotFit(n, size) == n >= size - 1

DynamicSize(n) == n + 2

\* One turn of the loop, up to the newline.
Vsnprintf(t) ==
  LET text == Header \o message[t]
      n == Len(text)
      size == buffer_size[t]
  IN /\ pc[t] = "print"
     /\ buffer' = [buffer EXCEPT ![t] = Printed(text, size)]
     /\ allocated' = IF iteration[t] = 0 THEN allocated ELSE allocated \union {t}
     /\ IF DoesNotFit(n, size) /\ iteration[t] = 0
        THEN /\ iteration' = [iteration EXCEPT ![t] = 1]
             /\ buffer_size' = [buffer_size EXCEPT ![t] = DynamicSize(n)]
             /\ UNCHANGED <<offset, pc>>
        ELSE /\ offset' = [offset EXCEPT ![t] = IF DoesNotFit(n, size) THEN size - 1 ELSE n]
             /\ pc' = [pc EXCEPT ![t] = "finish"]
             /\ UNCHANGED <<iteration, buffer_size>>
     /\ UNCHANGED <<message, file, logged>>

NeedsNewLine(line) == Last(line) # NewLine

\* The newline, fwrite, and the end of the buffer.
Finish(t) ==
  LET text == SubSeq(buffer[t], 1, offset[t])
      line == IF NeedsNewLine(text) THEN Append(text, NewLine) ELSE text
  IN /\ pc[t] = "finish"
     /\ offset' = [offset EXCEPT ![t] = Len(line)]
     /\ file' = Append(file, line) /\ logged' = Append(logged, message[t])
     /\ allocated' = IF iteration[t] = 0 THEN allocated ELSE allocated \ {t}
     /\ pc' = [pc EXCEPT ![t] = "idle"]
     /\ UNCHANGED <<message, iteration, buffer, buffer_size>>

Next == \E t \in Threads : Logv(t) \/ Vsnprintf(t) \/ Finish(t)
Spec == Init /\ [][Next]_vars
-----------------------------------------------------------------------------
\* Nothing is stored behind the end of a buffer, the newline included, and a
\* buffer that was allocated is deleted.
InBuffer ==
  /\ \A t \in Threads : pc[t] # "print" /\ buffer_size[t] > 0 => offset[t] <= buffer_size[t]
  /\ \A t \in allocated : pc[t] # "idle"

\* Every message is one line of the file, whole, in the order of the writes, and
\* ends in one newline, on both sides of the size of the buffer.
WithNewLine(m) == IF m # <<>> /\ Last(m) = NewLine THEN m ELSE Append(m, NewLine)
LinesWhole ==
  /\ Len(file) = Len(logged)
  /\ \A i \in DOMAIN file : file[i] = Header \o WithNewLine(logged[i])
=============================================================================
