----------------------------- MODULE LogFormat -----------------------------
(***************************************************************************)
(* leveldb's log files: log::Writer cuts a record into fragments that fit  *)
(* into blocks, log::Reader puts them together again and drops what a      *)
(* crash or damage has spoilt.                                             *)
(*                                                                         *)
(* A file is a sequence of cells, one for each byte.  The cells of a       *)
(* header carry the type, the record and the stretch of it that follows;   *)
(* a payload cell carries the record and the index of its byte.  The       *)
(* checksum of a fragment holds if its cells are the ones written with it. *)
(* A damaged cell carries the length that a header read from it would have.*)
(***************************************************************************)
EXTENDS Integers, Sequences, FiniteSets, SequencesExt, FiniteSetsExt

CONSTANTS
  BlockSize,     \* kBlockSize
  HeaderSize,    \* kHeaderSize
  Lengths,       \* lengths of records
  MaxRecords,    \* bound
  Damages,       \* bound: cells that are damaged
  MaxCrashes     \* 1 if the process may crash, in the middle of its last write

LogSizes ==
  /\ HeaderSize \in Nat /\ HeaderSize > 1 /\ BlockSize \in Nat /\ BlockSize > HeaderSize
  /\ Lengths \subseteq Nat /\ MaxCrashes \in {0, 1}

VARIABLES
  file,       \* the cells of the file
  offset,     \* block_offset_ of the writer
  written,    \* the records: [len, start], in order
  damaged,    \* the damaged positions
  crashes
vars == <<file, offset, written, damaged, crashes>>

BlockOf(p) == (p - 1) \div BlockSize
Zero == [k |-> "zero"]
-----------------------------------------------------------------------------
(* log::Writer. *)
EmitPhysicalRecord(type, id, from, length) ==
  [j \in 1..HeaderSize |-> [k |-> "head", type |-> type, id |-> id, from |-> from, len |-> length, j |-> j]]
  \o [i \in 1..length |-> [k |-> "data", id |-> id, i |-> from + i]]

\* Where less than a header is left of the block, it is filled with zeros.
SwitchBlock(off) ==
  IF BlockSize - off < HeaderSize THEN [pad |-> BlockSize - off, off |-> 0]
  ELSE [pad |-> 0, off |-> off]

RECURSIVE Fragments(_, _, _, _, _)
\* The cells AddRecord appends for bytes from + 1 to len of a record, and where
\* the block offset is after them.
Fragments(id, off, from, len, begin) ==
  LET s == SwitchBlock(off)
      avail == BlockSize - s.off - HeaderSize
      length == Min({len - from, IF avail > 0 THEN avail ELSE 0})
      end == length = len - from
      type == CASE begin /\ end -> "full" [] begin -> "first"
                [] end -> "last" [] OTHER -> "middle"
      cells == [i \in 1..s.pad |-> Zero] \o EmitPhysicalRecord(type, id, from, length)
      off1 == s.off + HeaderSize + length
      rest == Fragments(id, off1, from + length, len, FALSE)
  IN IF end THEN [cells |-> cells, off |-> off1]
     ELSE [cells |-> cells \o rest.cells, off |-> rest.off]
-----------------------------------------------------------------------------
(* log::Reader.  r: the next block to read (pos), the rest of the block in *)
(* memory (buf) and eof_, what is being put together, what was returned    *)
(* (offset and cells of each record) and how often damage was reported.    *)
\* Mutant: a block is taken to be in its trailer where a header still fits.
SkipToInitialBlock_Early(initial) ==
  LET inBlock == initial % BlockSize
  IN initial - inBlock + (IF inBlock > BlockSize - HeaderSize - 1 THEN BlockSize ELSE 0)

\* The first block that can hold a record at initial or behind it.
SkipToInitialBlock(initial) ==
  LET inBlock == initial % BlockSize
  IN initial - inBlock + (IF inBlock > BlockSize - (HeaderSize - 1) THEN BlockSize ELSE 0)

Reader(initial) ==
  [buf |-> <<>>, eof |-> FALSE, pos |-> SkipToInitialBlock(initial), initial |-> initial,
   resyncing |-> initial > 0, in |-> FALSE, scratch |-> <<>>, at |-> 0,
   out |-> <<>>, drops |-> 0]

\* file_->Read of the next block: less than a block means the end of the file.
ReadBlock(r, f) ==
  LET buf == SubSeq(f, r.pos + 1, Min({r.pos + BlockSize, Len(f)}))
  IN [r EXCEPT !.buf = buf, !.pos = @ + Len(buf), !.eof = Len(buf) < BlockSize]

HeaderWhole(buf) == \A j \in 1..HeaderSize : buf[j].k = "head" /\ buf[j] = [buf[1] EXCEPT !.j = j]
\* The length field lies in the last cell but one.
Length(buf) == LET c == buf[HeaderSize - 1] IN IF c.k = "data" THEN BlockSize
                                               ELSE IF c.k = "zero" THEN 0 ELSE c.len

\* Mutant: the checksum covers the payload, not the header.
CrcHolds_DataOnly(buf) ==
  LET h == buf[HeaderSize]
  IN h.k = "head" /\ \A i \in 1..Length(buf) :
       buf[HeaderSize + i].k = "data" /\ buf[HeaderSize + i].i = h.from + i

CrcHolds(buf) ==
  /\ HeaderWhole(buf)
  /\ \A i \in 1..Length(buf) : buf[HeaderSize + i] = [k |-> "data", id |-> buf[1].id, i |-> buf[1].from + i]

\* ReportDrop, only for what lies behind initial_offset_; buf is already cut.
ReportCorruption(r, bytes) ==
  IF r.pos - Len(r.buf) - bytes >= r.initial THEN [r EXCEPT !.drops = @ + 1] ELSE r

\* A length beyond the end of the block: a torn record at the end of the file,
\* damage anywhere else.
TooLong(r) ==
  IF r.eof THEN [type |-> "eof", fragment |-> <<>>, r |-> [r EXCEPT !.buf = <<>>]]
  ELSE [type |-> "bad", fragment |-> <<>>, r |-> ReportCorruption([r EXCEPT !.buf = <<>>], Len(r.buf))]

Bad(r) == [type |-> "bad", fragment |-> <<>>, r |-> r]
\* The record at the front of the block, cut from it.
Fragment(r, cut, length) ==
  IF cut.pos - Len(cut.buf) - HeaderSize - length < r.initial THEN Bad(cut)
  ELSE [type |-> r.buf[HeaderSize].type, fragment |-> SubSeq(r.buf, HeaderSize + 1, HeaderSize + length), r |-> cut]
InBlock(r, length) ==
  CASE HeaderSize + length > Len(r.buf) -> TooLong(r)
    [] r.buf[HeaderSize] = Zero /\ length = 0 -> Bad([r EXCEPT !.buf = <<>>])
    [] ~CrcHolds(r.buf) -> Bad(ReportCorruption([r EXCEPT !.buf = <<>>], Len(r.buf)))
    [] OTHER -> Fragment(r, [r EXCEPT !.buf = SubSeq(@, HeaderSize + length + 1, Len(@))], length)

RECURSIVE ReadPhysicalRecord(_, _)
ReadPhysicalRecord(r, f) ==
  CASE Len(r.buf) >= HeaderSize -> InBlock(r, Length(r.buf))
    [] r.eof -> [type |-> "eof", fragment |-> <<>>, r |-> [r EXCEPT !.buf = <<>>]]
    [] OTHER -> ReadPhysicalRecord(ReadBlock(r, f), f)

\* The record that was being put together is lost.
BadRecord(r) ==
  IF r.in THEN ReportCorruption([r EXCEPT !.in = FALSE, !.scratch = <<>>], Len(r.scratch)) ELSE r

\* A record that was begun is lost when another begins.
Begun(r) == IF r.in /\ r.scratch # <<>> THEN ReportCorruption(r, Len(r.scratch)) ELSE r
Returned(r, at, cells) ==
  [r EXCEPT !.in = FALSE, !.scratch = <<>>, !.out = Append(@, [at |-> at, cells |-> cells])]
Put(r, type, fragment, at) ==
  CASE type = "bad" -> BadRecord(r)
    [] type = "full" -> Returned(Begun(r), at, fragment)
    [] type = "first" -> [Begun(r) EXCEPT !.in = TRUE, !.scratch = fragment, !.at = at]
    [] ~r.in -> ReportCorruption(r, Len(fragment))
    [] type = "middle" -> [r EXCEPT !.scratch = @ \o fragment]
    [] type = "last" -> Returned(r, r.at, r.scratch \o fragment)
\* Where resyncing, the rest of a record that began before initial_offset_ is skipped.
Resynced(p) == [p.r EXCEPT !.resyncing = @ /\ p.type = "middle"]
Assembled(p) ==
  IF p.r.resyncing /\ p.type \in {"middle", "last"} THEN Resynced(p)
  ELSE Put(Resynced(p), p.type, p.fragment, p.r.pos - Len(p.r.buf) - HeaderSize - Len(p.fragment))

RECURSIVE ReadRecords(_, _)
\* ReadRecord until it returns false, with the records it returned.
ReadOn(p, f) == IF p.type = "eof" THEN Resynced(p) ELSE ReadRecords(Assembled(p), f)
ReadRecords(r, f) == ReadOn(ReadPhysicalRecord(r, f), f)
-----------------------------------------------------------------------------
Init == file = <<>> /\ offset = 0 /\ written = <<>> /\ damaged = {} /\ crashes = 0

AddRecord(len) ==
  /\ Len(written) < MaxRecords
  /\ damaged = {} /\ crashes = 0
  /\ LET frag == Fragments(Len(written) + 1, offset, 0, len, TRUE)
     IN /\ file' = file \o frag.cells
        /\ offset' = frag.off
        /\ written' = Append(written, [len |-> len, start |-> Len(file) + SwitchBlock(offset).pad])
  /\ UNCHANGED <<damaged, crashes>>

\* The process dies in the middle of a write: only a part of the last record is
\* in the file.
Crash ==
  /\ crashes < MaxCrashes /\ damaged = {} /\ written # <<>>
  /\ crashes' = crashes + 1
  /\ \E n \in (Last(written).start)..(Len(file) - 1) :
        file' = SubSeq(file, 1, n) /\ offset' = n % BlockSize
  /\ UNCHANGED <<written, damaged>>

\* A cell of the file is not what was written.
Damage ==
  /\ Cardinality(damaged) < Damages
  /\ \E p \in DOMAIN file, len \in {0, 1, BlockSize} :
        /\ file[p].k # "zero"
        /\ file' = [file EXCEPT ![p] = [k |-> "damaged", len |-> len]]
        /\ damaged' = damaged \cup {p}
  /\ UNCHANGED <<offset, written, crashes>>

Next == (\E len \in Lengths : AddRecord(len)) \/ Crash \/ Damage
Spec == Init /\ [][Next]_vars
-----------------------------------------------------------------------------
Whole(i) == [j \in 1..written[i].len |-> [k |-> "data", id |-> i, i |-> j]]
Read(initial) == ReadRecords(Reader(initial), file)
\* The blocks a record has cells in.
Blocks(i) == {BlockOf(p) : p \in {q \in DOMAIN file : file[q].k # "zero" /\ file[q].k # "damaged" /\ file[q].id = i}
                                 \cup (damaged \cap (written[i].start + 1)..(IF i < Len(written) THEN written[i + 1].start ELSE Len(file)))}

TypeOK ==
  /\ offset \in 0..BlockSize /\ crashes \in 0..MaxCrashes
  /\ Len(file) % BlockSize = offset % BlockSize
  /\ damaged \subseteq DOMAIN file

AllRead(r, n) == r.out = [i \in 1..n |-> [at |-> written[i].start, cells |-> Whole(i)]] /\ r.drops = 0
\* Without damage the reader returns the records, whole and in order, at the
\* offsets they were written at, and reports nothing.  After a crash the record
\* that was cut is missing at the end, silently: "don't treat it as a corruption".
ReadsBack == damaged = {} => AllRead(Read(0), Len(written) - crashes)

Ids(record) == IF record.cells = <<>> THEN {j \in DOMAIN written : written[j].len = 0 /\ written[j].start = record.at}
               ELSE {record.cells[1].id}
AllWritten(out) ==
  /\ \A i \in DOMAIN out : \E j \in Ids(out[i]) : j \in DOMAIN written /\ out[i].cells = Whole(j)
  /\ \A i, j \in DOMAIN out : i < j => Min(Ids(out[i])) < Min(Ids(out[j]))
\* Damage never makes up a record: what is returned was written as one record,
\* and in this order.
NothingMadeUp == AllWritten(Read(0).out)

OthersRead(out, bad) ==
  \A i \in DOMAIN written :
    Blocks(i) \cap bad = {} => \E j \in DOMAIN out : out[j].cells = Whole(i) /\ out[j].at = written[i].start
\* Damage stays in its block: a record of which no part lies in a damaged block
\* is returned.
DamageContained == crashes = 0 => OthersRead(Read(0).out, {BlockOf(p) : p \in damaged})

Gap(got) == \E i \in DOMAIN written \ got : \E j \in got : i < j
GapsReported(r) ==
  Gap({i \in DOMAIN written : \E j \in DOMAIN r.out : r.out[j].at = written[i].start}) => r.drops > 0
\* Damage in the middle of the log is reported: if a record is missing and a
\* later one is returned, the reporter was called.
LossReported == crashes = 0 => GapsReported(Read(0))

Starts(out) == [j \in DOMAIN out |-> out[j].at]
\* log_reader.h: "The Reader will start reading at the first record located at
\* physical position >= initial_offset within the file."
StartsAtOffset ==
  damaged = {} /\ crashes = 0 =>
    \A initial \in 0..Len(file) :
      Starts(Read(initial).out) = SelectSeq([i \in DOMAIN written |-> written[i].start], LAMBDA s : s >= initial)

\* log_reader.h: the fragments of a record that starts before initial_offset
\* "can be silently skipped": a log without damage is read without a report.
SilentResync ==
  damaged = {} /\ crashes = 0 => \A initial \in 0..Len(file) : Read(initial).drops = 0
=============================================================================
