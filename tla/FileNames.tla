----------------------------- MODULE FileNames -----------------------------
(***************************************************************************)
(* The names of a database's files (db/filename.cc) and the numbers in them *)
(* (util/logging.cc).  A name is a word, a numeral and a suffix; numerals   *)
(* are in base Base, and numbers go up to MaxUint64.  Files are made, other *)
(* names turn up in the directory, and GetChildren's names are parsed.      *)
(***************************************************************************)
EXTENDS Integers, Sequences, FiniteSets, SequencesExt

CONSTANTS
  Base,           \* 10 in the code
  MaxUint64,      \* 2^64 - 1 in the code
  Padded,         \* 6 in the code: least number of digits
  kNumLevels,     \* 7 in the code
  Numbers,        \* bound: numbers of the files made
  Numerals,       \* bound: numerals of other names
  MaxNames        \* bound: names in the directory

BaseAssumption == Base \in Nat /\ Base > 1 /\ MaxUint64 \in Nat /\ Padded \in Nat

VARIABLES
  made,       \* files made: type and number
  dir,        \* names in the directory
  parsed      \* the last name parsed, and what it was found to be
vars == <<made, dir, parsed>>

Name(word, numeral, suffix) == [word |-> word, numeral |-> numeral, suffix |-> suffix]

No == [type |-> "none", number |-> 0]
File(type, n) == [type |-> type, number |-> n]

Digits(n) == CHOOSE d \in 1..(n + 1) : n < Base^d /\ (d = 1 \/ n >= Base^(d - 1))

\* "%06llu"
Formatted(n) ==
  LET len == IF Digits(n) < Padded THEN Padded ELSE Digits(n)
  IN [i \in 1..len |-> (n \div Base^(len - i)) % Base]

SuffixOf == [log |-> ".log", table |-> ".ldb", sst |-> ".sst", temp |-> ".dbtmp"]
FileName(type, n) ==
  IF type \in DOMAIN SuffixOf THEN Name("", Formatted(n), SuffixOf[type])
  ELSE IF type = "descriptor" THEN Name("MANIFEST-", Formatted(n), "")
  ELSE Name(type, <<>>, "")

Fixed == {"CURRENT", "LOCK", "LOG", "LOG.old"}
Numbered == DOMAIN SuffixOf \union {"descriptor"}

Init == made = {} /\ dir = {} /\ parsed = [name |-> Name("", <<>>, ""), file |-> No]

\* Parsing changes nothing, so the names are all there before the first is parsed.
Unparsed == parsed.file = No /\ parsed.name = Name("", <<>>, "")

MakeFile ==
  /\ Unparsed /\ Cardinality(dir) < MaxNames /\ Cardinality(dir) = Cardinality(made)
  /\ \E f \in (Numbered \X Numbers) \union (Fixed \X {0}) :
       /\ made' = made \union {f}
       /\ dir' = dir \union {FileName(f[1], f[2])}
  /\ UNCHANGED parsed

\* A file of somebody else, perhaps with a name as ours or nearly so; names are parsed
\* one by one, so that one of them is enough.
OtherName ==
  /\ Unparsed /\ dir = {}
  /\ \E w \in {"", "MANIFEST-", "MANIFEST", "LOG"}, m \in Numerals, s \in {"", ".log", ".ldb", ".dbtmp", ".old"} :
       dir' = dir \union {Name(w, m, s)}
  /\ UNCHANGED <<made, parsed>>
-----------------------------------------------------------------------------

\* value > kMaxUint64 / 10, or equal and the digit above the last one's.
Overflows(v, d) == v > MaxUint64 \div Base \/ (v = MaxUint64 \div Base /\ d > MaxUint64 % Base)

Bad == -1
\* The value of all digits, modulo the range of the type, or Bad.
ConsumeDecimalNumber(m) ==
  IF m = <<>> THEN Bad
  ELSE FoldLeft(LAMBDA v, d : IF v = Bad THEN Bad ELSE IF Overflows(v, d) THEN Bad ELSE (v * Base + d) % (MaxUint64 + 1), 0, m)

TypeOf(s) == CASE s = ".log" -> "log" [] s \in {".sst", ".ldb"} -> "table" [] s = ".dbtmp" -> "temp" [] OTHER -> "none"

\* A numeral behind a word that does not end in MANIFEST- is no number of ours.
ParseFileName(name) ==
  LET n == ConsumeDecimalNumber(name.numeral) IN
  IF name.numeral = <<>> /\ name.suffix = "" /\ name.word \in {"CURRENT", "LOCK"} THEN File(name.word, 0)
  ELSE IF name.numeral = <<>> /\ (name.word \o name.suffix) \in {"LOG", "LOG.old"} THEN File("LOG", 0)
  ELSE IF name.word = "MANIFEST-" THEN IF n = Bad \/ name.suffix # "" THEN No ELSE File("descriptor", n)
  ELSE IF name.word # "" \/ n = Bad \/ TypeOf(name.suffix) = "none" THEN No
  ELSE File(TypeOf(name.suffix), n)

Parse ==
  /\ \E name \in dir : parsed' = [name |-> name, file |-> ParseFileName(name)]
  /\ UNCHANGED <<made, dir>>

\* GetProperty "leveldb.num-files-at-level<N>": the level, or none.
NumFilesAtLevel(m) ==
  LET level == ConsumeDecimalNumber(m) IN IF level = Bad \/ level >= kNumLevels THEN No ELSE File("level", level)

GetProperty ==
  /\ dir = {}
  /\ \E m \in Numerals : parsed' = [name |-> Name("level", m, ""), file |-> NumFilesAtLevel(m)]
  /\ UNCHANGED <<made, dir>>

Next == MakeFile \/ OtherName \/ Parse \/ GetProperty
Spec == Init /\ [][Next]_vars
-----------------------------------------------------------------------------
Value(m) == FoldLeft(LAMBDA v, d : v * Base + d, 0, m)
Kind(type) == IF type = "sst" THEN "table" ELSE IF type = "LOG.old" THEN "LOG" ELSE type

\* Recovery, repair and the deletion of obsolete files see each file of the
\* database as what it was made as, with its number.
ParseRight == \A f \in made : parsed.name = FileName(f[1], f[2]) => parsed.file = File(Kind(f[1]), f[2])

\* Two files have two names.
Distinct == \A f, g \in made : f # g => FileName(f[1], f[2]) # FileName(g[1], g[2])

\* A number that is parsed is the numeral's value: one that is too large is
\* refused, not taken modulo the range, and the largest one is accepted.
NoWrap ==
  LET v == Value(parsed.name.numeral)
  IN /\ parsed.file.type \in {"log", "table", "temp", "descriptor", "level"} => parsed.file.number = v
     /\ parsed.name.suffix = ".log" /\ parsed.name.word = "" /\ parsed.name.numeral # <<>> => (parsed.file = No <=> v > MaxUint64)
=============================================================================
