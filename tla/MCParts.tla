------------------------------ MODULE MCParts -------------------------------
(***************************************************************************)
(* Instances for TLC of the modules that stand alone: the formats, what is *)
(* kept, and what must come to an end.  A behaviour is one of a single     *)
(* component, the one that part names, in the variables that its INSTANCE  *)
(* gives it; components that share no state have no steps to interleave,   *)
(* so that an invariant of one holds of all of them together just when it  *)
(* holds of it alone.                                                      *)
(***************************************************************************)
EXTENDS Integers, Sequences, TLC
CONSTANTS NoPrice, NoAlert, NoItem

VARIABLES
  part,    \* the component this behaviour is one of
  x1, x2, x3, x4, x5, x6, x7, x8, x9, x10, x11, x12, x13, x14, x15, x16, x17, x18    \* its variables
vars == <<part, x1, x2, x3, x4, x5, x6, x7, x8, x9, x10, x11, x12, x13, x14, x15, x16, x17,
          x18>>

\* A component with n variables leaves the others alone.
Idle(n) ==
  /\ (n < 1 => x1 = 0) /\ (n < 2 => x2 = 0) /\ (n < 3 => x3 = 0) /\ (n < 4 => x4 = 0)
  /\ (n < 5 => x5 = 0) /\ (n < 6 => x6 = 0) /\ (n < 7 => x7 = 0) /\ (n < 8 => x8 = 0)
  /\ (n < 9 => x9 = 0) /\ (n < 10 => x10 = 0) /\ (n < 11 => x11 = 0) /\ (n < 12 => x12 = 0)
  /\ (n < 13 => x13 = 0) /\ (n < 14 => x14 = 0) /\ (n < 15 => x15 = 0) /\ (n < 16 => x16 = 0)
  /\ (n < 17 => x17 = 0) /\ (n < 18 => x18 = 0)
Still(n) ==
  /\ (n < 1 => x1' = x1) /\ (n < 2 => x2' = x2) /\ (n < 3 => x3' = x3) /\ (n < 4 => x4' = x4)
  /\ (n < 5 => x5' = x5) /\ (n < 6 => x6' = x6) /\ (n < 7 => x7' = x7) /\ (n < 8 => x8' = x8)
  /\ (n < 9 => x9' = x9) /\ (n < 10 => x10' = x10) /\ (n < 11 => x11' = x11) /\ (n < 12 => x12' = x12)
  /\ (n < 13 => x13' = x13) /\ (n < 14 => x14' = x14) /\ (n < 15 => x15' = x15) /\ (n < 16 => x16' = x16)
  /\ (n < 17 => x17' = x17) /\ (n < 18 => x18' = x18)

-----------------------------------------------------------------------------
(* Formats: what leveldb and nanopb write, and what they read of it again. *)
\* Block.
BlockKeys == {<<>>, <<1>>, <<1, 1>>, <<1, 2>>, <<2, 1>>, <<1, 1, 2>>}
\* VersionEdit and WriteBatch.
EditNames == {<<>>, <<5>>}
EditKeys == {<<6>>, <<130, 7>>}
BatchKeys == {<<1>>, <<9, 0>>}
BatchValues == {<<>>, <<1>>}
\* FileNames.
FileNumerals == UNION {[1..n -> 0..3] : n \in 0..4}
\* KeyOrder.
OrderKeys == {<<>>, <<0>>, <<0, 3>>, <<1>>, <<2>>, <<2, 0, 1>>, <<3>>, <<3, 1, 0>>, <<3, 3>>}
OrderTags == {<<1, 0>>, <<1, 1>>, <<2, 1>>}
\* ApproximateSizes: files with the keys they reach from and to, and the last
\* keys of their blocks.
File(smallest, largest, index) == [smallest |-> smallest, largest |-> largest, index |-> index]
SizeVersions == {
  (0 :> <<File(6, 10, <<7, 11>>), File(2, 8, <<4, 8>>)>>)
    @@ (1 :> <<File(2, 2, <<3>>), File(4, 8, <<5, 8>>), File(10, 14, <<11, 14>>)>>),
  (0 :> <<>>) @@ (1 :> <<File(2, 6, <<3, 7>>), File(8, 14, <<10, 14>>)>>),
  (0 :> <<File(4, 12, <<8, 13>>)>>) @@ (1 :> <<File(2, 2, <<3>>), File(4, 8, <<5, 8>>)>>)}
\* PbWire: a number is the set of its bits.  All kinds and widths, at their edges.
Edges(w) == {{}, {0}, {w - 2}, {w - 1}, 0..(w - 2), 0..(w - 1), 1..(w - 1),
             {0, w - 1}, 0..6 \cap 0..(w - 1), {7} \cap 0..(w - 1)}
            \cup {{b} : b \in {6, 13, 14, 27, 28, 31, 32, 34, 35, 62} \cap 0..(w - 1)}
WireFields ==
  UNION {[ltype : {"varint", "uvarint", "svarint"}, data_size : {w}, v : Edges(w)] : w \in {8, 16, 32, 64}}
  \cup UNION {[ltype : {"fixed"}, data_size : {w}, v : Edges(w)] : w \in {32, 64}}
  \cup [ltype : {"bool"}, data_size : {8}, v : {{}, {0}}]
\* 0x00, 0x01, 0x0F, 0x10, 0x7F, 0x80, 0xFF
WireBytes == {{}, {0}, 0..3, {4}, 0..6, {7}, 0..7}

\* PbMessage: how a field is declared (the macros of pb.h).
Pb ==
  INSTANCE PbMessage WITH
    Fields <- <<>>, Chunks <- {}, MaxChunks <- 0, MaxCalls <- 0, Grants <- {}, PB_SIZE_MAX <- 0,
    PB_MAX_REQUIRED_FIELDS <- 0,
    input <- x1, chunks <- x2, msg <- x3, heap <- x4, state <- x5, calls <- x6, left <- x7
Inner == <<Pb!OPTIONAL_POINTER(1, "string", 1, <<>>), Pb!REPEATED_POINTER(2, "varint", 4, <<>>)>>
\* Everything that is allocated: strings, submessages, arrays of them, a union.
PointerFields ==
  <<Pb!REQUIRED_STATIC(1, "varint", 4, <<>>),
    Pb!REPEATED_POINTER(2, "string", 8, <<>>),
    Pb!OPTIONAL_POINTER(3, "submessage", 16, Inner),
    Pb!REPEATED_STATIC(4, "submessage", 16, 1, Inner),
    Pb!ONEOF_POINTER(5, "string", 1, <<>>),
    Pb!ONEOF_POINTER(6, "submessage", 16, Inner),
    Pb!REPEATED_POINTER(7, "submessage", 16, Inner),
    Pb!EXTENSION(8, <<Pb!OPTIONAL_POINTER(9, "bytes", 1, <<>>)>>)>>
PointerChunks ==
  {<<8, 1>>, <<18, 1, 65>>, <<26, 3, 10, 1, 65>>, <<26, 4, 18, 2, 5, 6>>, <<26, 2, 0, 0>>,
   <<34, 3, 10, 1, 66>>, <<42, 1, 67>>, <<50, 3, 10, 1, 68>>, <<58, 3, 10, 1, 69>>,
   <<58, 4, 10, 1, 70, 128>>, <<74, 1, 71>>, <<42, 9>>}
\* Static storage: bounds, a fixed count, proto3 members, an extension, unknown fields.
StaticFields ==
  <<Pb!REQUIRED_STATIC(1, "varint", 4, <<>>),
    Pb!REPEATED_STATIC(2, "varint", 4, 2, <<>>),
    Pb!REPEATED_FIXED_COUNT(3, "varint", 4, 2),
    Pb!OPTIONAL_STATIC(4, "string", 2, <<>>),
    Pb!SINGULAR_STATIC(5, "bytes", 6, <<>>),
    Pb!SINGULAR_STATIC(6, "submessage", 8,
      <<Pb!SINGULAR_STATIC(1, "varint", 4, <<>>), Pb!OPTIONAL_STATIC(2, "fixed32", 4, <<>>),
        Pb!SINGULAR_STATIC(3, "string", 2, <<>>)>>),
    Pb!OPTIONAL_STATIC(7, "fixed_length_bytes", 2, <<>>),
    Pb!CALLBACK(8, TRUE, <<>>),
    Pb!EXTENSION(10, <<Pb!REQUIRED_STATIC(11, "varint", 4, <<>>)>>),
    Pb!REQUIRED_POINTER(12, "varint", 4, <<>>)>>
StaticChunks ==
  {<<8, 1, 96, 1>>, <<16, 7>>, <<18, 2, 5, 6>>, <<24, 9>>, <<34, 1, 65>>, <<34, 2, 0, 0>>, <<42, 1, 66>>,
   <<50, 2, 8, 1>>, <<50, 2, 0, 0>>, <<50, 5, 21, 1, 2, 0, 0>>, <<58, 2, 1, 2>>, <<58, 0>>, <<66, 1, 67>>,
   <<64, 5>>, <<88, 3>>, <<120, 4>>, <<122, 1, 0>>, <<0>>, <<18, 5>>}
\* A submessage with a callback that writes less the second time.
CallbackFields ==
  <<Pb!OPTIONAL_STATIC(1, "submessage", 16,
      <<Pb!CALLBACK(2, FALSE, <<<<18, 1, 65>>, <<18, 0>>>>), Pb!OPTIONAL_STATIC(3, "varint", 4, <<>>)>>),
    Pb!OPTIONAL_STATIC(2, "submessage", 16, <<Pb!CALLBACK(2, TRUE, <<<<18, 1, 65>>, <<18, 1, 66>>>>)>>),
    Pb!OPTIONAL_STATIC(3, "varint", 4, <<>>)>>
CallbackChunks ==
  {<<10, 2, 24, 1>>, <<18, 3, 18, 1, 65>>, <<18, 0>>, <<24, 1>>, <<16, 4>>, <<33>>, <<1, 1, 1, 1>>, <<24>>,
   <<10, 5, 29, 1>>}
\* PbStream: messages of bytes, bools and submessages.
Leaf == <<<<"bytes", <<5, 6>>>>, <<"bool", 2>>>>
Middle == <<<<"bool", 0>>, <<"submessage", Leaf>>, <<"bytes", <<7>>>>>>
StreamMessages ==
  {<<>>, Leaf, <<<<"bytes", <<>>>>>>, Middle, <<<<"submessage", <<>>>>, <<"submessage", Middle>>, <<"bool", 1>>>>}
\* CCTMessages: four events of three mappings, an ID that is no number has the
\* value 0, and a device without a build number and a country.
Event(id, time, custom, code, network, bytes) ==
  [mappingID |-> id, time |-> time, uptime |-> 2, offset |-> 130, custom |-> custom, code |-> code,
   network |-> network, bytes |-> bytes]
FourLogs ==
  {Event("18", 1, TRUE, 3, 1, <<7>>), Event("18", 4, FALSE, -1, -1, <<>>),
   Event("a", 1, TRUE, -1, -1, <<9, 0>>), Event("b", 1, TRUE, -1, -1, <<9>>)}
IntValues == [id \in {"18", "a", "b"} |-> IF id = "18" THEN 18 ELSE 0]
Phone == [tag \in {3, 4, 7, 8, 11} |-> <<tag>>]
Answers == {<<8, 5>>, <<8, 128>>, <<26, 6, 10, 2, 16, 1, 16, 9>>, <<26, 4, 10, 2, 24, 1>>, <<26, 9>>, <<34, 1, 1>>}
Descriptors ==
  INSTANCE CCTMessages WITH
    Fields <- <<>>, Chunks <- {}, MaxChunks <- 0, MaxCalls <- 0, Grants <- {}, PB_SIZE_MAX <- 0,
    PB_MAX_REQUIRED_FIELDS <- 0, Logs <- {}, intValue <- <<>>, Device <- <<>>, MaxBatch <- 0,
    input <- x1, chunks <- x2, msg <- x3, heap <- x4, state <- x5, calls <- x6, left <- x7,
    batch <- x8, full <- x9, wait <- x10
-----------------------------------------------------------------------------
\* Records of every length around the size of a block, and a crash of the
\* writer.
LogRead ==
  INSTANCE LogFormat WITH
    BlockSize <- 8, HeaderSize <- 3, Lengths <- {0, 1, 2, 3, 4, 5, 6, 8, 12},
    MaxRecords <- 3, Damages <- 0, MaxCrashes <- 1,
    file <- x1, offset <- x2, written <- x3, damaged <- x4, crashes <- x5
\* A log with one damaged byte.
LogDamage ==
  INSTANCE LogFormat WITH
    BlockSize <- 8, HeaderSize <- 3, Lengths <- {0, 2, 3, 5, 7, 12}, MaxRecords <- 3,
    Damages <- 1, MaxCrashes <- 0,
    file <- x1, offset <- x2, written <- x3, damaged <- x4, crashes <- x5
\* Blocks of keys that share prefixes, with every restart interval.
BlockIter ==
  INSTANCE Block WITH
    Keys <- BlockKeys, Values <- {<<>>, <<8, 9>>}, Intervals <- {1, 2, 3}, MaxEntries <- 3,
    Damages <- {},
    interval <- x1, builder <- x2, added <- x3, block <- x4, it <- x5, call <- x6,
    damaged <- x7
\* A block with one damaged byte, which says less or more than the one written,
\* within the block or not, or that a second byte belongs to the length.
BlockDamage ==
  INSTANCE Block WITH
    Keys <- {<<1>>, <<1, 1>>, <<1, 2>>, <<2>>}, Values <- {<<9>>}, Intervals <- {1, 2},
    MaxEntries <- 3, Damages <- {0, 1, 2, 5, 127, 130},
    interval <- x1, builder <- x2, added <- x3, block <- x4, it <- x5, call <- x6,
    damaged <- x7
\* Tables of a few blocks, of which one cannot be read.
TableGet ==
  INSTANCE Table WITH
    Users <- {1, 3, 5}, Seqs <- {1, 2}, Sizes <- {1, 3}, BlockSizes <- {4}, FilterBase <- 3,
    MaxEntries <- 3, Fails <- {0}, Unreadable <- 1,
    r <- x1, added <- x2, failAt <- x3, fate <- x4, meta <- x5, bad <- x6
\* A table whose building fails at any of its calls to the file.
TableBuild ==
  INSTANCE Table WITH
    Users <- {1, 3}, Seqs <- {1, 2}, Sizes <- {2}, BlockSizes <- {4}, FilterBase <- 3,
    MaxEntries <- 4, Fails <- 0..22, Unreadable <- 0,
    r <- x1, added <- x2, failAt <- x3, fate <- x4, meta <- x5, bad <- x6
\* Two children of two blocks each.
Merge ==
  INSTANCE Iterators WITH
    Keys <- {2, 4, 6}, Targets <- {2, 3, 5, 7}, NChildren <- 2, NBlocks <- 2, MaxBad <- 0,
    lists <- x1, index <- x2, bad <- x3, m <- x4, call <- x5
\* The same with a block that cannot be read.
MergeBad ==
  INSTANCE Iterators WITH
    Keys <- {2, 4, 6}, Targets <- {2, 3, 5, 7}, NChildren <- 2, NBlocks <- 2, MaxBad <- 1,
    lists <- x1, index <- x2, bad <- x3, m <- x4, call <- x5
\* Four writes of two keys, read as of the third.
Reader ==
  INSTANCE DBIter WITH
    Users <- {1, 2}, MaxSeq <- 4, Snapshots <- {3}, MaxBad <- 0,
    list <- x1, snapshot <- x2, d <- x3, call <- x4
\* The same with an entry that cannot be parsed.
ReaderBad ==
  INSTANCE DBIter WITH
    Users <- {1, 2}, MaxSeq <- 4, Snapshots <- {3}, MaxBad <- 1,
    list <- x1, snapshot <- x2, d <- x3, call <- x4
\* Lengths that reach every loop of Extend, from every alignment.
Crc ==
  INSTANCE Crc32c WITH
    Lengths <- {0, 3, 5, 17, 19, 38}, Rests <- {0, 1, 18}, Bytes <- {{0}, {7}},
    Aligns <- {0, 1, 3},
    data <- x1, seen <- x2, align <- x3, p <- x4, l <- x5, strides <- x6, pc <- x7
\* Edits of two fields, whole and cut.
Edit ==
  INSTANCE VersionEdit WITH
    Group <- 7, Width32 <- 15, Width64 <- 22, kNumLevels <- 3, Names <- EditNames,
    Numbers <- {1, 200}, Keys <- EditKeys, Levels <- {2}, MaxSets <- 2, Damage <- {},
    edit <- x1, sets <- x2, input <- x3, out <- x4, msg <- x5, pc <- x6, whole <- x7
\* Edits with one byte replaced.
EditDamage ==
  INSTANCE VersionEdit WITH
    Group <- 7, Width32 <- 15, Width64 <- 22, kNumLevels <- 3, Names <- EditNames,
    Numbers <- {1, 200}, Keys <- EditKeys, Levels <- {2}, MaxSets <- 1,
    Damage <- {0, 1, 2, 3, 4, 5, 6, 7, 8, 9, 130, 255},
    edit <- x1, sets <- x2, input <- x3, out <- x4, msg <- x5, pc <- x6, whole <- x7
\* Batches of three operations.
Batch ==
  INSTANCE WriteBatch WITH
    Group <- 3, Width32 <- 8, Width64 <- 16, Keys <- BatchKeys, Values <- BatchValues,
    Sequences <- {1, 15}, MaxOps <- 3, Damage <- {},
    rep <- x1, ops <- x2, calls <- x3, contents <- x4, input <- x5, found <- x6, mem <- x7,
    logged <- x8, status <- x9, pc <- x10, whole <- x11
\* Batches with one byte replaced.
BatchDamage ==
  INSTANCE WriteBatch WITH
    Group <- 3, Width32 <- 8, Width64 <- 16, Keys <- BatchKeys, Values <- BatchValues,
    Sequences <- {1, 15}, MaxOps <- 2, Damage <- {0, 1, 2, 3, 15},
    rep <- x1, ops <- x2, calls <- x3, contents <- x4, input <- x5, found <- x6, mem <- x7,
    logged <- x8, status <- x9, pc <- x10, whole <- x11
\* File names, with numbers written to the base 4 and a largest number that is
\* no power of it.
Names ==
  INSTANCE FileNames WITH
    Base <- 4, MaxUint64 <- 22, Padded <- 2, kNumLevels <- 7,
    Numbers <- {1, 3, 4, 6, 15, 16, 22}, Numerals <- FileNumerals, MaxNames <- 2,
    made <- x1, dir <- x2, parsed <- x3
\* Keys that leave little or no room between them, with bytes of 0..3.
Order ==
  INSTANCE KeyOrder WITH
    Group <- 1, Width32 <- 4, Width64 <- 4, UserKeys <- OrderKeys, Tags <- OrderTags,
    Snapshots <- 0..3, MaxEntries <- 2, Space <- 7,
    blocks <- x1, index <- x2, pending <- x3, closed <- x4, key <- x5, got <- x6
\* Two keys with either of two hashes, in two filters.
Filter ==
  INSTANCE Bloom WITH
    UserKeys <- {"u", "v"}, Sequences_ <- {1}, HashBits <- 6, Rotation <- 3,
    Hashes <- {5, 63}, MinBits <- 8, BitsPerKey <- {1, 60}, MaxKeys <- 2, MaxFilters <- 2,
    hash <- x1, bits_per_key <- x2, keys <- x3, filters <- x4, asked <- x5
\* Ranges over three versions, with a table that cannot be opened.
Ranges ==
  INSTANCE ApproximateSizes WITH
    Versions <- SizeVersions, Keys <- {1, 3, 5, 7, 9, 11, 13, 15}, MaxFailures <- 1,
    Trailer <- 1, Wrap <- 65536,
    current <- x1, live <- x2, v <- x3, range <- x4, pc <- x5, start <- x6, size <- x7,
    failures <- x8, failed <- x9
\* Every kind and width of number, and varints of any bytes.
Wire ==
  INSTANCE PbWire WITH
    FieldValues <- WireFields, AnyBytes <- WireBytes, MaxBytes <- 11,
    wire <- x1, field <- x2, read <- x3, ended <- x4, v64 <- x5, v32 <- x6, skip <- x7,
    raw <- x8
\* Messages with allocated fields, and memory that runs out.
Heap ==
  INSTANCE PbMessage WITH
    Fields <- PointerFields, Chunks <- PointerChunks, MaxChunks <- 2, MaxCalls <- 2,
    Grants <- {0, 1, 20}, PB_SIZE_MAX <- 2, PB_MAX_REQUIRED_FIELDS <- 2,
    input <- x1, chunks <- x2, msg <- x3, heap <- x4, state <- x5, calls <- x6, left <- x7
\* Messages with static fields.
Static ==
  INSTANCE PbMessage WITH
    Fields <- StaticFields, Chunks <- StaticChunks, MaxChunks <- 2, MaxCalls <- 1,
    Grants <- {20}, PB_SIZE_MAX <- 2, PB_MAX_REQUIRED_FIELDS <- 2,
    input <- x1, chunks <- x2, msg <- x3, heap <- x4, state <- x5, calls <- x6, left <- x7
\* Submessages written by callbacks.
Callback ==
  INSTANCE PbMessage WITH
    Fields <- CallbackFields, Chunks <- CallbackChunks, MaxChunks <- 3, MaxCalls <- 1,
    Grants <- {20}, PB_SIZE_MAX <- 3, PB_MAX_REQUIRED_FIELDS <- 2,
    input <- x1, chunks <- x2, msg <- x3, heap <- x4, state <- x5, calls <- x6, left <- x7
\* Messages written to buffers of every size.
Stream ==
  INSTANCE PbStream WITH
    Messages <- StreamMessages, Sizes <- {0, 1, 3, 4, 5, 6, 7, 8, 9, 10, 11, 12, 16, 40},
    MaxCalls <- 3, Never <- 1000,
    stream <- x1, ok <- x2, calls <- x3, size <- x4
\* Requests of two events, and answers, with memory that runs out.
Upload ==
  INSTANCE CCTMessages WITH
    Fields <- Descriptors!gdt_cct_BatchedLogRequest_fields, Chunks <- Answers,
    MaxChunks <- 2, MaxCalls <- 2, Grants <- {0, 3, 8, 99}, PB_SIZE_MAX <- 99,
    PB_MAX_REQUIRED_FIELDS <- 64, Logs <- FourLogs, intValue <- IntValues, Device <- Phone,
    MaxBatch <- 2,
    input <- x1, chunks <- x2, msg <- x3, heap <- x4, state <- x5, calls <- x6, left <- x7,
    batch <- x8, full <- x9, wait <- x10
-----------------------------------------------------------------------------
FormatsInit ==
  \/ part = "log" /\ LogRead!Init /\ Idle(5)
  \/ part = "log_damage" /\ LogDamage!Init /\ Idle(5)
  \/ part = "block" /\ BlockIter!Init /\ Idle(7)
  \/ part = "block_damage" /\ BlockDamage!Init /\ Idle(7)
  \/ part = "table" /\ TableGet!Init /\ Idle(6)
  \/ part = "table_build" /\ TableBuild!Init /\ Idle(6)
  \/ part = "merge" /\ Merge!Init /\ Idle(5)
  \/ part = "merge_bad" /\ MergeBad!Init /\ Idle(5)
  \/ part = "dbiter" /\ Reader!Init /\ Idle(4)
  \/ part = "dbiter_bad" /\ ReaderBad!Init /\ Idle(4)
  \/ part = "crc" /\ Crc!Init /\ Idle(7)
  \/ part = "edit" /\ Edit!Init /\ Idle(7)
  \/ part = "edit_damage" /\ EditDamage!Init /\ Idle(7)
  \/ part = "batch" /\ Batch!Init /\ Idle(11)
  \/ part = "batch_damage" /\ BatchDamage!Init /\ Idle(11)
  \/ part = "names" /\ Names!Init /\ Idle(3)
  \/ part = "order" /\ Order!Init /\ Idle(6)
  \/ part = "bloom" /\ Filter!Init /\ Idle(5)
  \/ part = "sizes" /\ Ranges!Init /\ Idle(9)
  \/ part = "wire" /\ Wire!Init /\ Idle(8)
  \/ part = "heap" /\ Heap!Init /\ Idle(7)
  \/ part = "static" /\ Static!Init /\ Idle(7)
  \/ part = "lengths" /\ Callback!Init /\ Idle(7)
  \/ part = "stream" /\ Stream!Init /\ Idle(4)
  \/ part = "cct" /\ Upload!UploadInit /\ Idle(10)
FormatsNext ==
  \/ part = "log" /\ LogRead!Next /\ Still(5) /\ UNCHANGED part
  \/ part = "log_damage" /\ LogDamage!Next /\ Still(5) /\ UNCHANGED part
  \/ part = "block" /\ BlockIter!Next /\ Still(7) /\ UNCHANGED part
  \/ part = "block_damage" /\ BlockDamage!Next /\ Still(7) /\ UNCHANGED part
  \/ part = "table" /\ TableGet!Next /\ Still(6) /\ UNCHANGED part
  \/ part = "table_build" /\ TableBuild!Next /\ Still(6) /\ UNCHANGED part
  \/ part = "merge" /\ Merge!Next /\ Still(5) /\ UNCHANGED part
  \/ part = "merge_bad" /\ MergeBad!Next /\ Still(5) /\ UNCHANGED part
  \/ part = "dbiter" /\ Reader!Next /\ Still(4) /\ UNCHANGED part
  \/ part = "dbiter_bad" /\ ReaderBad!Next /\ Still(4) /\ UNCHANGED part
  \/ part = "crc" /\ Crc!Next /\ Still(7) /\ UNCHANGED part
  \/ part = "edit" /\ Edit!Next /\ Still(7) /\ UNCHANGED part
  \/ part = "edit_damage" /\ EditDamage!Next /\ Still(7) /\ UNCHANGED part
  \/ part = "batch" /\ Batch!Next /\ Still(11) /\ UNCHANGED part
  \/ part = "batch_damage" /\ BatchDamage!Next /\ Still(11) /\ UNCHANGED part
  \/ part = "names" /\ Names!Next /\ Still(3) /\ UNCHANGED part
  \/ part = "order" /\ Order!Next /\ Still(6) /\ UNCHANGED part
  \/ part = "bloom" /\ Filter!Next /\ Still(5) /\ UNCHANGED part
  \/ part = "sizes" /\ Ranges!Next /\ Still(9) /\ UNCHANGED part
  \/ part = "wire" /\ Wire!Next /\ Still(8) /\ UNCHANGED part
  \/ part = "heap" /\ Heap!Next /\ Still(7) /\ UNCHANGED part
  \/ part = "static" /\ Static!Next /\ Still(7) /\ UNCHANGED part
  \/ part = "lengths" /\ Callback!Next /\ Still(7) /\ UNCHANGED part
  \/ part = "stream" /\ Stream!Next /\ Still(4) /\ UNCHANGED part
  \/ part = "cct" /\ Upload!UploadNext /\ Still(10) /\ UNCHANGED part
FormatsSpec == FormatsInit /\ [][FormatsNext]_vars

ASSUME FormatsAssumption == Edit!WidthAssumption /\ Batch!WidthAssumption /\ Order!WidthAssumption /\ Names!BaseAssumption
-----------------------------------------------------------------------------
(* Properties: what the components' own say, of the component that runs.   *)

\* Block::Iter, the merging iterator over two-level iterators and DBIter are
\* each a cursor in a sorted list (SortedCursor): whatever calls are made, in
\* whichever direction and across every change of it, each ends at the entry the
\* Iterator interface promises, none left out and none shown twice.
Cursors ==
  /\ (part = "block" => BlockIter!Cursor!Init)
  /\ (part = "merge" => Merge!Cursor!Init)
  /\ (part = "dbiter" => Reader!Cursor!Init)
  /\ [][/\ part = "block" => [BlockIter!Cursor!Next]_(BlockIter!Cursor!vars)
        /\ part = "merge" => [Merge!Cursor!Next]_(Merge!Cursor!vars)
        /\ part = "dbiter" => [Reader!Cursor!Next]_(Reader!Cursor!vars)]_vars

\* What is looked for is found where it is: Table's Get through the index and the
\* filter, with shortened index keys (FindShortestSeparator) that still divide
\* the blocks, filters that never deny a key they were given, and sizes of ranges
\* that follow from the blocks in them.
LookupsRight ==
  /\ part = "table" => TableGet!GetRight /\ TableGet!OffsetsGrow
  /\ part = "order" => Order!Between /\ Order!LookupRight /\ Order!WithinBuffer
  /\ part = "bloom" => Filter!NoFalseNegative /\ Filter!EmptyMatchesNothing
  /\ part = "sizes" => Ranges!SizesRight /\ Ranges!NoWrap

\* What was written is read back as it was: log records across blocks and from
\* any initial offset, edits of the manifest, batches, file names, checksums
\* whatever the alignment, numbers of every kind and width, messages whole,
\* merged and in pieces, and the requests of the event uploader.
ReadsBack ==
  /\ part = "log" => LogRead!ReadsBack /\ LogRead!StartsAtOffset
  /\ part = "edit" => Edit!RoundTrip
  /\ part = "batch" => Batch!InsertsAll /\ Batch!CountRight
  /\ part = "names" => Names!ParseRight /\ Names!Distinct
  /\ part = "crc" => Crc!IsDivision /\ Crc!MaskInverse
  /\ part = "wire" => Wire!NumbersSurvive /\ Wire!NarrowAgrees
  /\ part = "heap" => Heap!EncodesBack
  /\ part = "static" => Static!EncodesBack /\ Static!MergesAsJoined
  /\ part = "lengths" => Callback!LengthsHonest
  /\ part = "stream" => Stream!InOrder /\ Stream!Accounted /\ Stream!SizeExact /\ Stream!RoomEnough
  /\ part = "cct" => Upload!RequestCarries

\* Damage is noticed or stays where it is: no log record comes out that was not
\* put in, what lies apart from the damage is still read, a loss is reported, a
\* block read without its checksum shows what ends before the damage as it was and
\* nothing from outside its entries, a level out of range is refused, and a table,
\* an edit or a batch that is accepted is a whole one.
DamageContained ==
  /\ part = "log_damage" => LogDamage!NothingMadeUp /\ LogDamage!DamageContained /\ LogDamage!LossReported
  /\ part = "block_damage" => BlockDamage!WithinBlock /\ BlockDamage!UndamagedShown
  /\ part = "table_build" => TableBuild!KeptIsWhole
  /\ part = "edit" => Edit!CutIsPart
  /\ part = "edit_damage" => EditDamage!LevelsInRange
  /\ part = "batch_damage" => BatchDamage!AcceptedCounts
  /\ part = "names" => Names!NoWrap
  /\ part = "wire" => Wire!NothingCutOff /\ Wire!SameExtent

\* No step passes over an error in silence: an iterator whose status is ok has
\* left out no entry, a walk in a damaged block ends, and well only at the end of
\* the entries, decoding an edit goes on or is refused, the rest of a stream starts
\* where it says, and the uploader waits only for as long as a whole answer asks.
ErrorsSurface ==
  [][/\ part = "merge_bad" => MergeBad!ErrorsSurface
     /\ part = "dbiter_bad" => ReaderBad!ErrorsSurface
     /\ part = "block_damage" => BlockDamage!EndIsReal /\ BlockDamage!WalkEnds
     /\ part = "edit_damage" => EditDamage!Shortens
     /\ part = "heap" => Heap!StreamInStep
     /\ part = "static" => Static!StreamInStep
     /\ part = "cct" => Upload!WaitIsAsked]_vars

\* Memory that decoding allocates has one owner at any moment, and none is left
\* after a release or an error, wherever allocations fail.
MemoryOwned ==
  /\ part = "heap" => Heap!Ownership /\ Heap!ReleasedAll
  /\ part = "cct" => Upload!Ownership /\ Upload!NothingLeft
-----------------------------------------------------------------------------
(* What is kept: by leveldb, by its files and locks, by the uploader of    *)
(* events, and on the app's two other tabs.                                *)
\* DBWrite.
SmallBatch == [count |-> 1, size |-> 1]
LargeBatch == [count |-> 2, size |-> 2]
\* Compaction: sizes are in entries, and small, so that a level is full at once.
Full == [l \in 1..2 |-> 2]
Empty == [l \in 0..3 |-> {}]
\* LRUCache: keys of two shards, and keys that a table of two buckets and one of
\* four put into different buckets.
RaceHash == (1 :> 0) @@ (2 :> 4)
RaceCharge == (1 :> 1) @@ (2 :> 2)
OffHash == (1 :> 0) @@ (2 :> 4) @@ (3 :> 8)
OffCharge == (1 :> 1) @@ (2 :> 2) @@ (3 :> 1)
GrowHash == (1 :> 0) @@ (2 :> 4) @@ (3 :> 6) @@ (4 :> 1)
GrowCharge == [k \in 1..4 |-> 1]
\* FileLocks: three clients, each a process or two of them in one.
ApartOf == (1 :> "p1") @@ (2 :> "p2") @@ (3 :> "p3")
SharedOf == (1 :> "p1") @@ (2 :> "p1") @@ (3 :> "p2")
\* FileString: two names of manifests.
ManifestNames == {<<"M", "1", "nl">>, <<"M", "2", "2", "2", "nl">>}
\* PosixLogger: messages on both sides of the size of the buffer.
Text(n) == [i \in 1..n |-> "m"]
LogMessages == {Text(n) : n \in 0..6} \union {Append(Text(n), "nl") : n \in 0..5}
\* XPlat and CatalogueBrowser.
None == <<0, 1>>
Low == <<19, 19>>
High == <<40, 50>>
Wide == <<10, 30>>
\* An item with the given prices in the default colour, black only on PC.
Item(colours, name, pc, xbox) ==
  [itemName |-> name,
   itemPriceRange |-> [c \in colours \X {"PC", "XBOX"} |->
      IF c[1] = "Default" THEN (IF c[2] = "PC" THEN pc ELSE xbox)
      ELSE IF c[2] = "PC" THEN pc ELSE NoPrice]]
Both == {"Default", "Black"}
\* Rates that tie and differ, one item without a price, a second catalogue.
TabCatalogues ==
  {<<Item(Both, "a", Low, Low), Item(Both, "b", Low, High), Item(Both, "c", High, High)>>,
   <<Item(Both, "a", High, Low), Item(Both, "b", NoPrice, Low)>>}
\* A price of nothing on one platform or on both.
ZeroCatalogues ==
  {<<Item(Both, "a", Low, High), Item(Both, "b", None, None), Item(Both, "c", Low, Low)>>,
   <<Item(Both, "a", Low, Low), Item(Both, "b", Low, None), Item(Both, "c", Low, Wide)>>}
\* Catalogues of two and three items, a text that finds one of them and one that finds two.
BrowserCatalogues ==
  LET item(name, xbox) == Item({"Default"}, name, Low, xbox)
  IN {<<item("c", Low), item("a", NoPrice), item("b", Low)>>, <<item("b", NoPrice), item("a", Low)>>, <<>>}
BrowserHits == ("" :> {}) @@ ("a" :> {"a"}) @@ ("ab" :> {"a", "b"})
\* EventUpload: two events.
OneTarget == [e \in {"e1", "e2"} |-> "CCT"]
TwoTargets == ("e1" :> "CCT") @@ ("e2" :> "CSH")
FastAndMobile == ("e1" :> "fast") @@ ("e2" :> "default")
-----------------------------------------------------------------------------
\* Three threads write, with a memtable that one batch fills, two files that
\* stop writes, and one failure.
Writers ==
  INSTANCE DBWrite WITH
    Threads <- {"t1", "t2", "t3"}, Batches <- {SmallBatch, LargeBatch}, Kinds <- {"write"},
    kSmallBatch <- 1, kMaxBatch <- 3, WriteBufferSize <- 1, kL0_CompactionTrigger <- 1,
    kL0_SlowdownWritesTrigger <- 1, kL0_StopWritesTrigger <- 2, MaxCalls <- 3,
    MaxFaults <- 1, MaxRounds <- 1,
    mutex <- x1, pc <- x2, w <- x3, writers <- x4, woken <- x5, group <- x6, calls <- x7,
    log <- x8, mem <- x9, imm <- x10, tables <- x11, level0 <- x12, lastSequence <- x13,
    bgError <- x14, bg <- x15, manual <- x16, down <- x17, faults <- x18
\* The process ends twice, at any step.
AfterExit ==
  INSTANCE DBRecovery WITH
    Machine <- FALSE, ReuseLogs <- FALSE, AppendMayFail <- FALSE, SyncKinds <- {FALSE},
    MemSize <- 1, MaxWrites <- 3, MaxCrashes <- 2, MaxFaults <- 0, MaxWorks <- 1,
    disk <- x1, durable <- x2, up <- x3, db <- x4, edit <- x5, flush <- x6, work <- x7,
    pinned <- x8, writer <- x9, acked <- x10, count <- x11
\* The machine stops twice, and one call fails.
AfterPowerLoss ==
  INSTANCE DBRecovery WITH
    Machine <- TRUE, ReuseLogs <- FALSE, AppendMayFail <- FALSE, SyncKinds <- {TRUE, FALSE},
    MemSize <- 1, MaxWrites <- 2, MaxCrashes <- 2, MaxFaults <- 1, MaxWorks <- 1,
    disk <- x1, durable <- x2, up <- x3, db <- x4, edit <- x5, flush <- x6, work <- x7,
    pinned <- x8, writer <- x9, acked <- x10, count <- x11
\* Three writes of two keys, deletions among them, down four levels.
Tree ==
  INSTANCE Compaction WITH
    MaxKey <- 2, MaxSeq <- 3, NumLevels <- 4, MaxMemLevel <- 2, L0Trigger <- 2,
    MaxFileSize <- 1, LevelBytes <- Full, MaxGrandParent <- 1, ExpandLimit <- 6,
    StartWritten <- <<>>, StartLevels <- Empty, Readers <- {"r"}, Types <- {"put", "del"},
    AllowedSeeks <- 1, ManualRanges <- {}, MayFail <- FALSE, Pins <- FALSE, Sampling <- TRUE,
    written <- x1, mem <- x2, imm <- x3, levels <- x4, pointers <- x5, nextFile <- x6,
    disk <- x7, seeks <- x8, toCompact <- x9, c <- x10, manual <- x11, snap <- x12,
    pin <- x13, error <- x14
\* A reader that keeps an old version while the tree changes or a table fails.
Pinned ==
  INSTANCE Compaction WITH
    MaxKey <- 1, MaxSeq <- 3, NumLevels <- 4, MaxMemLevel <- 2, L0Trigger <- 2,
    MaxFileSize <- 1, LevelBytes <- Full, MaxGrandParent <- 1, ExpandLimit <- 6,
    StartWritten <- <<>>, StartLevels <- Empty, Readers <- {"r"}, Types <- {"put"},
    AllowedSeeks <- 1, ManualRanges <- {}, MayFail <- TRUE, Pins <- TRUE, Sampling <- FALSE,
    written <- x1, mem <- x2, imm <- x3, levels <- x4, pointers <- x5, nextFile <- x6,
    disk <- x7, seeks <- x8, toCompact <- x9, c <- x10, manual <- x11, snap <- x12,
    pin <- x13, error <- x14
\* Two readers, three versions, two files.
Refs ==
  INSTANCE VersionRefs WITH
    Readers <- {"r", "s"}, MaxVersions <- 3, MaxFiles <- 2,
    refs_ <- x1, files_ <- x2, next_ <- x3, prev_ <- x4, made <- x5, dead <- x6, refs <- x7,
    files_made <- x8, files_dead <- x9, to_compact <- x10, current_ <- x11, pending <- x12,
    reader <- x13, seek_file <- x14, input_version_ <- x15, inputs <- x16, closed <- x17
\* Three snapshots, released in any order, around a compaction.
Snaps ==
  INSTANCE Snapshots WITH
    MaxSnapshots <- 3, MaxSequence <- 3,
    last_sequence <- x1, live <- x2, sequence_number_ <- x3, prev_ <- x4, next_ <- x5,
    smallest <- x6
\* Two threads on a shard with room for one of two values.
Race ==
  INSTANCE LRUCache WITH
    Threads <- {"t1", "t2"}, Keys <- {1, 2}, Hash <- RaceHash, Charge <- RaceCharge,
    Capacity <- 4, NumShards <- 2, InitialLength <- 2, HashRange <- 8, Addresses <- 1..6,
    Evictions <- {1},
    shard <- x1, heap <- x2, alive <- x3, current <- x4, thread <- x5
\* Four keys in a table that starts with two buckets.
Grow ==
  INSTANCE LRUCache WITH
    Threads <- {"t1"}, Keys <- {1, 2, 3, 4}, Hash <- GrowHash, Charge <- GrowCharge,
    Capacity <- 3, NumShards <- 1, InitialLength <- 2, HashRange <- 16, Addresses <- 1..5,
    Evictions <- {},
    shard <- x1, heap <- x2, alive <- x3, current <- x4, thread <- x5
\* A cache without room.
Off ==
  INSTANCE LRUCache WITH
    Threads <- {"t1", "t2"}, Keys <- {1, 2, 3}, Hash <- OffHash, Charge <- OffCharge,
    Capacity <- 0, NumShards <- 2, InitialLength <- 4, HashRange <- 8, Addresses <- 1..5,
    Evictions <- {1},
    shard <- x1, heap <- x2, alive <- x3, current <- x4, thread <- x5
\* A reader walks while three entries of two keys are inserted.
Skip ==
  INSTANCE MemTable WITH
    Readers <- {"r"}, UserKeys <- {1, 2}, Types <- {1}, MaxHeight <- 2, MaxNodes <- 3,
    MaxCalls <- 1,
    node <- x1, max_height <- x2, writer <- x3, last <- x4, reader <- x5
\* Sizes around the alignment, a quarter of a block and a block.
Blocks ==
  INSTANCE Arena WITH
    BlockSize <- 32, Align <- 4, PointerSize <- 4, Sizes <- {1, 4, 7, 9, 33},
    MaxRequests <- 4,
    blocks <- x1, ptr <- x2, left <- x3, usage <- x4, given <- x5
\* A buffer of three bytes: what is appended fits, fills it, or is larger.
Appending ==
  INSTANCE WritableFile WITH
    BufferSize <- 3, Sizes <- {1, 2, 5}, IsManifest <- FALSE, WritesBack <- TRUE,
    Faults <- 2, MaxBytes <- 7, MaxFiles <- 1,
    buf <- x1, fd <- x2, file <- x3, disk <- x4, created <- x5, dir <- x6, faults <- x7,
    appended <- x8, result <- x9
\* A manifest that names new files; the system writes nothing before Sync.
ManifestFile ==
  INSTANCE WritableFile WITH
    BufferSize <- 3, Sizes <- {1, 2, 5}, IsManifest <- TRUE, WritesBack <- FALSE,
    Faults <- 1, MaxBytes <- 6, MaxFiles <- 2,
    buf <- x1, fd <- x2, file <- x3, disk <- x4, created <- x5, dir <- x6, faults <- x7,
    appended <- x8, result <- x9
\* CURRENT replaced three times, read in fragments of two characters, with three
\* failures.
CurrentFile ==
  INSTANCE FileString WITH
    Strings <- ManifestNames, kBufferSize <- 2, MaxFailures <- 3, MaxWrites <- 3,
    fs <- x1, pc <- x2, s <- x3, contents <- x4, offset <- x5, data <- x6, failures <- x7,
    writes <- x8, before <- x9
\* A database with two damaged tables.
Recover ==
  INSTANCE Repair WITH
    Keys <- {1, 2}, MaxPuts <- 3, MaxFiles <- 5, MaxLevel <- 2, Damages <- 2,
    LogDamages <- 0, Faults <- 0, Crashes <- 0,
    db <- x1, tables <- x2, logs <- x3, lost <- x4, manifest <- x5, rep <- x6, used <- x7
\* Damage, a failing call and a crash in the middle of the repair.
Crashing ==
  INSTANCE Repair WITH
    Keys <- {1, 2}, MaxPuts <- 2, MaxFiles <- 4, MaxLevel <- 1, Damages <- 1,
    LogDamages <- 1, Faults <- 1, Crashes <- 1,
    db <- x1, tables <- x2, logs <- x3, lost <- x4, manifest <- x5, rep <- x6, used <- x7
\* Three processes.
Apart ==
  INSTANCE FileLocks WITH
    Clients <- {1, 2, 3}, Processes <- {"p1", "p2", "p3"}, ProcessOf <- ApartOf,
    Faults <- FALSE,
    pc <- x1, locked <- x2, owner <- x3
\* Two clients in one process, one in another, and calls that fail.
Shared ==
  INSTANCE FileLocks WITH
    Clients <- {1, 2, 3}, Processes <- {"p1", "p2"}, ProcessOf <- SharedOf, Faults <- TRUE,
    pc <- x1, locked <- x2, owner <- x3
\* Fewer regions and descriptors than threads.
Files ==
  INSTANCE ReadableFiles WITH
    Threads <- {"t1", "t2", "t3"}, MmapLimit <- 1, FdLimit <- 1,
    allowed <- x1, pc <- x2, fds <- x3, refused <- x4
\* Two threads, and a buffer of six characters.
Logger ==
  INSTANCE PosixLogger WITH
    Threads <- {"t", "u"}, Messages <- LogMessages, Header <- <<"h", "h">>,
    kStackBufferSize <- 6, MaxLines <- 2,
    message <- x1, iteration <- x2, buffer <- x3, buffer_size <- x4, offset <- x5, pc <- x6,
    allocated <- x7, file <- x8, logged <- x9
\* Three items in two colours, prices that tie and prices that are gone.
Tab ==
  INSTANCE XPlat WITH
    ItemNames <- {"a", "b", "c"}, Colours <- Both, Platforms <- {"PC", "XBOX"},
    DefaultColour <- "Default", PriceRanges <- {None, Low, High, Wide}, NoPrice <- NoPrice,
    ColourOrder <- <<"Default", "Black">>, Catalogues <- TabCatalogues,
    Defaults <- <<"PC", "XBOX">>, NoAlert <- NoAlert, MaxQueue <- 3,
    items <- x1, haveLoaded <- x2, load <- x3, queue <- x4, xPlatData <- x5, saved <- x6,
    xPlatItems <- x7, title <- x8, loaded <- x9, hidden <- x10, screen <- x11, alert <- x12,
    trap <- x13, from <- x14, swiped <- x15
\* Prices of nothing.
Zero ==
  INSTANCE XPlat WITH
    ItemNames <- {"a", "b", "c"}, Colours <- Both, Platforms <- {"PC", "XBOX"},
    DefaultColour <- "Default", PriceRanges <- {None, Low, High, Wide}, NoPrice <- NoPrice,
    ColourOrder <- <<"Default", "Black">>, Catalogues <- ZeroCatalogues,
    Defaults <- <<"PC", "XBOX">>, NoAlert <- NoAlert, MaxQueue <- 3,
    items <- x1, haveLoaded <- x2, load <- x3, queue <- x4, xPlatData <- x5, saved <- x6,
    xPlatItems <- x7, title <- x8, loaded <- x9, hidden <- x10, screen <- x11, alert <- x12,
    trap <- x13, from <- x14, swiped <- x15
\* Two screens on one list of search results.
Browser ==
  INSTANCE CatalogueBrowser WITH
    ItemNames <- {"a", "b", "c"}, Colours <- {"Default"}, Platforms <- {"PC", "XBOX"},
    DefaultColour <- "Default", PriceRanges <- {Low}, NoPrice <- NoPrice,
    Catalogues <- BrowserCatalogues, SearchTexts <- {"", "a", "ab"}, NoText <- "",
    Hits <- BrowserHits, FirstPlatform <- "PC", NoItem <- NoItem, NoAlert <- NoAlert,
    items <- x1, filteredData <- x2, load <- x3, platform <- x4, saved <- x5, screen <- x6,
    priceText <- x7, priceRows <- x8, loaded <- x9, pending <- x10, itemRows <- x11,
    selectedItem <- x12, alert <- x13, trap <- x14
\* Two targets, an answer that puts the uploader off, and a check for
\* expirations.
TwoUploads ==
  INSTANCE EventUpload WITH
    Events <- {"e1", "e2"}, Targets <- {"CCT", "CSH"}, EventTarget <- TwoTargets,
    EventQoS <- FastAndMobile, Networks <- {"mobile"}, Outcomes <- {"accepted", "busy"},
    MayExpire <- {}, Unreadable <- {}, MaxTimer <- 1, MaxChecks <- 1, MaxCrashes <- 0,
    coordinationQueue <- x1, uploaderQueue <- x2, storageQueue <- x3,
    isCurrentlyUploading <- x4, waiting <- x5, tasks <- x6, events <- x7, batches <- x8,
    batchIDCounter <- x9, due <- x10, expired <- x11, known <- x12, answered <- x13,
    timer <- x14, checks <- x15, crashes <- x16
\* The process ends once, and an event expires.
CrashedUpload ==
  INSTANCE EventUpload WITH
    Events <- {"e1", "e2"}, Targets <- {"CCT"}, EventTarget <- OneTarget,
    EventQoS <- FastAndMobile, Networks <- {"mobile"}, Outcomes <- {"accepted", "error"},
    MayExpire <- {"e2"}, Unreadable <- {}, MaxTimer <- 1, MaxChecks <- 1, MaxCrashes <- 1,
    coordinationQueue <- x1, uploaderQueue <- x2, storageQueue <- x3,
    isCurrentlyUploading <- x4, waiting <- x5, tasks <- x6, events <- x7, batches <- x8,
    batchIDCounter <- x9, due <- x10, expired <- x11, known <- x12, answered <- x13,
    timer <- x14, checks <- x15, crashes <- x16
-----------------------------------------------------------------------------
StoreInit ==
  \/ part = "write" /\ Writers!Init /\ Idle(18)
  \/ part = "process" /\ AfterExit!Init /\ Idle(11)
  \/ part = "machine" /\ AfterPowerLoss!Init /\ Idle(11)
  \/ part = "tree" /\ Tree!Init /\ Idle(14)
  \/ part = "pins" /\ Pinned!Init /\ Idle(14)
  \/ part = "refs" /\ Refs!Init /\ Idle(17)
  \/ part = "snapshots" /\ Snaps!Init /\ Idle(6)
  \/ part = "cache" /\ Race!Init /\ Idle(5)
  \/ part = "cache_grow" /\ Grow!Init /\ Idle(5)
  \/ part = "cache_off" /\ Off!Init /\ Idle(5)
  \/ part = "memtable" /\ Skip!Init /\ Idle(5)
  \/ part = "arena" /\ Blocks!Init /\ Idle(5)
  \/ part = "file" /\ Appending!Init /\ Idle(9)
  \/ part = "manifest" /\ ManifestFile!Init /\ Idle(9)
  \/ part = "current" /\ CurrentFile!Init /\ Idle(9)
  \/ part = "repair" /\ Recover!Init /\ Idle(7)
  \/ part = "repair_crash" /\ Crashing!Init /\ Idle(7)
  \/ part = "locks" /\ Apart!Init /\ Idle(3)
  \/ part = "locks_shared" /\ Shared!Init /\ Idle(3)
  \/ part = "files" /\ Files!Init /\ Idle(4)
  \/ part = "logger" /\ Logger!Init /\ Idle(9)
  \/ part = "tab" /\ Tab!Init /\ Idle(15)
  \/ part = "zero" /\ Zero!Init /\ Idle(15)
  \/ part = "browser" /\ Browser!Init /\ Idle(14)
  \/ part = "targets" /\ TwoUploads!Init /\ Idle(16)
  \/ part = "crash" /\ CrashedUpload!Init /\ Idle(16)
StoreNext ==
  \/ part = "write" /\ Writers!Next /\ Still(18) /\ UNCHANGED part
  \/ part = "process" /\ AfterExit!Next /\ Still(11) /\ UNCHANGED part
  \/ part = "machine" /\ AfterPowerLoss!Next /\ Still(11) /\ UNCHANGED part
  \/ part = "tree" /\ Tree!Next /\ Still(14) /\ UNCHANGED part
  \/ part = "pins" /\ Pinned!Next /\ Still(14) /\ UNCHANGED part
  \/ part = "refs" /\ Refs!Next /\ Still(17) /\ UNCHANGED part
  \/ part = "snapshots" /\ Snaps!Next /\ Still(6) /\ UNCHANGED part
  \/ part = "cache" /\ Race!Next /\ Still(5) /\ UNCHANGED part
  \/ part = "cache_grow" /\ Grow!Next /\ Still(5) /\ UNCHANGED part
  \/ part = "cache_off" /\ Off!Next /\ Still(5) /\ UNCHANGED part
  \/ part = "memtable" /\ Skip!Next /\ Still(5) /\ UNCHANGED part
  \/ part = "arena" /\ Blocks!Next /\ Still(5) /\ UNCHANGED part
  \/ part = "file" /\ Appending!Next /\ Still(9) /\ UNCHANGED part
  \/ part = "manifest" /\ ManifestFile!Next /\ Still(9) /\ UNCHANGED part
  \/ part = "current" /\ CurrentFile!Next /\ Still(9) /\ UNCHANGED part
  \/ part = "repair" /\ Recover!Next /\ Still(7) /\ UNCHANGED part
  \/ part = "repair_crash" /\ Crashing!Next /\ Still(7) /\ UNCHANGED part
  \/ part = "locks" /\ Apart!Next /\ Still(3) /\ UNCHANGED part
  \/ part = "locks_shared" /\ Shared!Next /\ Still(3) /\ UNCHANGED part
  \/ part = "files" /\ Files!Next /\ Still(4) /\ UNCHANGED part
  \/ part = "logger" /\ Logger!Next /\ Still(9) /\ UNCHANGED part
  \/ part = "tab" /\ Tab!Next /\ Still(15) /\ UNCHANGED part
  \/ part = "zero" /\ Zero!Next /\ Still(15) /\ UNCHANGED part
  \/ part = "browser" /\ Browser!Next /\ Still(14) /\ UNCHANGED part
  \/ part = "targets" /\ TwoUploads!Next /\ Still(16) /\ UNCHANGED part
  \/ part = "crash" /\ CrashedUpload!Next /\ Still(16) /\ UNCHANGED part
StoreSpec == StoreInit /\ [][StoreNext]_vars

ASSUME StoreAssumption ==
  /\ Writers!TriggerAssumption /\ Tree!SizesAssumption /\ Race!HashAssumption /\ Grow!HashAssumption
  /\ Tab!XPlatAssumption /\ Zero!XPlatAssumption /\ Browser!BrowserAssumption
  /\ TwoUploads!UploadAssumption /\ CrashedUpload!UploadAssumption
  /\ Apart!LocksAssumption /\ Apart!OneClientEach /\ Shared!LocksAssumption
  /\ CurrentFile!StringAssumption /\ Refs!RefsAssumption
-----------------------------------------------------------------------------
(* Properties: what the components' own say, of the component that runs.   *)

\* A write is answered as it was done, by whichever thread did it: DBImpl::Write
\* joins the batches of several threads, applies and logs them in the order of
\* the queue, gives each the status of the whole, appends nothing after a failed
\* Sync, stops before level 0 is over its limit, and leaves nobody asleep for
\* whom there is nothing left to wait for.
WritesAnswered ==
  part = "write" =>
    /\ Writers!StatusIsOfBatch /\ Writers!LogOrdered /\ Writers!NothingAfterSyncError
    /\ Writers!Level0Bounded /\ Writers!NoLostWakeup /\ Writers!WaitsForWork

\* What was promised is there after a crash at any step: DBImpl::Recover finds
\* every acknowledged (or every synchronised) write and opens what was opened
\* before; the buffer of a file, the manifest, CURRENT and a repair each keep
\* their part of that promise.
NothingLost ==
  /\ part = "process" => /\ AfterExit!NothingLost /\ AfterExit!CanBeOpened
                         /\ AfterExit!UsedFilesExist /\ AfterExit!SequencesUnique
  /\ part = "machine" => AfterPowerLoss!NothingLost /\ AfterPowerLoss!UnopenableIsEmpty
  /\ part = "file" => Appending!NothingLost /\ Appending!InOrder
  /\ part = "manifest" => ManifestFile!ManifestSafe
  /\ part = "current" => CurrentFile!CurrentWhole /\ CurrentFile!ReadWhole
  /\ part = "repair" => Recover!AllRecovered /\ Recover!DescriptorRight
  /\ part = "repair_crash" => Crashing!NothingDestroyed

\* A read gives what its snapshot says, whatever is flushed, merged, moved,
\* inserted or dropped meanwhile: through the levels of the tree and through an
\* old version of it, through the skip list while it is being changed, with a
\* smallest snapshot that no reader is below, and never an entry of the cache
\* that was replaced.
ReadsRight ==
  /\ part = "tree" => Tree!ReadsRight /\ Tree!NewerFirst /\ Tree!LevelsDisjoint
  /\ part = "pins" => Pinned!ReadsRight /\ Pinned!PinnedReadsRight
  /\ part = "memtable" => Skip!CallsRight /\ Skip!GetRight /\ Skip!LevelsSorted /\ Skip!OnlyPublished
  /\ part = "snapshots" => Snaps!SmallestSafe /\ Snaps!ListSorted
  /\ part = "cache" => Race!NewestOrNone

\* What somebody holds is there and is his alone, and what nobody holds is gone:
\* versions and files by their counts, the files of a tree on the disk, entries
\* and values of the cache, blocks of an arena, regions and descriptors, the
\* buffers of the information log.
HeldIsAlive ==
  /\ part = "refs" => /\ Refs!VersionsCounted /\ Refs!FilesCounted /\ Refs!PointersLive
                      /\ Refs!ListRight /\ Refs!ClosedEmpty
  /\ part = "tree" => Tree!FilesExist
  /\ part = "pins" => Pinned!FilesExist
  /\ part = "cache" => Race!TypeOK /\ Race!HandlesLive /\ Race!OneOwner /\ Race!UsageExact
  /\ part = "cache_grow" => Grow!TableExact
  /\ part = "cache_off" => Off!TypeOK /\ Off!OneOwner
  /\ part = "arena" => Blocks!Disjoint /\ Blocks!WasteBounded
  /\ part = "files" => Files!Conserved /\ Files!Within
  /\ part = "logger" => Logger!InBuffer /\ Logger!LinesWhole

\* How far PosixEnv::LockFile keeps the users of a database apart: one client of
\* a process has the lock, whichever calls fail, and the process's table of locked
\* files says so; and one process has it, if each opens the database once.  (If one
\* opens it twice, two processes may have it: OneProcess below.)
KeptApart ==
  /\ part = "locks" => Apart!OneHolder
  /\ part = "locks_shared" => Shared!TableExact /\ Shared!OnePerProcess

\* LockFile is "used to prevent concurrent access to the same db by multiple
\* processes" (env.h): of two clients in one process and one in another, no two
\* have the lock at once, whatever refused attempts there were.
LocksSpec ==
  /\ part = "locks_shared" /\ Shared!Init /\ Idle(3)
  /\ [][Shared!Next /\ Still(3) /\ UNCHANGED part]_vars
OneProcess == Shared!OneHolder

\* What no step may do: change what a reader at LastSequence sees or switch the
\* memtable under the thread that logs, change a file that is in use, evict from
\* the cache what was used later or more than there was need for, or leave
\* anything behind of a SetCurrentFile that failed.
StepsStable ==
  [][/\ part = "write" => Writers!VisibleIsStable /\ Writers!OneLogger
     /\ part = "process" => AfterExit!FilesKept
     /\ part = "cache_grow" => Grow!InsertEvicts
     /\ part = "current" => CurrentFile!FailedUndone]_vars

\* The screens show what the catalogue and the settings say: the cross platform
\* tab is sorted and complete whenever it is not loading, however reloads, sorting
\* blocks and settings meet, and stops the app only for a price of nothing; the
\* Prices tab and the selection screen, which search in one shared list, touch no
\* row beyond it and pick the row that was touched.
ScreensRight ==
  /\ part = "tab" => Tab!BestFirst /\ Tab!RowsOfCatalogue /\ Tab!SettingsApplied
  /\ part = "zero" => Zero!BestFirst /\ Zero!CrashOnZero
  /\ part = "browser" => /\ Browser!IndexInRange /\ Browser!WholeCatalogue
                         /\ Browser!AlertOfRow /\ Browser!SelectionInSync

\* An event that was stored stays on the disk, in one place, until a request with
\* it was answered or it expired, whatever attempts run at the same time and
\* whenever the process ends; then it does not come back (GDTCCTUploader,
\* GDTCORFlatFileStorage).
EventsKept ==
  /\ [](/\ part = "targets" => TwoUploads!OnePlace
        /\ part = "crash" => CrashedUpload!OnePlace)
  /\ [][/\ part = "targets" => TwoUploads!KeepsEvents
        /\ part = "crash" => CrashedUpload!KeepsEvents]_vars
-----------------------------------------------------------------------------
(* What must come to an end: a call, a piece of work, the time a thing is  *)
(* held.  The fairness and the leads-to properties of the modules stand    *)
(* here with the part they are about as a guard.                           *)
\* Rates that tie and one item without a price.
FewCatalogues == {<<Item(Both, "a", Low, Low), Item(Both, "b", Low, High)>>, <<Item(Both, "b", NoPrice, Low)>>}
\* DBWrite.
OneBatch == {[count |-> 1, size |-> 1]}
-----------------------------------------------------------------------------
\* Two items in two colours, prices that tie and prices that are gone.
FairTab ==
  INSTANCE XPlat WITH
    ItemNames <- {"a", "b"}, Colours <- Both, Platforms <- {"PC", "XBOX"},
    DefaultColour <- "Default", PriceRanges <- {Low, High}, NoPrice <- NoPrice,
    ColourOrder <- <<"Default", "Black">>, Catalogues <- FewCatalogues,
    Defaults <- <<"PC", "XBOX">>, NoAlert <- NoAlert, MaxQueue <- 2,
    items <- x1, haveLoaded <- x2, load <- x3, queue <- x4, xPlatData <- x5, saved <- x6,
    xPlatItems <- x7, title <- x8, loaded <- x9, hidden <- x10, screen <- x11, alert <- x12,
    trap <- x13, from <- x14, swiped <- x15
\* Errors, no network and an event that cannot be read.
FairUpload ==
  INSTANCE EventUpload WITH
    Events <- {"e1", "e2"}, Targets <- {"CCT"}, EventTarget <- OneTarget,
    EventQoS <- FastAndMobile, Networks <- {"mobile", "none"},
    Outcomes <- {"accepted", "error"}, MayExpire <- {}, Unreadable <- {"e2"}, MaxTimer <- 1,
    MaxChecks <- 0, MaxCrashes <- 0,
    coordinationQueue <- x1, uploaderQueue <- x2, storageQueue <- x3,
    isCurrentlyUploading <- x4, waiting <- x5, tasks <- x6, events <- x7, batches <- x8,
    batchIDCounter <- x9, due <- x10, expired <- x11, known <- x12, answered <- x13,
    timer <- x14, checks <- x15, crashes <- x16
\* Two threads that write and flush, a failure, and the destructor.
Flushing ==
  INSTANCE DBWrite WITH
    Threads <- {"t1", "t2"}, Batches <- OneBatch, Kinds <- {"write", "flush"},
    kSmallBatch <- 1, kMaxBatch <- 3, WriteBufferSize <- 0, kL0_CompactionTrigger <- 1,
    kL0_SlowdownWritesTrigger <- 1, kL0_StopWritesTrigger <- 1, MaxCalls <- 2,
    MaxFaults <- 1, MaxRounds <- 1,
    mutex <- x1, pc <- x2, w <- x3, writers <- x4, woken <- x5, group <- x6, calls <- x7,
    log <- x8, mem <- x9, imm <- x10, tables <- x11, level0 <- x12, lastSequence <- x13,
    bgError <- x14, bg <- x15, manual <- x16, down <- x17, faults <- x18
\* Two threads that write and compact a range.
Compacting ==
  INSTANCE DBWrite WITH
    Threads <- {"t1", "t2"}, Batches <- OneBatch, Kinds <- {"write", "manual"},
    kSmallBatch <- 1, kMaxBatch <- 3, WriteBufferSize <- 0, kL0_CompactionTrigger <- 1,
    kL0_SlowdownWritesTrigger <- 1, kL0_StopWritesTrigger <- 1, MaxCalls <- 2,
    MaxFaults <- 0, MaxRounds <- 2,
    mutex <- x1, pc <- x2, w <- x3, writers <- x4, woken <- x5, group <- x6, calls <- x7,
    log <- x8, mem <- x9, imm <- x10, tables <- x11, level0 <- x12, lastSequence <- x13,
    bgError <- x14, bg <- x15, manual <- x16, down <- x17, faults <- x18
\* CompactRange of everything and of one key.
Range ==
  INSTANCE Compaction WITH
    MaxKey <- 2, MaxSeq <- 2, NumLevels <- 4, MaxMemLevel <- 2, L0Trigger <- 2,
    MaxFileSize <- 2, LevelBytes <- Full, MaxGrandParent <- 1, ExpandLimit <- 6,
    StartWritten <- <<>>, StartLevels <- Empty, Readers <- {}, Types <- {"put", "del"},
    AllowedSeeks <- 1, ManualRanges <- {<<0, 3>>, <<2, 2>>}, MayFail <- FALSE, Pins <- FALSE,
    Sampling <- FALSE,
    written <- x1, mem <- x2, imm <- x3, levels <- x4, pointers <- x5, nextFile <- x6,
    disk <- x7, seeks <- x8, toCompact <- x9, c <- x10, manual <- x11, snap <- x12,
    pin <- x13, error <- x14
\* A walk while entries are inserted.
FairSkip ==
  INSTANCE MemTable WITH
    Readers <- {"r"}, UserKeys <- {1, 2}, Types <- {1}, MaxHeight <- 2, MaxNodes <- 2,
    MaxCalls <- 1,
    node <- x1, max_height <- x2, writer <- x3, last <- x4, reader <- x5
\* Two callers, and work that schedules more work.
Queue ==
  INSTANCE BackgroundQueue WITH
    Callers <- {"c1", "c2"}, MaxItems <- 2, Repeats <- 2,
    queue <- x1, started <- x2, bg <- x3, running <- x4, scheduled <- x5, ran <- x6
\* Two readers and three versions.
FairRefs ==
  INSTANCE VersionRefs WITH
    Readers <- {"r", "s"}, MaxVersions <- 3, MaxFiles <- 1,
    refs_ <- x1, files_ <- x2, next_ <- x3, prev_ <- x4, made <- x5, dead <- x6, refs <- x7,
    files_made <- x8, files_dead <- x9, to_compact <- x10, current_ <- x11, pending <- x12,
    reader <- x13, seek_file <- x14, input_version_ <- x15, inputs <- x16, closed <- x17
\* A database that goes on with its old log and manifest.
Reopen ==
  INSTANCE DBRecovery WITH
    Machine <- FALSE, ReuseLogs <- TRUE, AppendMayFail <- FALSE, SyncKinds <- {FALSE},
    MemSize <- 1, MaxWrites <- 2, MaxCrashes <- 2, MaxFaults <- 1, MaxWorks <- 1,
    disk <- x1, durable <- x2, up <- x3, db <- x4, edit <- x5, flush <- x6, work <- x7,
    pinned <- x8, writer <- x9, acked <- x10, count <- x11
-----------------------------------------------------------------------------
ProgressInit ==
  \/ part = "tab" /\ FairTab!Init /\ Idle(15)
  \/ part = "upload" /\ FairUpload!Init /\ Idle(16)
  \/ part = "flush" /\ Flushing!Init /\ Idle(18)
  \/ part = "manual" /\ Compacting!Init /\ Idle(18)
  \/ part = "range" /\ Range!Init /\ Idle(14)
  \/ part = "walk" /\ FairSkip!Init /\ Idle(5)
  \/ part = "locks" /\ Apart!Init /\ Idle(3)
  \/ part = "queue" /\ Queue!Init /\ Idle(6)
  \/ part = "refs" /\ FairRefs!Init /\ Idle(17)
  \/ part = "reopen" /\ Reopen!Init /\ Idle(11)
ProgressNext ==
  \/ part = "tab" /\ FairTab!Next /\ Still(15) /\ UNCHANGED part
  \/ part = "upload" /\ FairUpload!Next /\ Still(16) /\ UNCHANGED part
  \/ part = "flush" /\ Flushing!Next /\ Still(18) /\ UNCHANGED part
  \/ part = "manual" /\ Compacting!Next /\ Still(18) /\ UNCHANGED part
  \/ part = "range" /\ Range!Next /\ Still(14) /\ UNCHANGED part
  \/ part = "walk" /\ FairSkip!Next /\ Still(5) /\ UNCHANGED part
  \/ part = "locks" /\ Apart!Next /\ Still(3) /\ UNCHANGED part
  \/ part = "queue" /\ Queue!Next /\ Still(6) /\ UNCHANGED part
  \/ part = "refs" /\ FairRefs!Next /\ Still(17) /\ UNCHANGED part
  \/ part = "reopen" /\ Reopen!Next /\ Still(11) /\ UNCHANGED part
-----------------------------------------------------------------------------
(* Fairness.  Each conjunct is the fairness of one actor, whichever part   *)
(* it belongs to.                                                          *)
Thread(t) ==
  \/ part = "flush" /\ ~Flushing!Asleep(t) /\ Flushing!Step(t) /\ Still(18) /\ UNCHANGED part
  \/ part = "manual" /\ ~Compacting!Asleep(t) /\ Compacting!Step(t) /\ Still(18) /\ UNCHANGED part
BackgroundThread ==
  \/ part = "flush" /\ Flushing!Background /\ Still(18) /\ UNCHANGED part
  \/ part = "manual" /\ Compacting!Background /\ Still(18) /\ UNCHANGED part
Destructor ==
  \/ part = "flush" /\ Flushing!CloserAwake /\ Flushing!CloseWait /\ Still(18) /\ UNCHANGED part
  \/ part = "manual" /\ Compacting!CloserAwake /\ Compacting!CloseWait /\ Still(18) /\ UNCHANGED part
First ==
  \/ part = "upload" /\ FairUpload!uploadTargets /\ Still(16) /\ UNCHANGED part
  \/ part = "range" /\ Range!ManualMemTable /\ Still(14) /\ UNCHANGED part
  \/ part = "walk" /\ (FairSkip!SetOwn \/ FairSkip!SetPrev) /\ Still(5) /\ UNCHANGED part
  \/ part = "locks" /\ Apart!Inside(1) /\ Still(3) /\ UNCHANGED part
  \/ part = "queue" /\ Queue!Background /\ Still(6) /\ UNCHANGED part
  \/ part = "refs" /\ FairRefs!EndRead("r") /\ Still(17) /\ UNCHANGED part
  \/ part = "reopen" /\ Reopen!OpenStep /\ Still(11) /\ UNCHANGED part
Second ==
  \/ part = "upload" /\ FairUpload!UploaderBlock /\ Still(16) /\ UNCHANGED part
  \/ part = "walk" /\ FairSkip!Walk("r") /\ Still(5) /\ UNCHANGED part
  \/ part = "locks" /\ Apart!Inside(2) /\ Still(3) /\ UNCHANGED part
  \/ part = "refs" /\ FairRefs!EndRead("s") /\ Still(17) /\ UNCHANGED part
Third ==
  \/ part = "upload" /\ FairUpload!StorageBlock /\ Still(16) /\ UNCHANGED part
  \/ part = "locks" /\ Apart!Inside(3) /\ Still(3) /\ UNCHANGED part
  \/ part = "refs" /\ FairRefs!ReleaseInputs /\ Still(17) /\ UNCHANGED part
Fourth ==
  \/ part = "upload" /\ FairUpload!Session /\ Still(16) /\ UNCHANGED part
  \/ part = "refs" /\ (FairRefs!Install \/ FairRefs!ManifestFails) /\ Still(17) /\ UNCHANGED part
CompactionThread == part = "range" /\ Range!Background /\ Still(14) /\ UNCHANGED part

Fairness ==
  /\ SF_vars(Thread("t1")) /\ SF_vars(Thread("t2")) /\ SF_vars(BackgroundThread) /\ SF_vars(Destructor)
  /\ WF_vars(First) /\ WF_vars(Second) /\ WF_vars(Third) /\ WF_vars(Fourth)
  /\ []<>(part = "range" => ~Range!NeedsWork) \/ []<><<CompactionThread>>_vars
  /\ WF_x4(part = "tab" /\ FairTab!Turn)
ProgressSpec == ProgressInit /\ [][ProgressNext]_vars /\ Fairness

ASSUME ProgressAssumption ==
  /\ Flushing!TriggerAssumption /\ Compacting!TriggerAssumption /\ Range!SizesAssumption
  /\ FairTab!XPlatAssumption /\ FairUpload!UploadAssumption /\ FairRefs!RefsAssumption
-----------------------------------------------------------------------------
(* Properties. *)

\* Calls return: DBImpl's Write, TEST_CompactMemTable, CompactRange and
\* destructor, a walk through the skip list, and DB::Open after a crash.
Calling(c) ==
  \/ part = "flush" /\ Flushing!Calling(c)
  \/ part = "manual" /\ Compacting!Calling(c)
  \/ part = "range" /\ c = "t1" /\ Range!RangeUnderWay
  \/ part = "walk" /\ c = "t1" /\ FairSkip!Walking("r")
  \/ part = "reopen" /\ c = "t1" /\ Reopen!Opening
CallsReturn == \A c \in {"t1", "t2", "closer"} : Calling(c) ~> ~Calling(c)

\* What is held is let go: isCurrentlyUploading and the batches set aside by the
\* uploader, versions that were replaced, entries of the table of locked files
\* that no client has the lock for.
Held(i) ==
  \/ part = "upload" /\ (\/ i = 1 /\ FairUpload!Uploading
                         \/ i = 2 /\ FairUpload!Aside("e1")
                         \/ i = 3 /\ FairUpload!Aside("e2"))
  \/ part = "refs" /\ FairRefs!Replaced(i)
  \/ part = "locks" /\ i < 4 /\ Apart!LeftIn(ApartOf[i])
LetGo == \A i \in 1..4 : Held(i) ~> ~Held(i)

\* Work that was asked for is done: the spinner of the cross platform tab stops,
\* PosixEnv's thread runs everything that is scheduled, once and in that order,
\* and the tree comes to rest when no CompactRange is under way any more.
ToDo(n) ==
  \/ part = "tab" /\ n = 1 /\ FairTab!Spinning
  \/ part = "queue" /\ Queue!Waiting(n)
WorkDone ==
  /\ [](part = "queue" => Queue!InOrder)
  /\ \A n \in 1..6 : ToDo(n) ~> ~ToDo(n)
  /\ <>[](part = "range" => ~Range!RangeUnderWay) => <>[](part = "range" => Range!AtRest)
=============================================================================
