---------------------------- MODULE CCTMessages ----------------------------
(***************************************************************************)
(* The messages that GDTCCTUploader exchanges with the backend, on top of   *)
(* nanopb: a batch of events is put together from allocations that          *)
(* GDTCCTNanopbHelpers makes itself, encoded and given back with pb_release; *)
(* the answer is decoded, looked at and released.                           *)
(***************************************************************************)
EXTENDS PbMessage

CONSTANTS
  Logs,       \* events: [mappingID, time, uptime, offset, custom, code, network, bytes]
  intValue,   \* NSString's, of each mapping ID
  Device,     \* what the device knows of itself, by field of IosClientInfo
  MaxBatch    \* bound: events in a batch

VARIABLES
  batch,      \* the events that are sent
  full,       \* no allocation has failed for them
  wait        \* the milliseconds the backend asks to wait, None for 15 minutes
uploadVars == <<vars, batch, full, wait>>
None == -1
-----------------------------------------------------------------------------
(* The descriptors (cct.nanopb.c).  Numbers are varints, PbWire has their    *)
(* kinds.                                                                   *)
gdt_cct_NetworkConnectionInfo_fields ==
  <<OPTIONAL_STATIC(1, "varint", 4, <<>>), OPTIONAL_STATIC(2, "varint", 4, <<>>)>>
gdt_cct_LogEvent_fields ==
  <<OPTIONAL_STATIC(1, "varint", 8, <<>>), OPTIONAL_POINTER(6, "bytes", 1, <<>>),
    OPTIONAL_STATIC(11, "varint", 4, <<>>), OPTIONAL_STATIC(15, "varint", 8, <<>>),
    OPTIONAL_STATIC(17, "varint", 8, <<>>),
    OPTIONAL_STATIC(23, "submessage", 16, gdt_cct_NetworkConnectionInfo_fields)>>
gdt_cct_IosClientInfo_fields ==
  [i \in 1..7 |-> OPTIONAL_POINTER(<<3, 4, 5, 6, 7, 8, 11>>[i], "bytes", 1, <<>>)]
gdt_cct_ClientInfo_fields ==
  <<OPTIONAL_STATIC(1, "varint", 4, <<>>), OPTIONAL_STATIC(4, "submessage", 56, gdt_cct_IosClientInfo_fields)>>
gdt_cct_LogRequest_fields ==
  <<OPTIONAL_STATIC(1, "submessage", 72, gdt_cct_ClientInfo_fields), OPTIONAL_STATIC(2, "varint", 4, <<>>),
    REPEATED_POINTER(3, "submessage", 88, gdt_cct_LogEvent_fields), OPTIONAL_STATIC(4, "varint", 8, <<>>),
    OPTIONAL_STATIC(8, "varint", 8, <<>>), OPTIONAL_STATIC(9, "varint", 4, <<>>)>>
gdt_cct_BatchedLogRequest_fields == <<REPEATED_POINTER(1, "submessage", 144, gdt_cct_LogRequest_fields)>>
gdt_cct_QosTierConfiguration_fields ==
  <<OPTIONAL_STATIC(2, "varint", 4, <<>>), OPTIONAL_STATIC(3, "varint", 4, <<>>)>>
gdt_cct_QosTiersOverride_fields ==
  <<REPEATED_POINTER(1, "submessage", 16, gdt_cct_QosTierConfiguration_fields), OPTIONAL_STATIC(2, "varint", 8, <<>>)>>
gdt_cct_LogResponse_fields ==
  <<OPTIONAL_STATIC(1, "varint", 8, <<>>), OPTIONAL_STATIC(3, "submessage", 32, gdt_cct_QosTiersOverride_fields)>>

init_default(fields) == pb_message_set_to_defaults(fields, <<>>)
IOS_FIREBASE == 15
-----------------------------------------------------------------------------
(* GDTCCTNanopbHelpers.  As in PbMessage: [w, d], the heap and the value. *)
Made(w, d) == [w |-> w, d |-> d]
\* m.name = v; m.has_name = 1
Assign(m, tag, v) == [m EXCEPT !.f[tag].has = TRUE, !.f[tag].items = <<v>>]
\* A pointer: there is no has_ field.
Point(m, tag, text) == [m EXCEPT !.f[tag].items = <<text>>]

TextOf(got, w, bytes) == IF got.ok THEN Made(got.w, [id |-> got.d, v |-> bytes]) ELSE Made(w, NullText)

\* NULL when there is no memory.
GDTCCTEncodeData(w, bytes) == TextOf(allocate_field(w, 0), w, bytes)

PointTo(text, m, tag) == Made(text.w, Point(m, tag, text.d))
DeviceField(r, tag) == IF tag \in DOMAIN Device THEN PointTo(GDTCCTEncodeData(r.w, Device[tag]), r.d, tag) ELSE r
GDTCCTConstructiOSClientInfo(w) ==
  FoldLeft(DeviceField, Made(w, init_default(gdt_cct_IosClientInfo_fields)), <<4, 3, 5, 6, 7, 8, 11>>)

ClientInfo(ios) ==
  Made(ios.w, Assign(Assign(init_default(gdt_cct_ClientInfo_fields), 1, IOS_FIREBASE), 4, ios.d))
GDTCCTConstructClientInfo(w) == ClientInfo(GDTCCTConstructiOSClientInfo(w))

\* The network type is only set when there is a network; the data of the
\* structure is copied as it is.
NetworkInfo(type) ==
  IF type = None THEN init_default(gdt_cct_NetworkConnectionInfo_fields)
  ELSE Assign(init_default(gdt_cct_NetworkConnectionInfo_fields), 1, type)

Clock(m, e) == Assign(Assign(Assign(m, 1, e.time), 17, e.uptime), 15, e.offset)
Network(m, e) == IF e.custom THEN Assign(m, 23, NetworkInfo(e.network)) ELSE m
Code(m, e) == IF e.custom /\ e.code # None THEN Assign(m, 11, e.code) ELSE m
GDTCCTConstructLogEvent(w, e) ==
  PointTo(GDTCCTEncodeData(w, e.bytes), Code(Network(Clock(init_default(gdt_cct_LogEvent_fields), e), e), e), 6)

Repeated(m, tag, id, items) ==
  [m EXCEPT !.f[tag] = [has |-> FALSE, cnt |-> Len(items), id |-> id, items |-> items]]
\* One more, behind those that r has.
AddTo(r, one) == Made(one.w, Append(r.d, one.d))

\* Without memory for the events the request goes out without them.
RequestClock(events, m, id) == Made(events.w, Assign(Assign(Repeated(m, 3, id, events.d), 4, 1), 8, 1))
RequestEvents(got, m, logSet) ==
  IF ~got.ok THEN Made(got.w, m)
  ELSE RequestClock(FoldLeft(LAMBDA r, e : AddTo(r, GDTCCTConstructLogEvent(r.w, e)), Made(got.w, <<>>), SetToSeq(logSet)), m, got.d)
RequestClient(client, logSource, logSet) ==
  RequestEvents(allocate_field(client.w, 0),
                Assign(Assign(init_default(gdt_cct_LogRequest_fields), 2, logSource), 1, client.d), logSet)
GDTCCTConstructLogRequest(w, logSource, logSet) == RequestClient(GDTCCTConstructClientInfo(w), logSource, logSet)

\* The events by log type.
logMappingIDToLogSet(events) ==
  [id \in {e.mappingID : e \in events} |-> {e \in events : e.mappingID = id}]

Requests(all, m, id) == Made(all.w, Repeated(m, 1, id, all.d))
BatchOf(got, m, sets) ==
  IF ~got.ok THEN Made(got.w, m)
  ELSE Requests(FoldLeft(LAMBDA r, id : AddTo(r, GDTCCTConstructLogRequest(r.w, intValue[id], sets[id])),
                         Made(got.w, <<>>), SetToSeq(DOMAIN sets)), m, got.d)
GDTCCTConstructBatchedLogRequest(w, events) ==
  BatchOf(allocate_field(w, 0), init_default(gdt_cct_BatchedLogRequest_fields), logMappingIDToLogSet(events))

\* After an error the structure is the default again, without a look at it.
DefaultOnError(r) == IF r.ok THEN r ELSE Fail(r.w, init_default(gdt_cct_LogResponse_fields))
GDTCCTDecodeLogResponse(w) ==
  DefaultOnError(pb_decode(w, gdt_cct_LogResponse_fields, init_default(gdt_cct_LogResponse_fields)))
-----------------------------------------------------------------------------
(* GDTCCTUploader *)
UploadInit == Init /\ batch = {} /\ full = FALSE /\ wait = None

HeapIs(w) == heap' = [live |-> w.live, next |-> w.next, bad |-> w.bad]
Constructed(r) == msg' = r.d /\ HeapIs(r.w) /\ full' = (r.w.mem > 0)
\* constructRequestProtoWithEvents, up to the encoding; Release is its end.
constructRequestProto ==
  /\ calls < MaxCalls /\ state \in {"fresh", "released"}
  /\ \E events \in SUBSET Logs, grant \in Grants :
       /\ events # {} /\ Cardinality(events) <= MaxBatch
       /\ Constructed(GDTCCTConstructBatchedLogRequest(Stream(<<>>, grant), events))
       /\ batch' = events
  /\ state' = "ok" /\ calls' = calls + 1
  /\ input' = <<>>
  /\ UNCHANGED <<chunks, left, wait>>
ReleaseRequest == Release /\ UNCHANGED <<batch, full, wait>>
Data == {FlattenSeq(pieces) : pieces \in BoundedSeq(Chunks, MaxChunks)}

\* Mutant: the response is forgotten.
Released_Not(r) == r

Released(r) == pb_release(r.w, gdt_cct_LogResponse_fields, r.d)

Answered(r) ==
  /\ wait' = IF r.ok /\ r.d.f[1].has THEN r.d.f[1].items[1] ELSE None
  /\ HeapIs(Released(r).w)
\* The part of handleURLResponse that reads the data.
handleURLResponse ==
  /\ calls < MaxCalls /\ state \in {"fresh", "released"}
  /\ \E data \in Data, grant \in Grants :
       input' = data /\ Answered(GDTCCTDecodeLogResponse(Stream(data, grant)))
  /\ calls' = calls + 1
  /\ UNCHANGED <<chunks, msg, state, left, batch, full>>

UploadNext == constructRequestProto \/ ReleaseRequest \/ handleURLResponse
UploadSpec == UploadInit /\ [][UploadNext]_uploadVars
-----------------------------------------------------------------------------
\* What the backend reads of an event and of a request.
ValueOf(m, tag) == IF m.f[tag].has THEN m.f[tag].items[1] ELSE None
SeenEvent(m) ==
  [time |-> ValueOf(m, 1), uptime |-> ValueOf(m, 17), offset |-> ValueOf(m, 15), code |-> ValueOf(m, 11),
   network |-> IF m.f[23].has THEN ValueOf(m.f[23].items[1], 1) ELSE None,
   bytes |-> m.f[6].items[1].v]
SeenRequest(m) ==
  [source |-> m.f[2].items[1], events |-> {SeenEvent(m.f[3].items[i]) : i \in DOMAIN m.f[3].items},
   client |-> [tag \in DOMAIN Device |-> m.f[1].items[1].f[4].items[1].f[tag].items[1].v]]
Meant(e) ==
  [time |-> e.time, uptime |-> e.uptime, offset |-> e.offset, code |-> IF e.custom THEN e.code ELSE None,
   network |-> IF e.custom THEN e.network ELSE None, bytes |-> e.bytes]
MeantRequest(id) ==
  [source |-> intValue[id], events |-> {Meant(e) : e \in {f \in batch : f.mappingID = id}}, client |-> Device]

SeenRequests(back) == [i \in DOMAIN back.d.f[1].items |-> SeenRequest(back.d.f[1].items[i])]
SameRequests(seen, meant) ==
  /\ Len(seen) = Cardinality(DOMAIN meant)
  /\ \A id \in DOMAIN meant : Cardinality({i \in DOMAIN seen : seen[i] = meant[id]})
                               = Cardinality({j \in DOMAIN meant : meant[j] = meant[id]})
Arrived(back) ==
  back.ok /\ (full => SameRequests(SeenRequests(back), [id \in {e.mappingID : e \in batch} |-> MeantRequest(id)]))
Sent(out) == out.ok /\ Arrived(pb_decode(Stream(out.out, 99), Fields, <<>>))
\* What the backend decodes is what was logged: the bytes that go out hold one
\* request for each mapping ID, with the device and all events of that ID, and
\* nothing else, when there is memory for them; without it they are still a
\* message that can be decoded.
RequestCarries == state = "ok" => Sent(pb_encode(Fields, msg, "write"))

\* Nothing of an answer stays: when no request is being put together no
\* allocation is left, whatever the answer was and wherever memory ran out.
NothingLeft == state # "ok" => heap.live = {} /\ ~heap.bad

\* The uploader only waits for as long as an answer asks that was decoded to
\* its end.
WaitIsAsked ==
  calls' # calls /\ wait' # wait =>
    \/ wait' = None
    \/ pb_decode(Stream(input', 99), gdt_cct_LogResponse_fields, init_default(gdt_cct_LogResponse_fields)).ok
=============================================================================
