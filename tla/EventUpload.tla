---------------------------- MODULE EventUpload ----------------------------
(***************************************************************************)
(* The upload of events by GoogleDataTransport, which the app's Firebase    *)
(* libraries log through: GDTCORUploadCoordinator decides when to try,      *)
(* GDTCCTUploader makes a batch of a target's events, sends it and handles  *)
(* the answer, GDTCORFlatFileStorage keeps events and batches as files.     *)
(* Each of them works on a serial queue of its own and hands the others     *)
(* blocks; a block runs to its end, and every action below is one block.    *)
(* A block has its op, the target and the conditions of the attempt it      *)
(* belongs to, and the arguments it has captured.                           *)
(***************************************************************************)
EXTENDS Integers, Sequences, FiniteSets, SequencesExt

CONSTANTS
  Events,
  Targets,        \* some of "CCT", "FLL", "CSH", "INT"
  EventTarget,    \* the target of each event
  EventQoS,       \* its tier: "fast", "default", "wifi", "telemetry", "daily", "unknown"
  Networks,       \* what uploadConditions may find: "wifi", "mobile", "none"
  Outcomes,       \* how a request may end: "accepted", "busy" (429, 503), "error"
  MayExpire,      \* the events whose time may run out
  Unreadable,     \* the events whose file cannot be decoded
  MaxTimer,       \* bound: firings of the timer
  MaxChecks,      \* bound: checks for expirations, returns to the foreground
  MaxCrashes      \* bound: the process ends

UploadAssumption ==
  /\ Targets \subseteq {"CCT", "FLL", "CSH", "INT"}
  /\ EventTarget \in [Events -> Targets]
  /\ EventQoS \in [Events -> {"fast", "default", "wifi", "telemetry", "daily", "unknown"}]
  /\ Networks \subseteq {"wifi", "mobile", "none"} /\ Outcomes \subseteq {"accepted", "busy", "error"}
  /\ MayExpire \subseteq Events /\ Unreadable \subseteq Events
  /\ MaxTimer \in Nat /\ MaxChecks \in Nat /\ MaxCrashes \in Nat

VARIABLES
  coordinationQueue, uploaderQueue, storageQueue,
  isCurrentlyUploading,
  waiting,        \* the clocks, "CCT" and "FLL", whose next upload time is still to come
  tasks,          \* the upload tasks of the session that are under way
  events,         \* the files of the events in the main storage
  batches,        \* the batch directories: [id, target, events]
  batchIDCounter, \* the library data gBatchIDCounterKey
  due,            \* the batches below this ID are past their expiration
  expired,        \* the events that are past theirs
  known, answered, \* history: the events ever stored; those in a
                  \* request the backend answered for good
  timer, checks, crashes
queues == <<coordinationQueue, uploaderQueue, storageQueue>>
disk == <<events, batches, batchIDCounter>>
clock == <<due, expired>>
history == <<known, answered>>
bounds == <<timer, checks, crashes>>
vars == <<queues, isCurrentlyUploading, waiting, tasks, disk, clock, history, bounds>>

Block(op, target, conditions) ==
  [op |-> op, target |-> target, conditions |-> conditions, id |-> 0, events |-> {}, flag |-> FALSE]
\* GDTCORUploadConditions.
Conditions(network, highPriority) == [network |-> network, highPriority |-> highPriority]
NoConditions == Conditions("none", FALSE)
\* The next block of an attempt.
After(b, op) == [b EXCEPT !.op = op]
At(queue, op) == queue # <<>> /\ Head(queue).op = op
\* What a block of the uploader, or of the storage, adds to the two queues.
UploaderGives(uploader, storage) ==
  /\ uploaderQueue' = Tail(uploaderQueue) \o uploader
  /\ storageQueue' = storageQueue \o storage
StorageGives(uploader, storage) ==
  /\ uploaderQueue' = uploaderQueue \o uploader
  /\ storageQueue' = Tail(storageQueue) \o storage
-----------------------------------------------------------------------------
(* GDTCORUploadCoordinator *)
\* The conditions are looked up now, the targets are gone through in a later block.
forceUploadForTarget(target, network) ==
  IF network = "none" THEN <<>> ELSE <<[targets |-> <<target>>, conditions |-> Conditions(network, TRUE)]>>

TimerFires ==
  /\ timer < MaxTimer
  /\ timer' = timer + 1
  /\ \E network \in Networks :
       coordinationQueue' = coordinationQueue \o
         (IF network = "none" THEN <<>> ELSE <<[targets |-> SetToSeq(Targets), conditions |-> Conditions(network, FALSE)]>>)
  /\ UNCHANGED <<uploaderQueue, storageQueue, isCurrentlyUploading, waiting, tasks, disk, clock, history, checks, crashes>>

uploadTargets ==
  /\ coordinationQueue # <<>>
  /\ LET c == Head(coordinationQueue)
     IN uploaderQueue' = uploaderQueue \o
          [i \in DOMAIN c.targets |-> Block("uploadTarget", c.targets[i], c.conditions)]
  /\ coordinationQueue' = Tail(coordinationQueue)
  /\ UNCHANGED <<storageQueue, isCurrentlyUploading, waiting, tasks, disk, clock, history, bounds>>
-----------------------------------------------------------------------------
(* GDTCCTUploader *)

Clock(target) == IF target = "CCT" THEN "CCT" ELSE "FLL"

readyToUploadTarget(b) ==
  /\ ~isCurrentlyUploading
  /\ b.target \in {"CSH", "INT"} \/ b.conditions.highPriority \/ Clock(b.target) \notin waiting

uploadTarget ==
  /\ At(uploaderQueue, "uploadTarget")
  /\ LET b == Head(uploaderQueue)
     IN IF readyToUploadTarget(b) THEN UploaderGives(<<>>, <<After(b, "batchIDsForTarget")>>)
        ELSE UploaderGives(<<After(b, "noEvents")>>, <<>>)
  /\ UNCHANGED <<coordinationQueue, isCurrentlyUploading, waiting, tasks, disk, clock, history, bounds>>

\* The old batches are gone: onComplete of removeBatchesForTarget.
batchesRemoved ==
  /\ At(uploaderQueue, "batchesRemoved")
  /\ UploaderGives(<<>>, <<After(Head(uploaderQueue), "hasEventsForTarget")>>)
  /\ UNCHANGED <<coordinationQueue, isCurrentlyUploading, waiting, tasks, disk, clock, history, bounds>>

\* flag: there are events.
batchToUploadForTarget ==
  /\ At(uploaderQueue, "batchToUploadForTarget")
  /\ LET b == Head(uploaderQueue)
     IN IF b.flag /\ readyToUploadTarget(b)
        THEN /\ isCurrentlyUploading' = TRUE
             /\ UploaderGives(<<>>, <<After(b, "nextBatchID")>>)
        ELSE /\ UploaderGives(<<After(b, "noEvents")>>, <<>>)
             /\ UNCHANGED isCurrentlyUploading
  /\ UNCHANGED <<coordinationQueue, waiting, tasks, disk, clock, history, bounds>>

\* Mutant: the flag stays.
noEvents_Keeps ==
  /\ At(uploaderQueue, "noEvents")
  /\ UploaderGives(<<>>, <<>>)
  /\ UNCHANGED <<coordinationQueue, isCurrentlyUploading, waiting, tasks, disk, clock, history, bounds>>

\* There was nothing to upload, or the target was not ready.
noEvents ==
  /\ At(uploaderQueue, "noEvents")
  /\ isCurrentlyUploading' = FALSE
  /\ UploaderGives(<<>>, <<>>)
  /\ UNCHANGED <<coordinationQueue, waiting, tasks, disk, clock, history, bounds>>

sendURLRequest ==
  /\ At(uploaderQueue, "sendURLRequest")
  /\ LET b == Head(uploaderQueue) IN tasks' = tasks \cup {[id |-> b.id, target |-> b.target, events |-> b.events, network |-> b.conditions.network]}
  /\ UploaderGives(<<>>, <<>>)
  /\ UNCHANGED <<coordinationQueue, isCurrentlyUploading, waiting, disk, clock, history, bounds>>

\* The session calls back: an answer, or an error, which is also what a
\* cancelled task ends with.
TaskCompletes(task, outcome) ==
  /\ tasks' = tasks \ {task}
  /\ uploaderQueue' = Append(uploaderQueue,
       [Block("handleURLResponse", task.target, NoConditions) EXCEPT !.id = task.id, !.flag = (outcome = "accepted")])
  /\ answered' = IF outcome = "accepted" THEN answered \cup task.events ELSE answered
  /\ UNCHANGED <<coordinationQueue, storageQueue, isCurrentlyUploading, waiting, disk, clock, known, bounds>>

Delivered(b) == b.flag

\* The events go back to the main storage, or away.
Done(b) == <<[After(b, "removeBatch") EXCEPT !.flag = Delivered(b)]>>

\* The next upload time is what the backend asks for, or 15 minutes from now.
handleURLResponse ==
  /\ At(uploaderQueue, "handleURLResponse")
  /\ LET b == Head(uploaderQueue)
     IN /\ waiting' = waiting \cup {Clock(b.target)}
        /\ UploaderGives(<<>>, Done(b))
  /\ isCurrentlyUploading' = FALSE
  /\ UNCHANGED <<coordinationQueue, tasks, disk, clock, history, bounds>>
-----------------------------------------------------------------------------
(* GDTCORFlatFileStorage *)
\* Nothing is known of an event that could not be written: the disk, or the
\* storage's limit.  A fast one asks for an upload.
storeEvent(e) ==
  /\ \/ /\ known' = known \cup {e} /\ events' = events \cup {e}
        /\ \E network \in Networks :
             coordinationQueue' = coordinationQueue \o
               (IF EventQoS[e] = "fast" THEN forceUploadForTarget(EventTarget[e], network) ELSE <<>>)
     \/ UNCHANGED <<known, events, coordinationQueue>>
  /\ StorageGives(<<>>, <<>>)
  /\ UNCHANGED <<isCurrentlyUploading, waiting, tasks, batches, batchIDCounter, clock, answered, bounds>>

StoreEvent ==
  /\ At(storageQueue, "storeEvent")
  /\ \E e \in Head(storageQueue).events : storeEvent(e)

\* Called by the transport, for an event that is not there yet.
LogEvent ==
  /\ \E e \in Events \ known :
       /\ \A i \in DOMAIN storageQueue : storageQueue[i].op = "storeEvent" => e \notin storageQueue[i].events
       /\ storageQueue' = Append(storageQueue, [Block("storeEvent", EventTarget[e], NoConditions) EXCEPT !.events = {e}])
  /\ UNCHANGED <<coordinationQueue, uploaderQueue, isCurrentlyUploading, waiting, tasks, disk, clock, history, bounds>>

\* For removeBatchesForTarget: the last of the removals tells the uploader.
batchIDsForTarget ==
  /\ At(storageQueue, "batchIDsForTarget")
  /\ LET b == Head(storageQueue)
         ids == SetToSeq({d.id : d \in {c \in batches : c.target = b.target}})
         removals == [i \in DOMAIN ids |->
           [After(b, IF i = Len(ids) THEN "removeLastBatch" ELSE "removeBatch") EXCEPT !.id = ids[i]]]
     IN StorageGives(<<>>, IF ids = <<>> THEN <<After(b, "hasEventsForTarget")>> ELSE removals)
  /\ UNCHANGED <<coordinationQueue, isCurrentlyUploading, waiting, tasks, disk, clock, history, bounds>>

batchDirPathsForBatchID(id) == {d \in batches : d.id = id}
EventsOf(dirs) == UNION {d.events : d \in dirs}

\* The files that go back to the main storage.
MovedBack(dirs, deleteEvents) == IF deleteEvents THEN {} ELSE EventsOf(dirs)

\* The directories that a block is to remove.
Removed(b) ==
  CASE b.op \in {"removeBatch", "removeLastBatch"} -> batchDirPathsForBatchID(b.id)
    [] b.op = "checkForExpirations" -> {d \in batches : d.id < due}
    [] OTHER -> {}

removeBatchWithID ==
  /\ At(storageQueue, "removeBatch") \/ At(storageQueue, "removeLastBatch")
  /\ LET b == Head(storageQueue)
         dirs == Removed(b)
     IN /\ batches' = batches \ dirs
        /\ events' = events \cup MovedBack(dirs, b.flag)
        /\ StorageGives(IF b.op = "removeLastBatch" THEN <<After(b, "batchesRemoved")>> ELSE <<>>, <<>>)
  /\ UNCHANGED <<coordinationQueue, isCurrentlyUploading, waiting, tasks, batchIDCounter, clock, history, bounds>>

OfTarget(target) == {e \in events : EventTarget[e] = target}
hasEventsForTarget ==
  /\ At(storageQueue, "hasEventsForTarget")
  /\ LET b == Head(storageQueue)
     IN StorageGives(<<[After(b, "batchToUploadForTarget") EXCEPT !.flag = OfTarget(b.target) # {}]>>, <<>>)
  /\ UNCHANGED <<coordinationQueue, isCurrentlyUploading, waiting, tasks, disk, clock, history, bounds>>

Counted == batchIDCounter + 1

nextBatchID ==
  /\ At(storageQueue, "nextBatchID")
  /\ StorageGives(<<>>, <<[After(Head(storageQueue), "batchIDFetched") EXCEPT !.id = batchIDCounter, !.flag = FALSE]>>)
  /\ batchIDCounter' = Counted
  /\ UNCHANGED <<coordinationQueue, isCurrentlyUploading, waiting, tasks, events, batches, clock, history, bounds>>

\* onBatchIDFetchComplete only hands on to pathsForTarget.
batchIDFetched ==
  /\ At(storageQueue, "batchIDFetched")
  /\ StorageGives(<<>>, <<After(Head(storageQueue), "pathsForTarget")>>)
  /\ UNCHANGED <<coordinationQueue, isCurrentlyUploading, waiting, tasks, disk, clock, history, bounds>>

qosTiers(conditions) ==
  CASE conditions.highPriority -> {"fast", "default", "wifi", "telemetry", "daily", "unknown"}
    [] conditions.network = "wifi" -> {"fast", "wifi", "default", "telemetry", "unknown"}
    [] conditions.network = "mobile" -> {"fast", "default"}

pathsForTarget ==
  /\ At(storageQueue, "pathsForTarget")
  /\ LET b == Head(storageQueue)
     IN StorageGives(<<>>, <<[After(b, "makeBatch") EXCEPT
          !.events = {e \in OfTarget(b.target) : EventQoS[e] \in qosTiers(b.conditions)}]>>)
  /\ UNCHANGED <<coordinationQueue, isCurrentlyUploading, waiting, tasks, disk, clock, history, bounds>>

\* Mutant: what the directory listing had, whether it is still there or not.
Moved_Listed(b) == b.events \ Unreadable

\* The files that are still where they were and can be decoded.
Moved(b) == (b.events \cap events) \ Unreadable

\* A file that cannot be decoded is removed.
makeBatch ==
  /\ At(storageQueue, "makeBatch")
  /\ LET b == Head(storageQueue)
         moved == Moved(b)
     IN /\ events' = events \ b.events
        /\ batches' = IF moved = {} THEN batches
                      ELSE batches \cup {[id |-> b.id, target |-> b.target, events |-> moved]}
        /\ StorageGives(IF moved = {} THEN <<After(b, "noEvents")>>
                        ELSE <<[After(b, "sendURLRequest") EXCEPT !.events = moved]>>, <<>>)
  /\ UNCHANGED <<coordinationQueue, isCurrentlyUploading, waiting, tasks, batchIDCounter, clock, history, bounds>>

\* Expired batches first, so that the expired events of theirs go too.
checkForExpirations ==
  /\ At(storageQueue, "checkForExpirations")
  /\ LET dirs == Removed(Head(storageQueue))
     IN /\ batches' = batches \ dirs
        /\ events' = (events \cup EventsOf(dirs)) \ expired
  /\ StorageGives(<<>>, <<>>)
  /\ UNCHANGED <<coordinationQueue, isCurrentlyUploading, waiting, tasks, batchIDCounter, clock, history, bounds>>

appWillForeground ==
  /\ checks < MaxChecks
  /\ checks' = checks + 1
  /\ storageQueue' = Append(storageQueue, Block("checkForExpirations", "", NoConditions))
  /\ UNCHANGED <<coordinationQueue, uploaderQueue, isCurrentlyUploading, waiting, tasks, disk, clock, history, timer, crashes>>
-----------------------------------------------------------------------------
(* The clock, and the end of the process. *)
WaitOver ==
  /\ \E c \in waiting : waiting' = waiting \ {c}
  /\ UNCHANGED <<queues, isCurrentlyUploading, tasks, disk, clock, history, bounds>>
BatchesExpire ==
  /\ due < batchIDCounter
  /\ due' = batchIDCounter
  /\ UNCHANGED <<queues, isCurrentlyUploading, waiting, tasks, disk, expired, history, bounds>>
EventExpires ==
  /\ \E e \in MayExpire \ expired : expired' = expired \cup {e}
  /\ UNCHANGED <<queues, isCurrentlyUploading, waiting, tasks, disk, due, history, bounds>>

\* Files are moved one by one: the block that runs may have moved some of them.
Halfway ==
  \/ UNCHANGED <<events, batches>>
  \/ /\ At(storageQueue, "makeBatch")
     /\ LET b == Head(storageQueue)
        IN \E S \in (SUBSET Moved(b)) \ {{}} :
             /\ events' = events \ S
             /\ batches' = batches \cup {[id |-> b.id, target |-> b.target, events |-> S]}
  \/ /\ storageQueue # <<>>
     /\ LET b == Head(storageQueue)
        IN \E d \in Removed(b) : \E S \in SUBSET d.events :
             /\ batches' = (batches \ {d}) \cup {[d EXCEPT !.events = @ \ S]}
             /\ events' = events \cup (MovedBack({d}, b.flag) \cap S)
Crash ==
  /\ crashes < MaxCrashes
  /\ crashes' = crashes + 1
  /\ Halfway
  /\ coordinationQueue' = <<>> /\ uploaderQueue' = <<>> /\ storageQueue' = <<>>
  /\ isCurrentlyUploading' = FALSE
  /\ waiting' = {}
  /\ tasks' = {}
  /\ UNCHANGED <<batchIDCounter, clock, history, timer, checks>>
-----------------------------------------------------------------------------
Init ==
  /\ coordinationQueue = <<>> /\ uploaderQueue = <<>> /\ storageQueue = <<>>
  /\ isCurrentlyUploading = FALSE
  /\ waiting = {} /\ tasks = {}
  /\ events = {} /\ batches = {} /\ batchIDCounter = 0
  /\ due = 0 /\ expired = {}
  /\ known = {} /\ answered = {}
  /\ timer = 0 /\ checks = 0 /\ crashes = 0

UploaderBlock ==
  \/ uploadTarget \/ batchesRemoved \/ batchToUploadForTarget \/ noEvents
  \/ sendURLRequest \/ handleURLResponse
StorageBlock ==
  \/ StoreEvent \/ batchIDsForTarget \/ removeBatchWithID \/ hasEventsForTarget
  \/ nextBatchID \/ batchIDFetched \/ pathsForTarget \/ makeBatch \/ checkForExpirations
Session == \E task \in tasks, outcome \in Outcomes : TaskCompletes(task, outcome)
Next ==
  \/ TimerFires \/ uploadTargets \/ UploaderBlock \/ StorageBlock \/ Session
  \/ LogEvent \/ appWillForeground \/ WaitOver \/ BatchesExpire \/ EventExpires \/ Crash
Spec == Init /\ [][Next]_vars

\* Serial queues run what they are given, and the session ends every task: with
\* an answer, with an error, or with the end of its time.
LiveSpec == Spec /\ WF_vars(uploadTargets) /\ WF_vars(UploaderBlock) /\ WF_vars(StorageBlock) /\ WF_vars(Session)
-----------------------------------------------------------------------------
TypeOK ==
  /\ isCurrentlyUploading \in BOOLEAN
  /\ waiting \subseteq {"CCT", "FLL"}
  /\ tasks \subseteq [id : Nat, target : Targets, events : SUBSET Events, network : Networks]
  /\ batches \subseteq [id : Nat, target : Targets, events : SUBSET Events]
  /\ events \subseteq Events
  /\ batchIDCounter \in Nat /\ due \in 0..batchIDCounter

\* An event that was stored is on the disk until a request with it was answered
\* for good, or it has expired or cannot be read, and it does not come back then,
\* whatever attempts run at the same time, whenever the process ends, batches
\* expire or answers get lost.
Kept == events \cup EventsOf(batches)
KeepsEvents ==
  /\ Kept' \ Kept = known' \ known
  /\ Kept \ Kept' \subseteq answered \cup expired \cup Unreadable

\* A file is in one place: the main storage or one batch directory, and no two
\* directories have the same ID, by which a batch is removed.
OnePlace ==
  /\ \A d \in batches : d.events \cap events = {}
  /\ \A d, e \in batches : d # e => d.id # e.id /\ d.events \cap e.events = {}

\* isCurrentlyUploading does not stay: a batch that could not be made, an
\* error and an answer all set it back (it is what stops every other attempt).
Uploading == isCurrentlyUploading
Unlocks == Uploading ~> ~Uploading

\* No batch stays aside while the process runs: its events are delivered or
\* come back.
Aside(e) == e \in EventsOf(batches)
Settles == \A e \in Events : Aside(e) ~> ~Aside(e)

\* GDTCCTUploader.m on isCurrentlyUploading: "The current implementation supports
\* only a single upload operation.  If `uploadTarget` method is called when
\* `isCurrentlyUploading == YES` then no new uploads will be started."
SingleUpload == Cardinality(tasks) <= 1

\* GDTCOREvent.h on GDTCOREventQoSWifiOnly: "This event should only be uploaded
\* on wifi."
WifiOnlyOnWifi ==
  \A task \in tasks : task.network # "wifi" => \A e \in task.events : EventQoS[e] # "wifi"
=============================================================================
