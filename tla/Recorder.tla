------------------------------ MODULE Recorder -----------------------------
(***************************************************************************)
(* ObservationRecorder (devices/recording.py) as a subscriber of the       *)
(* ObservationStore, beside another subscriber that reads a stream.        *)
(*                                                                         *)
(* The writer thread takes snapshots from its subscription and action      *)
(* events from the recorder's own queue, writes both to files, and at its  *)
(* end the manifest.  start, record_action and stop come from the control  *)
(* service, snapshots from the producer, one publication at a time, and    *)
(* the store may close before the writer is through.  Any write may fail,  *)
(* on a full disk or at max_records or max_bytes.  A snapshot is its       *)
(* sequence; what is missing in one, which only makes the recording        *)
(* incomplete, is left out.                                                *)
(***************************************************************************)
EXTENDS ObservationStore, FiniteSets

CONSTANTS
    Viewer,            \* the other subscriber
    MaxSubscriptions,  \* bound: subscriptions that are taken
    MaxSnapshots,      \* bound: ids the producer asks for
    MaxActions         \* bound: events the service offers

Recording == "recorder"
ASSUME SubscribersAssumption == Subscribers = {Recording, Viewer} /\ Viewer # Recording
ASSUME RecorderBounds == MaxSubscriptions \in Nat /\ MaxSnapshots \in Nat /\ MaxActions \in Nat

VARIABLES
    state,           \* _state
    incomplete,      \* _incomplete
    stopEvent,       \* _stop_event
    actionQueue,     \* _action_queue, of the same size as the subscription's
    droppedActions,  \* _dropped_actions > 0
    writer,          \* where the writer thread is
    current,         \* the sequence it writes
    lastSequence,    \* _last_sequence; 0: None
    budget,          \* drain_budget
    written, writtenActions,   \* the two files
    manifest,        \* the last manifest the writer wrote
    stopping,        \* where stop is: "no", "join" or "done"
    answer,          \* what it answered
    \* histories
    due,             \* snapshots queued for the recorder while no stop was asked
    looked,          \* how many of them there were when the writer last found its queue empty
    actions,         \* how many events record_action took
    stream, replayed \* what the viewer was given, and what of it was a replay

recorderVars == <<state, incomplete, stopEvent, actionQueue, droppedActions>>
fileVars == <<written, writtenActions, manifest>>
writerVars == <<writer, current, lastSequence, budget>>
stopVars == <<stopping, answer>>
historyVars == <<due, looked, actions>>
viewerVars == <<stream, replayed>>
vars == <<observationStoreVars, recorderVars, fileVars, writerVars, stopVars,
          historyVars, viewerVars>>

OwnSize == QueueSize[Recording]
NoBudget == OwnSize + 1
NoManifest == [state |-> "running", incomplete |-> FALSE, dropped |-> 0, droppedActions |-> FALSE]

Init ==
    /\ StoreInit({})
    /\ state = "created" /\ incomplete = FALSE /\ stopEvent = FALSE
    /\ actionQueue = <<>> /\ droppedActions = FALSE
    /\ writer = "none" /\ current = 0 /\ lastSequence = 0 /\ budget = NoBudget
    /\ written = <<>> /\ writtenActions = <<>> /\ manifest = NoManifest
    /\ stopping = "no" /\ answer = FALSE
    /\ due = <<>> /\ looked = 0 /\ actions = 0
    /\ stream = <<>> /\ replayed = 0

-----------------------------------------------------------------------------
(* The producer, and the end of the store.                                 *)

\* An id is taken, and the snapshot published or its round given up.
PublishNext ==
    /\ ~storeClosed /\ offers = {}
    /\ sequence < MaxSnapshots
    /\ \/ Publish([seq |-> sequence + 1, gen |-> generation]) /\ sequence' = sequence + 1
       \/ NextObservationId /\ UNCHANGED <<fanOutVars, queueVars>>
    /\ UNCHANGED <<recorderVars, fileVars, writerVars, stopVars, historyVars, viewerVars>>

DeliverTo(s) ==
    /\ Deliver(s)
    /\ due' = IF s = Recording /\ ~shut[s] /\ ~stopEvent THEN Append(due, offered.seq) ELSE due
    /\ UNCHANGED <<recorderVars, fileVars, writerVars, stopVars, looked,
                   actions, viewerVars>>

\* The control service closes the store after it asked the recorder to stop;
\* the producer's owner may do so at any time.
Closes ==
    /\ StoreCloses
    /\ UNCHANGED <<recorderVars, fileVars, writerVars, stopVars, historyVars, viewerVars>>

-----------------------------------------------------------------------------
(* start, record_action and stop.                                          *)

MaySubscribe == Cardinality(taken) < MaxSubscriptions

\* start: a file, the mount or a closed store may make it fail, and then no
\* subscription is left.
Start ==
    /\ state = "created"
    /\ \/ /\ MaySubscribe /\ Subscribe(Recording, FALSE)
          /\ state' = "running" /\ writer' = "drain"
          /\ UNCHANGED incomplete
       \/ /\ state' = "failed" /\ incomplete' = TRUE
          /\ UNCHANGED <<observationStoreVars, writer>>
    /\ UNCHANGED <<stopEvent, actionQueue, droppedActions, fileVars, current,
                   lastSequence, budget, stopVars, historyVars, viewerVars>>

\* record_action: a full queue loses its oldest event, which is noted.
RecordAction ==
    /\ actions < MaxActions
    /\ actions' = actions + 1
    /\ state \in {"created", "running"}
    /\ LET full == Len(actionQueue) = OwnSize
       IN  /\ actionQueue' = Append(IF full THEN Tail(actionQueue) ELSE actionQueue, actions + 1)
           /\ droppedActions' = (droppedActions \/ full)
           /\ incomplete' = (incomplete \/ full)
    /\ UNCHANGED <<observationStoreVars, state, stopEvent, fileVars, writerVars,
                   stopVars, due, looked, viewerVars>>

\* stop: at once if there is nothing to wait for, ...
StopBegins ==
    /\ stopping = "no"
    /\ CASE state = "created" -> state' = "stopped" /\ stopping' = "done" /\ answer' = TRUE /\ UNCHANGED stopEvent
         [] state \in {"stopped", "failed"} -> stopping' = "done" /\ answer' = TRUE /\ UNCHANGED <<state, stopEvent>>
         [] OTHER -> state' = "stopping" /\ stopEvent' = TRUE /\ stopping' = "join" /\ UNCHANGED answer
    /\ UNCHANGED <<observationStoreVars, incomplete, actionQueue, droppedActions,
                   fileVars, writerVars, historyVars, viewerVars>>

\* ... and otherwise when the writer has ended, or the timeout has passed.
StopReturns ==
    /\ stopping = "join"
    /\ stopping' = "done"
    /\ \/ writer = "over" /\ answer' = TRUE /\ UNCHANGED incomplete
       \/ writer # "over" /\ answer' = FALSE /\ incomplete' = TRUE
    /\ UNCHANGED <<observationStoreVars, state, stopEvent, actionQueue, droppedActions,
                   fileVars, writerVars, historyVars, viewerVars>>

-----------------------------------------------------------------------------
(* The writer thread.                                                      *)

\* _fail, from anything that raises in the loop: on to the last drain.
Fail ==
    /\ state' = "failed" /\ incomplete' = TRUE /\ stopEvent' = TRUE

\* _drain_actions: one event after the other.  The last drain, of at most
\* queue_size events, ends with the first one that cannot be written.
WriteAction ==
    /\ writer \in {"drain", "last"}
    /\ actionQueue # <<>>
    /\ actionQueue' = Tail(actionQueue)
    /\ \/ writtenActions' = Append(writtenActions, Head(actionQueue))
          /\ UNCHANGED <<state, incomplete, stopEvent, writer>>
       \/ /\ Fail /\ writer' = IF writer = "drain" THEN "last" ELSE "leave"
          /\ UNCHANGED writtenActions
    /\ UNCHANGED <<observationStoreVars, droppedActions, written, manifest, current,
                   lastSequence, budget, stopVars, historyVars, viewerVars>>

\* get, while there are snapshots.
TakeSnapshot ==
    /\ writer = "drain" /\ actionQueue = <<>>
    /\ Take(Recording)
    /\ current' = Head(queue[Recording]).seq
    /\ writer' = "write"
    /\ UNCHANGED <<recorderVars, fileVars, lastSequence, budget, stopVars,
                   historyVars, viewerVars>>

\* get on an empty queue: Empty after a while, or the store was closed.
FindNone ==
    /\ writer = "drain" /\ actionQueue = <<>> /\ queue[Recording] = <<>>
    /\ IF shut[Recording]
       THEN Fail /\ writer' = "last"
       ELSE writer' = "empty" /\ UNCHANGED <<state, incomplete, stopEvent>>
    /\ looked' = Len(due)
    /\ UNCHANGED <<observationStoreVars, actionQueue, droppedActions, fileVars, current,
                   lastSequence, budget, stopVars, due, actions, viewerVars>>

\* Empty: the loop ends if a stop was asked by now.
AfterNone ==
    /\ writer = "empty"
    /\ writer' = IF stopEvent THEN "last" ELSE "drain"
    /\ UNCHANGED <<observationStoreVars, recorderVars, fileVars, current, lastSequence,
                   budget, stopVars, historyVars, viewerVars>>

\* _write_snapshot: a gap in the sequences makes the recording incomplete.
\* Mutant: a gap of one does not.
GapOfTwo == lastSequence # 0 /\ current > lastSequence + 2

Gap == lastSequence # 0 /\ current > lastSequence + 1

WriteSnapshot ==
    /\ writer = "write"
    /\ lastSequence' = current
    /\ current' = 0
    /\ \/ /\ written' = Append(written, current)
          /\ incomplete' = (incomplete \/ Gap)
          /\ writer' = "wrote"
          /\ UNCHANGED <<state, stopEvent>>
       \/ /\ Fail /\ writer' = "last"
          /\ UNCHANGED written
    /\ UNCHANGED <<observationStoreVars, actionQueue, droppedActions, writtenActions,
                   manifest, budget, stopVars, historyVars, viewerVars>>

\* Once a stop was asked, queue_size more snapshots are written at most.
AfterSnapshot ==
    /\ writer = "wrote"
    /\ IF stopEvent
       THEN /\ budget' = IF budget = NoBudget THEN OwnSize ELSE budget - 1
            /\ writer' = IF budget' = 0 THEN "last" ELSE "drain"
            /\ incomplete' = (incomplete \/ budget' = 0)
       ELSE writer' = "drain" /\ UNCHANGED <<budget, incomplete>>
    /\ UNCHANGED <<observationStoreVars, state, stopEvent, actionQueue, droppedActions,
                   fileVars, current, lastSequence, stopVars, historyVars, viewerVars>>

\* subscription.close, in two steps.
LastDrainEnds ==
    /\ \/ writer = "last" /\ actionQueue = <<>>
       \/ writer = "leave"
    /\ writer' = "leaving"
    /\ Unsubscribe(Recording)
    /\ UNCHANGED <<recorderVars, fileVars, current, lastSequence, budget, stopVars,
                   historyVars, viewerVars>>

\* The end: the state is settled and the manifest written, which may fail.
End ==
    /\ writer = "leaving" /\ Recording \notin unshut
    /\ writer' = "over"
    /\ LET s == IF state = "failed" THEN "failed" ELSE "stopped"
       IN  \/ /\ state' = s /\ UNCHANGED incomplete
              /\ manifest' = [state |-> s, incomplete |-> incomplete,
                              dropped |-> dropped[Recording], droppedActions |-> droppedActions]
           \/ state' = "failed" /\ incomplete' = TRUE /\ UNCHANGED manifest
    /\ UNCHANGED <<observationStoreVars, stopEvent, actionQueue, droppedActions, written,
                   writtenActions, current, lastSequence, budget, stopVars, historyVars, viewerVars>>

-----------------------------------------------------------------------------
(* The viewer: a subscription with or without the latest snapshot.         *)

ViewerSubscribes ==
    /\ MaySubscribe
    /\ \E replay \in BOOLEAN :
          Subscribe(Viewer, replay) /\ replayed' = IF replay THEN Latest.seq ELSE 0
    /\ UNCHANGED <<recorderVars, fileVars, writerVars, stopVars, historyVars, stream>>

\* subscribe has returned.
ViewerReads ==
    /\ replays[Viewer] = Nothing
    /\ Take(Viewer)
    /\ stream' = Append(stream, Head(queue[Viewer]).seq)
    /\ UNCHANGED <<recorderVars, fileVars, writerVars, stopVars, historyVars, replayed>>

ViewerLeaves ==
    /\ replays[Viewer] = Nothing /\ Viewer \notin unshut /\ ~shut[Viewer]
    /\ Unsubscribe(Viewer)
    /\ UNCHANGED <<recorderVars, fileVars, writerVars, stopVars, historyVars, viewerVars>>

\* The second half of subscribe, of unsubscribe and of the store's close.
QueueStep(s) ==
    /\ Replay(s) \/ Shut(s)
    /\ UNCHANGED <<recorderVars, fileVars, writerVars, stopVars, historyVars, viewerVars>>

-----------------------------------------------------------------------------

Producer == PublishNext \/ \E s \in Subscribers : DeliverTo(s)

Writer ==
    \/ WriteAction \/ TakeSnapshot \/ FindNone \/ AfterNone
    \/ WriteSnapshot \/ AfterSnapshot \/ LastDrainEnds \/ End

Next ==
    \/ Producer \/ Closes
    \/ Start \/ RecordAction \/ StopBegins \/ StopReturns
    \/ Writer
    \/ ViewerSubscribes \/ ViewerReads \/ ViewerLeaves
    \/ \E s \in Subscribers : QueueStep(s)

Spec == Init /\ [][Next]_vars

\* Threads that can run do, and file operations end.  The viewer reads on as
\* long as there is something to read.
FairSpec ==
    /\ Spec
    /\ WF_vars(Producer) /\ WF_vars(Writer) /\ WF_vars(StopReturns) /\ WF_vars(ViewerReads)
    /\ \A s \in Subscribers : WF_vars(QueueStep(s))

-----------------------------------------------------------------------------
(* Properties.                                                             *)

Elements(q) == {q[i] : i \in 1..Len(q)}

Snapshots == [seq : 1..MaxSnapshots, gen : Nat]

RecorderTypeOK ==
    /\ state \in {"created", "running", "stopping", "stopped", "failed"}
    /\ incomplete \in BOOLEAN /\ stopEvent \in BOOLEAN /\ droppedActions \in BOOLEAN
    /\ actionQueue \in Seq(1..MaxActions) /\ Len(actionQueue) <= OwnSize
    /\ writer \in {"none", "drain", "empty", "write", "wrote", "last", "leave", "leaving", "over"}
    /\ current \in 0..MaxSnapshots /\ lastSequence \in 0..MaxSnapshots /\ budget \in 0..NoBudget
    /\ stopping \in {"no", "join", "done"} /\ answer \in BOOLEAN

FilesTypeOK ==
    /\ written \in Seq(1..MaxSnapshots) /\ writtenActions \in Seq(1..MaxActions)
    /\ manifest \in [state : {"running", "stopped", "failed"}, incomplete : BOOLEAN,
                     dropped : Nat, droppedActions : BOOLEAN]
    /\ due \in Seq(1..MaxSnapshots) /\ looked \in 0..Len(due) /\ actions \in 0..MaxActions
    /\ stream \in Seq(1..MaxSnapshots) /\ replayed \in 0..MaxSnapshots

\* Every variable has its type, and no queue outgrows its size.
TypeOK == StoreTypeOK(Snapshots) /\ sequence <= MaxSnapshots /\ RecorderTypeOK /\ FilesTypeOK

\* What is lost shows.  A manifest that calls a recording stopped and not
\* incomplete has every snapshot that was queued before the stop, in order,
\* and every event record_action took, but for two kinds of loss: snapshots
\* that overflowed the queue before the first one was written, which only
\* dropped_observations tells, and those queued after the writer's last Empty
\* and before its look at the stop event, which nothing tells (recording.py:
\* 396-410 and 439-443).
LossVisible ==
    manifest.state = "stopped" /\ ~manifest.incomplete =>
        /\ \A i \in 1..looked : due[i] \notin Elements(written) =>
              manifest.dropped > 0 /\ \A w \in Elements(written) : due[i] < w
        /\ 1..actions \subseteq Elements(writtenActions)

\* stop answers True only when nothing is written any more, unless the
\* recorder had failed by then: of a failed one it does not wait for the rest
\* (recording.py:274-286).
StopHonest == stopping = "done" /\ answer => writer \in {"none", "over"} \/ state = "failed"

RecorderHonest == LossVisible /\ StopHonest

\* What the viewer has been given, and is going to be.
ViewerStream == stream \o [i \in 1..Len(queue[Viewer]) |-> queue[Viewer][i].seq]

\* No reader gets a snapshot twice, and each gets them in the order of their
\* publication, but for one that was replayed to the viewer, which may come
\* after snapshots published since: subscribe registers under the lock and
\* replays after it (store.py:208-214).
InOrderOnce ==
    /\ \A i, j \in 1..Len(ViewerStream) :
          i < j => \/ ViewerStream[i] < ViewerStream[j]
                   \/ ViewerStream[i] > ViewerStream[j] /\ ViewerStream[j] = replayed
    /\ \A i, j \in 1..Len(written) : i < j => written[i] < written[j]

\* Everything comes to an end: the writer after a stop, a failure or the end
\* of the store, however much is published meanwhile; stop; and the stream of
\* a subscriber that reads on after the store was closed (recording.py:391-429,
\* store.py:64-81 and 238-251).
StreamsEnd ==
    /\ writer # "none" /\ (stopEvent \/ storeClosed) ~> writer = "over"
    /\ stopping = "join" ~> stopping = "done"
    /\ storeClosed /\ Viewer \in taken ~> StreamOver(Viewer)
=============================================================================
