--------------------------- MODULE Observations ----------------------------
(***************************************************************************)
(* ObservationProducer and its source workers                              *)
(* (devices/observations/producer.py) over the ObservationStore, with the  *)
(* callers SharedSensorHub gives them (devices/observations/hub.py).       *)
(*                                                                         *)
(* Two threads publish: the producer's own loop, and a request that wants  *)
(* a capture of its own (snapshot with force_publish).  The capture lock   *)
(* lets one of them at a time run publish_once (round is its number).      *)
(* Every camera has a worker thread with at most one capture under way; a  *)
(* capture may take any time, and publish_once waits for it until its      *)
(* deadline only.  reconnect and close come from other threads and take    *)
(* neither the capture lock nor wait for a publication.  What a frame and  *)
(* a robot state are does not matter here: a frame is the round its        *)
(* capture was requested in.                                               *)
(***************************************************************************)
EXTENDS ObservationStore, FiniteSets

CONSTANTS
    Cameras,         \* camera sources that may be attached
    MaxRounds,       \* bound: calls of publish_once that get the capture lock
    MaxReconnects    \* bound: calls of reconnect

ASSUME BoundsAssumption == MaxRounds \in Nat /\ MaxReconnects \in Nat
ASSUME CamerasAssumption == "none" \notin Cameras

VARIABLES
    attached,      \* _sources
    job, running, completed,   \* of each worker: the rounds of _job, of the capture under way, of _completed
    workerGen,     \* _generation of each worker
    jobGen,        \* the generation its job or capture was requested in
    workerStop,    \* _stop
    reported,      \* _reported_timeouts: cameras whose request timed out, by round
    \* the two publishing threads
    thread,        \* where each is: "off", "rest", "wants" (past the closed test) or "publishes"
    round,         \* how many rounds have begun
    at,            \* of the round under way: its step, ...
    sampledGen,    \* ... the generation it began in, ...
    todo,          \* ... cameras it has not asked yet, ...
    asking,        \* ... the camera it is asking and how far it is, ...
    pending,       \* ... cameras it waits for, ...
    got,           \* ... the frames it has, ...
    nextSnapshot,  \* ... and its snapshot
    \* close and reconnect
    producerClosed,  \* _closed, which also sets _stop_event
    closing,       \* where close is
    toStop,        \* workers it has yet to stop
    stopping,      \* the worker it waits for
    complete,      \* what close is going to answer
    answered,      \* history: some close answered True
    hasty,         \* history: one of them was called while the first was under way or had answered False
    reconnecting,  \* reconnect is under way
    stale,         \* workers it has yet to invalidate
    reconnects,    \* how many have begun
    slipped        \* history: the last round that a generation began in after its Compare

workerVars == <<job, running, completed, workerGen, jobGen, workerStop>>
roundVars == <<round, at, sampledGen, todo, asking, pending, got, nextSnapshot>>
claimVars == <<answered, hasty>>
endVars == <<producerClosed, closing, toStop, stopping, complete, answered, hasty>>
reconnectVars == <<reconnecting, stale, reconnects, slipped>>
producerVars == <<attached, workerVars, reported, thread, roundVars, endVars, reconnectVars>>
vars == <<observationStoreVars, producerVars>>

Threads == {"loop", "request"}
None == 0     \* no round: nothing queued, running, completed or captured
NoCamera == "none"
IdleAsking == <<NoCamera, "idle">>

\* The hub has started the loop, with its first camera or its first request.
Init ==
    /\ StoreInit(Subscribers)
    /\ attached = {}
    /\ job = [c \in Cameras |-> None] /\ running = job /\ completed = job
    /\ workerGen = job /\ jobGen = job /\ workerStop = [c \in Cameras |-> FALSE]
    /\ reported = {} /\ thread = [t \in Threads |-> "rest"]
    /\ round = 0 /\ at = "idle" /\ sampledGen = 0 /\ todo = {} /\ asking = IdleAsking
    /\ pending = {} /\ got = [c \in Cameras |-> None] /\ nextSnapshot = Nothing
    /\ producerClosed = FALSE /\ closing = "no" /\ toStop = {} /\ stopping = NoCamera /\ complete = TRUE
    /\ answered = FALSE /\ hasty = FALSE
    /\ reconnecting = FALSE /\ stale = {} /\ reconnects = 0 /\ slipped = 0

-----------------------------------------------------------------------------
(* The source workers.                                                     *)

\* request: one capture, and none while there is one or its result.
Free(c) == ~workerStop[c] /\ running[c] = None /\ job[c] = None /\ completed[c] = None

\* A worker takes its job.
WorkerBegins(c) ==
    /\ job[c] # None
    /\ running[c] = None
    /\ running' = [running EXCEPT ![c] = job[c]]
    /\ job' = [job EXCEPT ![c] = None]
    /\ UNCHANGED <<observationStoreVars, attached, completed, workerGen, jobGen, workerStop,
                   reported, thread, roundVars, endVars, reconnectVars>>

\* The capture returns, or fails; its result counts unless the worker was
\* stopped or the camera reconnected meanwhile.
WorkerEnds(c) ==
    /\ running[c] # None
    /\ running' = [running EXCEPT ![c] = None]
    /\ completed' = [completed EXCEPT ![c] =
          IF ~workerStop[c] /\ jobGen[c] = workerGen[c] THEN running[c] ELSE @]
    /\ jobGen' = [jobGen EXCEPT ![c] = 0]
    /\ UNCHANGED <<observationStoreVars, attached, job, workerGen, workerStop,
                   reported, thread, roundVars, endVars, reconnectVars>>

-----------------------------------------------------------------------------
(* publish_once.                                                           *)

\* add_camera_source: under the capture lock, and never after close began.
AddCamera(c) ==
    /\ c \notin attached
    /\ ~producerClosed
    /\ at = "idle"
    /\ attached' = attached \cup {c}
    /\ UNCHANGED <<observationStoreVars, workerVars, reported, thread, roundVars, endVars,
                   reconnectVars>>

\* publish_once finds the producer open, and waits for the capture lock.
Wants(t) ==
    /\ thread[t] = "rest"
    /\ ~producerClosed
    /\ thread' = [thread EXCEPT ![t] = "wants"]
    /\ UNCHANGED <<observationStoreVars, attached, workerVars, reported, roundVars, endVars,
                   reconnectVars>>

\* The loop's thread ends once the stop event is set.
LoopEnds ==
    /\ thread["loop"] = "rest"
    /\ producerClosed
    /\ thread' = [thread EXCEPT !["loop"] = "off"]
    /\ UNCHANGED <<observationStoreVars, attached, workerVars, reported, roundVars, endVars,
                   reconnectVars>>

\* It has the lock: a round begins, of the store's generation.  The state is
\* read next; whether it can be changes nothing here.
BeginRound(t) ==
    /\ thread[t] = "wants"
    /\ at = "idle"
    /\ round < MaxRounds
    /\ thread' = [thread EXCEPT ![t] = "publishes"]
    /\ round' = round + 1 /\ at' = "collect" /\ sampledGen' = generation
    /\ todo' = attached /\ asking' = IdleAsking /\ pending' = {}
    /\ got' = [c \in Cameras |-> None]
    /\ UNCHANGED <<observationStoreVars, attached, workerVars, reported, nextSnapshot, endVars,
                   reconnectVars>>

\* publish_once raises or returns: the lock is free.
EndRound ==
    /\ at' = "idle" /\ nextSnapshot' = Nothing /\ got' = [c \in Cameras |-> None]
    /\ sampledGen' = 0
    /\ thread' = [t \in Threads |-> IF thread[t] = "publishes" THEN "rest" ELSE thread[t]]
    /\ UNCHANGED <<round, todo, asking, pending>>

\* _collect_source_results, one camera after the other.  take_completed: a
\* frame whose timeout was not reported counts, one that was is thrown away.
AskTakes(c) ==
    /\ \/ asking = IdleAsking /\ c \in todo
       \/ asking = <<c, "again">>
    /\ at = "collect"
    /\ todo' = todo \ {c}
    /\ completed' = [completed EXCEPT ![c] = None]
    /\ LET late == completed[c] # None /\ <<c, completed[c]>> \in reported
       IN  /\ got' = [got EXCEPT ![c] = IF late THEN @ ELSE completed[c]]
           /\ reported' = IF late THEN reported \ {<<c, completed[c]>>} ELSE reported
           /\ asking' = CASE completed[c] # None /\ ~late -> IdleAsking
                          [] asking = IdleAsking          -> <<c, "request">>
                          [] late                         -> <<c, "last">>
                          [] OTHER                        -> <<c, "busy">>
    /\ UNCHANGED <<observationStoreVars, attached, job, running, workerGen, jobGen, workerStop,
                   thread, round, at, sampledGen, pending, nextSnapshot, endVars,
                   reconnectVars>>

\* request: the worker takes the job and the round waits for it; a worker
\* that is busy is looked at once more, since it may be done by now.
AskRequests(c) ==
    /\ asking \in {<<c, "request">>, <<c, "last">>}
    /\ IF Free(c)
       THEN /\ job' = [job EXCEPT ![c] = round]
            /\ jobGen' = [jobGen EXCEPT ![c] = workerGen[c]]
            /\ pending' = pending \cup {c} /\ asking' = IdleAsking
       ELSE /\ asking' = IF asking[2] = "request" THEN <<c, "again">> ELSE <<c, "busy">>
            /\ UNCHANGED <<job, jobGen, pending>>
    /\ UNCHANGED <<observationStoreVars, attached, running, completed, workerGen, workerStop,
                   reported, thread, round, at, sampledGen, todo, got, nextSnapshot, endVars,
                   reconnectVars>>

\* active_token: the capture that keeps the worker busy is reported.
AskReports(c) ==
    /\ asking = <<c, "busy">>
    /\ asking' = IdleAsking
    /\ reported' = reported \cup
          {<<c, IF job[c] # None THEN job[c] ELSE running[c]>>}
    /\ UNCHANGED <<observationStoreVars, attached, workerVars, thread, round, at, sampledGen,
                   todo, pending, got, nextSnapshot, endVars, reconnectVars>>

\* The bounded wait: a frame of this round arrives.
Arrives(c) ==
    /\ at = "collect" /\ todo = {} /\ asking = IdleAsking
    /\ c \in pending
    /\ completed[c] # None
    /\ completed' = [completed EXCEPT ![c] = None]
    /\ IF completed[c] = round
       THEN got' = [got EXCEPT ![c] = round] /\ pending' = pending \ {c}
       ELSE UNCHANGED <<got, pending>>
    /\ UNCHANGED <<observationStoreVars, attached, job, running, workerGen, jobGen, workerStop,
                   reported, thread, round, at, sampledGen, todo, asking, nextSnapshot,
                   endVars, reconnectVars>>

\* Nothing is left to wait for, or the deadline has passed: what is missing
\* is reported as timed out.
\* Mutant: the cameras that timed out are not remembered.
WaitEndsForgetful ==
    /\ at = "collect" /\ todo = {} /\ asking = IdleAsking
    /\ at' = "compare"
    /\ pending' = {}
    /\ UNCHANGED <<observationStoreVars, attached, workerVars, reported, thread, round, sampledGen,
                   todo, asking, got, nextSnapshot, endVars, reconnectVars>>

\* Mutant: the wait has no deadline.
WaitEndsUnbounded ==
    /\ at = "collect" /\ todo = {} /\ asking = IdleAsking /\ pending = {}
    /\ at' = "compare"
    /\ UNCHANGED <<observationStoreVars, attached, workerVars, reported, thread, round, sampledGen,
                   todo, asking, pending, got, nextSnapshot, endVars, reconnectVars>>

WaitEnds ==
    /\ at = "collect" /\ todo = {} /\ asking = IdleAsking
    /\ at' = "compare"
    /\ reported' = reported \cup {<<c, round>> : c \in pending}
    /\ pending' = {}
    /\ UNCHANGED <<observationStoreVars, attached, workerVars, thread, round, sampledGen,
                   todo, asking, got, nextSnapshot, endVars, reconnectVars>>

\* A round that crossed a reconnect is given up.
Compare ==
    /\ at = "compare"
    /\ IF sampledGen = generation
       THEN at' = "name" /\ UNCHANGED <<thread, round, sampledGen, todo, asking, pending, got, nextSnapshot>>
       ELSE EndRound
    /\ UNCHANGED <<observationStoreVars, attached, workerVars, reported, endVars, reconnectVars>>

\* next_observation_id, whose generation the snapshot gets.
NameSnapshot ==
    /\ at = "name"
    /\ IF storeClosed
       THEN EndRound /\ UNCHANGED storeVars
       ELSE /\ NextObservationId
            /\ nextSnapshot' = [seq |-> sequence + 1, gen |-> generation, sampled |-> sampledGen,
                                round |-> round, frames |-> got]
            /\ at' = "publish"
            /\ UNCHANGED <<thread, round, sampledGen, todo, asking, pending, got>>
    /\ UNCHANGED <<fanOutVars, queueVars, attached, workerVars, reported, endVars, reconnectVars>>

\* publish, which may refuse the snapshot.
PublishSnapshot ==
    /\ at = "publish"
    /\ IF Publishable(nextSnapshot)
       THEN /\ Publish(nextSnapshot) /\ UNCHANGED sequence /\ at' = "offer"
            /\ UNCHANGED <<thread, round, sampledGen, todo, asking, pending, got, nextSnapshot>>
       ELSE EndRound /\ UNCHANGED observationStoreVars
    /\ UNCHANGED <<attached, workerVars, reported, endVars, reconnectVars>>

OfferTo(s) ==
    /\ at = "offer"
    /\ Deliver(s)
    /\ UNCHANGED producerVars

RoundReturns ==
    /\ at = "offer"
    /\ offers = {}
    /\ EndRound
    /\ UNCHANGED <<observationStoreVars, attached, workerVars, reported, endVars, reconnectVars>>

-----------------------------------------------------------------------------
(* reconnect.                                                              *)

\* It invalidates the workers' results one by one, ...
ReconnectBegins ==
    /\ ~reconnecting
    /\ reconnects < MaxReconnects
    /\ reconnecting' = TRUE /\ reconnects' = reconnects + 1 /\ stale' = attached
    /\ UNCHANGED <<observationStoreVars, attached, workerVars, reported, thread, roundVars, endVars, slipped>>

Invalidate(c) ==
    /\ c \in stale
    /\ stale' = stale \ {c}
    /\ workerGen' = [workerGen EXCEPT ![c] = @ + 1]
    /\ completed' = [completed EXCEPT ![c] = None]
    /\ UNCHANGED <<observationStoreVars, attached, job, running, jobGen, workerStop, reported,
                   thread, roundVars, endVars, reconnecting, reconnects, slipped>>

\* ... and begins the generation, unless the store is closed.
ReconnectEnds ==
    /\ reconnecting /\ stale = {}
    /\ reconnecting' = FALSE
    /\ \/ BeginGeneration
       \/ storeClosed /\ UNCHANGED observationStoreVars
    /\ slipped' = IF at = "name" THEN round ELSE slipped
    /\ UNCHANGED <<attached, workerVars, reported, thread, roundVars, endVars, stale, reconnects>>
-----------------------------------------------------------------------------
(* close.                                                                  *)

\* It says so first, which is the stop event of the loop, ...
CloseBegins ==
    /\ closing = "no"
    /\ closing' = "join" /\ producerClosed' = TRUE
    /\ UNCHANGED <<observationStoreVars, attached, workerVars, reported, thread, roundVars,
                   toStop, stopping, complete, claimVars, reconnectVars>>

\* ... waits for the loop's thread, and leaves the workers if that times out, ...
CloseJoins ==
    /\ closing = "join"
    /\ LET over == thread["loop"] = "off"
       IN  /\ complete' \in {over, FALSE}
           /\ closing' = IF complete' THEN "workers" ELSE "store"
           /\ toStop' = IF complete' THEN attached ELSE {}
    /\ UNCHANGED <<observationStoreVars, attached, workerVars, reported, thread, roundVars,
                   producerClosed, stopping, claimVars, reconnectVars>>

\* ... stops one worker after the other, taking its job from it, ...
StopWorker(c) ==
    /\ closing = "workers" /\ stopping = NoCamera
    /\ c \in toStop
    /\ toStop' = toStop \ {c} /\ stopping' = c
    /\ workerStop' = [workerStop EXCEPT ![c] = TRUE]
    /\ job' = [job EXCEPT ![c] = None]
    /\ UNCHANGED <<observationStoreVars, attached, running, completed, workerGen, jobGen, reported,
                   thread, roundVars, producerClosed, closing, complete, claimVars, reconnectVars>>

\* ... waits for its capture, within what is left of the budget, ...
\* Mutant: a capture that outlives the wait does not count.
JoinWorkerAnyway ==
    /\ stopping # NoCamera
    /\ stopping' = NoCamera
    /\ UNCHANGED <<observationStoreVars, attached, workerVars, reported, thread, roundVars,
                   producerClosed, closing, toStop, complete, claimVars, reconnectVars>>

JoinWorker ==
    /\ stopping # NoCamera
    /\ stopping' = NoCamera
    /\ complete' \in {complete /\ running[stopping] = None, FALSE}
    /\ UNCHANGED <<observationStoreVars, attached, workerVars, reported, thread, roundVars,
                   producerClosed, closing, toStop, claimVars, reconnectVars>>

\* ... and closes the store in any case.
CloseStore ==
    /\ \/ closing = "workers" /\ toStop = {} /\ stopping = NoCamera
       \/ closing = "store"
    /\ closing' = "done"
    /\ answered' = (answered \/ complete)
    /\ StoreCloses
    /\ UNCHANGED <<attached, workerVars, reported, thread, roundVars, producerClosed, toStop,
                   stopping, complete, hasty, reconnectVars>>

\* A close that finds the producer closed answers True at once, whatever the first one
\* has answered or is still doing.
CloseAgain ==
    /\ closing # "no"
    /\ answered' = TRUE
    /\ hasty' = (hasty \/ ~(closing = "done" /\ complete))
    /\ UNCHANGED <<observationStoreVars, attached, workerVars, reported, thread, roundVars,
                   producerClosed, closing, toStop, stopping, complete, reconnectVars>>

-----------------------------------------------------------------------------

\* The second half of the store's close, and a subscriber that reads: get.
QueueStep(s) ==
    /\ Shut(s) \/ Take(s)
    /\ UNCHANGED producerVars

WorkerStep(c) == WorkerBegins(c) \/ WorkerEnds(c)

AskStep(c) == AskTakes(c) \/ AskRequests(c) \/ AskReports(c)

RoundStep ==
    \/ \E c \in Cameras : AskStep(c) \/ Arrives(c)
    \/ WaitEnds \/ Compare \/ NameSnapshot \/ PublishSnapshot
    \/ \E s \in Subscribers : OfferTo(s)
    \/ RoundReturns

ThreadStep == LoopEnds \/ \E t \in Threads : Wants(t) \/ BeginRound(t)

ReconnectStep == ReconnectBegins \/ (\E c \in Cameras : Invalidate(c)) \/ ReconnectEnds

CloseStep == CloseJoins \/ (\E c \in Cameras : StopWorker(c)) \/ JoinWorker \/ CloseStore

Next ==
    \/ \E c \in Cameras : WorkerStep(c) \/ AddCamera(c)
    \/ RoundStep \/ ThreadStep \/ ReconnectStep
    \/ CloseBegins \/ CloseStep \/ CloseAgain
    \/ \E s \in Subscribers : QueueStep(s)

Spec == Init /\ [][Next]_vars

\* Threads that are not blocked go on, and every wait ends: publish_once and
\* close have deadlines.  A capture may hang for ever, so workers are not fair.
FairSpec ==
    /\ Spec
    /\ WF_vars(RoundStep) /\ WF_vars(CloseStep)
-----------------------------------------------------------------------------
(* Properties.                                                             *)

Snapshots == [seq : 1..MaxRounds, gen : 0..MaxReconnects, sampled : 0..MaxReconnects,
              round : 1..MaxRounds, frames : [Cameras -> 0..MaxRounds]]

Retained == {retained[i] : i \in 1..Len(retained)}

WorkersTypeOK ==
    /\ attached \subseteq Cameras /\ reported \subseteq Cameras \X (0..MaxRounds)
    /\ job \in [Cameras -> 0..MaxRounds] /\ running \in [Cameras -> 0..MaxRounds]
    /\ completed \in [Cameras -> 0..MaxRounds] /\ workerStop \in [Cameras -> BOOLEAN]
    /\ workerGen \in [Cameras -> 0..MaxReconnects] /\ jobGen \in [Cameras -> 0..MaxReconnects]

RoundTypeOK ==
    /\ thread \in [Threads -> {"off", "rest", "wants", "publishes"}]
    /\ round \in 0..MaxRounds /\ sequence <= round
    /\ at \in {"idle", "collect", "compare", "name", "publish", "offer"}
    /\ sampledGen \in 0..MaxReconnects
    /\ todo \subseteq attached /\ pending \subseteq attached
    /\ asking \in (attached \X {"request", "again", "last", "busy"}) \cup {IdleAsking}
    /\ got \in [Cameras -> 0..MaxRounds] /\ nextSnapshot \in Snapshots \cup {Nothing}

EndsTypeOK ==
    /\ producerClosed \in BOOLEAN /\ complete \in BOOLEAN
    /\ closing \in {"no", "join", "workers", "store", "done"}
    /\ toStop \subseteq attached /\ stopping \in attached \cup {NoCamera}
    /\ answered \in BOOLEAN /\ hasty \in BOOLEAN
    /\ reconnecting \in BOOLEAN /\ stale \subseteq attached
    /\ reconnects \in 0..MaxReconnects /\ generation <= reconnects /\ slipped \in 0..MaxRounds

\* Every variable has its type: rounds, generations and sequences stay within
\* the bounds, the window and the queues within their sizes.
TypeOK == StoreTypeOK(Snapshots) /\ WorkersTypeOK /\ RoundTypeOK /\ EndsTypeOK

\* A camera that was late for one observation does not lend its frame to a
\* later one: every frame of a snapshot was requested by the publish_once that
\* published it (_reported_timeouts, producer.py:560-565 and 611-613).
FreshFrames ==
    \A snap \in Retained, c \in Cameras : snap.frames[c] \in {None, snap.round}

\* After a reconnect nothing sampled before it can be looked up: every
\* retained snapshot has the store's generation, and began in it, unless the
\* generation began between the producer's comparison and the snapshot's id
\* (producer.py:483-515, which the comment there overlooks).
NothingFromBefore ==
    \A snap \in Retained :
        /\ snap.gen = generation
        /\ snap.sampled = generation \/ snap.round <= slipped

\* When a close has answered True nothing captures any more, whatever was under
\* way when it began: the loop is over, and so is every capture (producer.py:779-792);
\* but for the answer of one that was called again too early (hasty: 773-774), which
\* does not excuse the first.
CloseHonest ==
    (answered /\ ~hasty) \/ (closing = "done" /\ complete) =>
        thread["loop"] = "off" /\ \A c \in Cameras : job[c] = None /\ running[c] = None

\* A camera that hangs for ever holds up nobody: publish_once returns, and so
\* does close (the deadlines of producer.py:588-613 and 766-809).
NobodyHeldUp ==
    /\ (at # "idle") ~> (at = "idle")
    /\ (closing # "no") ~> (closing = "done")
=============================================================================
