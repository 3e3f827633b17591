----------------------------- MODULE Go2Agent ------------------------------
(***************************************************************************)
(* The on-board control agent of the Unitree Go2                           *)
(* (robots/unitree/go2/agent/control): ActionExecutor, MotionLease and     *)
(* SdkOwner in one process on the robot, and the Go2Adapter that drives it *)
(* over HTTP.                                                              *)
(*                                                                         *)
(* Three threads matter.  Handlers hold _lifecycle_lock for a whole        *)
(* operation, so there is one operation at a time (op).  A motion has a    *)
(* worker thread (worker), at most one alive.  The owner thread runs the   *)
(* native calls of both in FIFO order.  A native call may hang; whoever    *)
(* waits for it gives up, and the call stays behind in flight or in the    *)
(* queue.  Time is not counted: waits and leases end at any moment.        *)
(***************************************************************************)
EXTENDS Naturals, Sequences

CONSTANTS
    Restarts,    \* the agent may be started again after it exited
    MaxQueue     \* bound: operations and motions begin while fewer calls are queued

ASSUME RestartsAssumption == Restarts \in BOOLEAN
ASSUME MaxQueueAssumption == MaxQueue \in Nat \ {0}

VARIABLES
    ready,         \* operator_motion_ready
    process,       \* "init", "serving" or "exited"
    closed,        \* of the executor: "no", "closing" or "closed"
    op, opAt,      \* the operation under way, and where it is
    opJoined,      \* its worker_joined
    worker,        \* where the motion worker is
    stopEvent,     \* the lease's stop_event
    elapsed,       \* its duration is over
    commandLock, submitLock,
    \* the SDK owner
    queue,         \* the FIFO of native calls; NoCall is the None that ends the loop
    current,       \* the call the owner has taken
    owner,         \* where the owner thread is
    sdkClosing, sdkClosed, faulted,
    future,        \* of the call each caller waits for
    waiting,       \* where each caller is with its call
    \* the adapter
    adapterLease,  \* its _velocity_lease_id: "none", "current" or "stale"
    \* histories
    sent,          \* the last native call made
    halted,        \* stop() or close() has had its StopMove made
    stopReport     \* the last stop() answered: "none", "stopped" or "unconfirmed"

opVars == <<op, opAt, opJoined>>
leaseVars == <<worker, stopEvent, elapsed>>
lockVars == <<commandLock, submitLock>>
ownerVars == <<queue, current, owner, sdkClosing, sdkClosed, faulted>>
callVars == <<future, waiting>>
historyVars == <<sent, halted, stopReport>>
vars == <<ready, process, closed, opVars, leaseVars, lockVars, ownerVars, callVars,
          adapterLease, historyVars>>

Callers == {"worker", "op"}
Methods == {"Move", "StopMove", "Posture"}
\* halt: a StopMove of stop() or close(); waited: somebody still waits for it
Calls == [method : Methods, by : Callers, halt : BOOLEAN, waited : BOOLEAN]
NoCall == [method |-> "Exit", by |-> "op", halt |-> FALSE, waited |-> FALSE]
Futures == {"pending", "running", "ok", "bad"}
WaitStates == {"out", "entering", "waiting", "late", "ok", "bad"}
WorkerStates == {"none", "begin", "loop", "checked", "moving", "ending", "stopping", "done"}
Motion(m) == m # "StopMove"

\* The agent starts with or without --operator-ready.
Init ==
    /\ ready \in BOOLEAN /\ process = "init" /\ adapterLease = "none"
    /\ closed = "no" /\ op = "none" /\ opAt = "out" /\ opJoined = FALSE
    /\ worker = "none" /\ stopEvent = FALSE /\ elapsed = FALSE
    /\ commandLock = "none" /\ submitLock = "none"
    /\ queue = <<>> /\ current = NoCall /\ owner = "init"
    /\ sdkClosing = FALSE /\ sdkClosed = FALSE /\ faulted = FALSE
    /\ future = [c \in Callers |-> "pending"] /\ waiting = [c \in Callers |-> "out"]
    /\ sent = "none" /\ halted = FALSE /\ stopReport = "none"

-----------------------------------------------------------------------------
(* SdkOwner: enqueue, wait and the owner thread.                           *)

\* Mutant: a faulted transport takes no StopMove either.
RefusedAll(m) == sdkClosed \/ sdkClosing \/ owner = "exited" \/ faulted

\* enqueue(): a faulted transport still takes a StopMove.
Refused(m) == sdkClosed \/ sdkClosing \/ owner = "exited" \/ (faulted /\ Motion(m))

\* call() and stop(): take submit_lock and enqueue.
Submit(c, m, h) ==
    /\ waiting[c] = "entering" /\ submitLock = "none"
    /\ IF Refused(m)
       THEN waiting' = [waiting EXCEPT ![c] = "bad"] /\ UNCHANGED <<queue, submitLock, future>>
       ELSE /\ waiting' = [waiting EXCEPT ![c] = "waiting"]
            /\ queue' = Append(queue, [method |-> m, by |-> c, halt |-> h, waited |-> TRUE])
            /\ future' = [future EXCEPT ![c] = "pending"]
            /\ submitLock' = c
    /\ UNCHANGED <<current, owner, sdkClosing, sdkClosed, faulted>>

\* The call that c is waiting for, in the queue.
IsMine(c, call) == call.by = c /\ call.waited
Mine(c) == {i \in 1..Len(queue) : IsMine(c, queue[i])}
Pending(c, m) == \E i \in Mine(c) : queue[i].method = m

\* Nobody waits for c's call any more; it stays where it is.
Detached(call, c) == IF call.by = c THEN [call EXCEPT !.waited = FALSE] ELSE call
Detach(c) ==
    /\ queue' = [i \in DOMAIN queue |-> Detached(queue[i], c)]
    /\ current' = Detached(current, c)

\* wait(): the future is done.
WaitDone(c, s) ==
    /\ waiting[c] = s /\ future[c] \in {"ok", "bad"}
    /\ waiting' = [waiting EXCEPT ![c] = future[c]]
    /\ UNCHANGED <<ownerVars, future>>

\* Mutant: a StopMove is cancelled too.
WaitCancelsAll(c) ==
    /\ waiting[c] = "waiting" /\ future[c] = "pending"
    /\ waiting' = [waiting EXCEPT ![c] = "bad"]
    /\ queue' = SubSeq(queue, 1, Len(queue) - 1)
    /\ UNCHANGED <<future, current, owner, sdkClosing, sdkClosed, faulted>>

\* wait(): timed out before the call was taken.  A motion is cancelled: the
\* caller is the last in the queue, because of submit_lock.
WaitCancels(c) ==
    /\ waiting[c] = "waiting" /\ future[c] = "pending" /\ ~Pending(c, "StopMove")
    /\ waiting' = [waiting EXCEPT ![c] = "bad"]
    /\ queue' = SubSeq(queue, 1, Len(queue) - 1)
    /\ UNCHANGED <<future, current, owner, sdkClosing, sdkClosed, faulted>>

\* wait(): timed out otherwise; the call may end before it is looked at again.
WaitExpires(c) ==
    /\ waiting[c] = "waiting"
    /\ future[c] = "running" \/ (future[c] = "pending" /\ Pending(c, "StopMove"))
    /\ waiting' = [waiting EXCEPT ![c] = "late"]
    /\ UNCHANGED <<ownerVars, future>>

\* wait(): it was not done, so the transport is faulted.
WaitFaults(c) ==
    /\ waiting[c] = "late"
    /\ waiting' = [waiting EXCEPT ![c] = "bad"]
    /\ faulted' = TRUE
    /\ Detach(c)
    /\ UNCHANGED <<future, owner, sdkClosing, sdkClosed>>

\* The rest of a call made by c, which gives submit_lock up when it ends; close()
\* keeps it.
WaitStep(c) ==
    /\ \/ /\ WaitDone(c, "waiting") \/ WaitDone(c, "late") \/ WaitCancels(c) \/ WaitFaults(c)
          /\ submitLock' = IF c = "op" /\ opAt = "final" THEN "op" ELSE "none"
       \/ WaitExpires(c) /\ UNCHANGED submitLock
    /\ UNCHANGED <<ready, process, closed, opVars, leaseVars, commandLock, adapterLease, historyVars>>

Deliver(call, f) == IF call.waited THEN [future EXCEPT ![call.by] = f] ELSE future

Rest == <<ready, process, closed, opVars, leaseVars, lockVars, waiting, adapterLease>>

\* The owner thread has set up the SDK, or failed to.
OwnerInit ==
    /\ owner = "init" /\ owner' \in {"idle", "exited"}
    /\ UNCHANGED <<Rest, queue, current, sdkClosing, sdkClosed, faulted, future, historyVars>>

\* The owner takes the next call; nobody can cancel it any more.
OwnerTakes ==
    /\ owner = "idle" /\ queue # <<>> /\ Head(queue) # NoCall
    /\ current' = Head(queue) /\ queue' = Tail(queue) /\ owner' = "taken"
    /\ future' = Deliver(Head(queue), "running")
    /\ UNCHANGED <<Rest, sdkClosing, sdkClosed, faulted, historyVars>>

\* A motion is not made on a faulted transport.
OwnerRefuses ==
    /\ owner = "taken" /\ faulted /\ Motion(current.method)
    /\ future' = Deliver(current, "bad")
    /\ current' = NoCall /\ owner' = "idle"
    /\ UNCHANGED <<Rest, queue, sdkClosing, sdkClosed, faulted, historyVars>>

OwnerCalls ==
    /\ owner = "taken" /\ ~(faulted /\ Motion(current.method))
    /\ owner' = "calling"
    /\ sent' = current.method /\ halted' = (halted \/ current.halt)
    /\ UNCHANGED <<Rest, queue, current, sdkClosing, sdkClosed, faulted, future, stopReport>>

\* The native call returns: code 0, another code, or an exception.
SdkReturns ==
    /\ owner = "calling" /\ owner' = "returned"
    /\ \E f \in {"ok", "bad"} : future' = Deliver(current, f)
    /\ UNCHANGED <<Rest, queue, current, sdkClosing, sdkClosed, faulted, historyVars>>

\* The owner faults the transport when a motion took too long.
OwnerReturns ==
    /\ owner = "returned" /\ owner' = "idle" /\ current' = NoCall
    /\ faulted' \in {faulted, Motion(current.method) \/ faulted}
    /\ UNCHANGED <<Rest, queue, sdkClosing, sdkClosed, future, historyVars>>

\* The loop ends at the None of close(); nothing is behind it.
OwnerExits ==
    /\ owner = "idle" /\ queue # <<>> /\ Head(queue) = NoCall
    /\ owner' = "exited" /\ queue' = <<>> /\ sdkClosing' = TRUE /\ sdkClosed' = TRUE
    /\ UNCHANGED <<Rest, current, faulted, future, historyVars>>

OwnerStep == OwnerTakes \/ OwnerRefuses \/ OwnerCalls \/ OwnerReturns \/ OwnerExits

-----------------------------------------------------------------------------
(* The motion worker: MotionLease.run and _motion_worker.                  *)

WorkerAlive == worker \notin {"none", "done"}
WorkerRest == <<ready, process, closed, opVars, stopEvent, elapsed, adapterLease,
                historyVars>>

\* The control loop's tests; require_ready may fail at any of them.
LeaseOver == stopEvent \/ elapsed \/ ~ready

WorkerTests(from, to) ==
    /\ worker = from
    /\ \/ ~LeaseOver /\ worker' = to
       \/ worker' = "ending"    \* over, no heartbeat, target reached, or a bad robot state
    /\ UNCHANGED <<WorkerRest, lockVars, ownerVars, callVars>>

\* Mutant: the stop_event is not tested again under the command lock.
WorkerLocksUntested ==
    /\ worker = "checked" /\ commandLock = "none"
    /\ worker' = "moving" /\ commandLock' = "worker"
    /\ waiting' = [waiting EXCEPT !["worker"] = "entering"]
    /\ UNCHANGED <<WorkerRest, submitLock, ownerVars, future>>

\* Take the command lock and test stop_event once more.
WorkerLocks ==
    /\ worker = "checked" /\ commandLock = "none"
    /\ IF stopEvent
       THEN worker' = "ending" /\ UNCHANGED <<commandLock, waiting>>
       ELSE /\ worker' = "moving" /\ commandLock' = "worker"
            /\ waiting' = [waiting EXCEPT !["worker"] = "entering"]
    /\ UNCHANGED <<WorkerRest, submitLock, ownerVars, future>>

\* Whatever ended the loop, the lease ends with a StopMove.
WorkerStops ==
    /\ worker = "ending" /\ commandLock = "none"
    /\ worker' = "stopping" /\ commandLock' = "worker"
    /\ waiting' = [waiting EXCEPT !["worker"] = "entering"]
    /\ UNCHANGED <<WorkerRest, submitLock, ownerVars, future>>

WorkerSubmits ==
    /\ worker \in {"moving", "stopping"}
    /\ Submit("worker", IF worker = "moving" THEN "Move" ELSE "StopMove", FALSE)
    /\ UNCHANGED <<WorkerRest, worker, commandLock>>

\* The call is over and the command lock given up.
WorkerResumes ==
    /\ worker \in {"moving", "stopping"} /\ waiting["worker"] \in {"ok", "bad"}
    /\ worker' = IF worker = "stopping" THEN "done"
                 ELSE IF waiting["worker"] = "ok" THEN "loop" ELSE "ending"
    /\ waiting' = [waiting EXCEPT !["worker"] = "out"]
    /\ commandLock' = "none"
    /\ adapterLease' = IF worker = "stopping" /\ adapterLease = "current" THEN "stale" ELSE adapterLease
    /\ UNCHANGED <<ready, process, closed, opVars, stopEvent, elapsed, historyVars,
                   submitLock, ownerVars, future>>

WorkerStep ==
    \/ WorkerTests("begin", "loop") \/ WorkerTests("loop", "checked")
    \/ WorkerLocks \/ WorkerStops \/ WorkerSubmits \/ WorkerResumes \/ WaitStep("worker")

\* The clock: the duration of a lease passes.
LeaseElapses ==
    /\ WorkerAlive /\ ~elapsed /\ elapsed' = TRUE
    /\ UNCHANGED <<ready, process, closed, opVars, worker, stopEvent, lockVars,
                   ownerVars, callVars, adapterLease, historyVars>>

-----------------------------------------------------------------------------
(* Operations: ActionExecutor, one at a time under _lifecycle_lock.        *)

Admits == process = "serving" /\ op = "none" /\ Len(queue) < MaxQueue
ReadyForMotion == closed = "no" /\ ready
OpRest == <<process, leaseVars, adapterLease, sent, halted>>

\* execute(): a motion starts if none is alive.  The client may be the adapter,
\* which asks only if it has no lease, and may not get the answer.
StartMotion ==
    /\ Admits /\ ReadyForMotion /\ ~WorkerAlive
    /\ worker' = "begin"
    /\ stopEvent' = FALSE /\ elapsed' = FALSE
    /\ adapterLease' \in {adapterLease} \cup
                         (IF adapterLease = "none" THEN {"current"} ELSE {})
    /\ UNCHANGED <<ready, process, closed, opVars, lockVars, ownerVars, callVars, historyVars>>

\* The operations that cancel the motion begin by setting its stop_event.
OpBegins(o) ==
    /\ Admits
    /\ o = "posture" => ReadyForMotion
    /\ o = "close" => closed = "no"
    /\ op' = o /\ opAt' = "joining" /\ UNCHANGED opJoined
    /\ closed' = IF o = "close" THEN "closing" ELSE closed
    /\ stopEvent' = TRUE
    /\ UNCHANGED <<ready, process, worker, elapsed, lockVars, ownerVars, callVars,
                   adapterLease, historyVars>>

\* The worker ended, or the join timed out.
OpJoins ==
    /\ opAt = "joining"
    /\ opJoined' = ~WorkerAlive /\ opAt' = "stop"
    /\ UNCHANGED <<OpRest, op, ready, closed, lockVars, ownerVars, callVars, stopReport>>

\* Take the command lock for transport.stop() or transport.posture().
OpLocks(from, to) ==
    /\ opAt = from /\ commandLock = "none"
    /\ commandLock' = "op" /\ opAt' = to
    /\ waiting' = [waiting EXCEPT !["op"] = "entering"]
    /\ UNCHANGED <<OpRest, op, opJoined, ready, closed, submitLock, ownerVars, future, stopReport>>

OpSubmits ==
    /\ opAt \in {"stopping", "posturing"}
    /\ Submit("op", IF opAt = "posturing" THEN "Posture" ELSE "StopMove", op \in {"stop", "close"})
    /\ UNCHANGED <<OpRest, opVars, ready, closed, commandLock, stopReport>>

Called(at) == opAt = at /\ waiting["op"] \in {"ok", "bad"}
Returned == waiting' = [waiting EXCEPT !["op"] = "out"]
OpEnds == op' = "none" /\ opAt' = "out" /\ opJoined' = FALSE

\* Mutant: an unjoined worker does not count.
ConfirmedByCode == waiting["op"] = "ok"

\* "stopped": the SDK took the StopMove and the worker is gone.
Confirmed == waiting["op"] = "ok" /\ opJoined

\* Mutant: the adapter forgets its lease whatever the answer.
StopReturnsForgotten ==
    /\ Called("stopping") /\ op = "stop"
    /\ commandLock' = "none" /\ Returned /\ OpEnds
    /\ ready' = FALSE
    /\ stopReport' = IF Confirmed THEN "stopped" ELSE "unconfirmed"
    /\ adapterLease' \in {adapterLease, "none"}
    /\ UNCHANGED <<process, leaseVars, sent, halted, closed, submitLock, ownerVars, future>>

\* stop(): revoke the interlock and answer.  The adapter, if it asked and hears of
\* a confirmed stop, forgets its lease.
StopReturns ==
    /\ Called("stopping") /\ op = "stop"
    /\ commandLock' = "none" /\ Returned /\ OpEnds
    /\ ready' = FALSE
    /\ stopReport' = IF Confirmed THEN "stopped" ELSE "unconfirmed"
    /\ adapterLease' \in {adapterLease} \cup (IF Confirmed THEN {"none"} ELSE {})
    /\ UNCHANGED <<process, leaseVars, sent, halted, closed, submitLock, ownerVars, future>>

\* Mutant: the posture does not ask whether the worker was joined.
PostureStoppedUnjoined ==
    /\ Called("stopping") /\ op = "posture"
    /\ commandLock' = "none" /\ Returned
    /\ \/ ConfirmedByCode /\ ready' = FALSE /\ opAt' = "posture" /\ UNCHANGED <<op, opJoined>>
       \/ OpEnds /\ UNCHANGED ready
    /\ UNCHANGED <<OpRest, closed, submitLock, ownerVars, future, stopReport>>

\* _execute_posture: revoke the interlock before the call, whose outcome may stay unknown.
PostureStopped ==
    /\ Called("stopping") /\ op = "posture"
    /\ commandLock' = "none" /\ Returned
    /\ \/ Confirmed /\ ready' = FALSE /\ opAt' = "posture" /\ UNCHANGED <<op, opJoined>>
       \/ OpEnds /\ UNCHANGED ready    \* not confirmed, or the robot's state is stale
    /\ UNCHANGED <<OpRest, closed, submitLock, ownerVars, future, stopReport>>

PostureReturns ==
    /\ Called("posturing")
    /\ commandLock' = "none" /\ Returned /\ OpEnds
    /\ UNCHANGED <<OpRest, ready, closed, submitLock, ownerVars, future, stopReport>>

CloseStopped ==
    /\ Called("stopping") /\ op = "close"
    /\ commandLock' = "none" /\ Returned
    /\ ready' = FALSE /\ opAt' = "close"
    /\ UNCHANGED <<OpRest, op, opJoined, closed, submitLock, ownerVars, future, stopReport>>

\* SdkOwner.close: a last StopMove that no timeout withdraws.
FinalStop ==
    /\ opAt = "close" /\ submitLock = "none"
    /\ submitLock' = "op" /\ sdkClosing' = TRUE
    /\ queue' = Append(queue, [method |-> "StopMove", by |-> "op", halt |-> TRUE, waited |-> TRUE])
    /\ future' = [future EXCEPT !["op"] = "pending"]
    /\ waiting' = [waiting EXCEPT !["op"] = "waiting"]
    /\ opAt' = "final"
    /\ UNCHANGED <<OpRest, op, opJoined, ready, closed, commandLock, current, owner, sdkClosed,
                   faulted, stopReport>>

\* Confirmed or not, the transport is closed, and the owner told to end.
EndOwner ==
    /\ Called("final")
    /\ sdkClosed' = TRUE /\ queue' = Append(queue, NoCall)
    /\ Returned /\ opAt' = "ending"
    /\ UNCHANGED <<OpRest, op, opJoined, ready, closed, lockVars, current, owner, sdkClosing,
                   faulted, future, stopReport>>

\* The owner thread ended, or the join timed out.
CloseReturns ==
    /\ opAt = "ending"
    /\ closed' = "closed" /\ submitLock' = "none" /\ OpEnds
    /\ UNCHANGED <<OpRest, ready, commandLock, ownerVars, callVars, stopReport>>

OpStep ==
    \/ OpJoins \/ OpLocks("stop", "stopping") \/ OpLocks("posture", "posturing") \/ OpSubmits
    \/ StopReturns \/ PostureStopped \/ PostureReturns
    \/ CloseStopped \/ FinalStop \/ EndOwner \/ CloseReturns \/ WaitStep("op")

-----------------------------------------------------------------------------
(* The process.                                                            *)

Serve ==
    /\ process = "init" /\ owner = "idle" /\ process' = "serving"
    /\ UNCHANGED <<ready, closed, opVars, leaseVars, lockVars, ownerVars, callVars, adapterLease,
                   historyVars>>

\* The SDK could not be set up, or not in time; or the executor is closed.  The
\* daemon threads, handlers among them, and what they have in hand go with the process.
Exit ==
    /\ \/ process = "init" /\ owner # "idle"
       \/ process = "serving" /\ closed = "closed"
    /\ process' = "exited"
    /\ UNCHANGED <<ready, closed, opVars, leaseVars, lockVars, ownerVars, callVars, adapterLease,
                   historyVars>>

Restart ==
    /\ Restarts /\ process = "exited"
    /\ ready' \in BOOLEAN /\ process' = "init"
    /\ adapterLease' = IF adapterLease = "none" THEN "none" ELSE "stale"
    /\ closed' = "no" /\ op' = "none" /\ opAt' = "out" /\ opJoined' = FALSE
    /\ worker' = "none" /\ stopEvent' = FALSE /\ elapsed' = FALSE
    /\ commandLock' = "none" /\ submitLock' = "none"
    /\ queue' = <<>> /\ current' = NoCall /\ owner' = "init"
    /\ sdkClosing' = FALSE /\ sdkClosed' = FALSE /\ faulted' = FALSE
    /\ future' = [c \in Callers |-> "pending"] /\ waiting' = [c \in Callers |-> "out"]
    /\ sent' = "none" /\ halted' = FALSE /\ stopReport' = "none"

Next ==
    \/ process # "exited" /\ OwnerInit
    \/ process = "serving" /\ (WorkerStep \/ OpStep \/ OwnerStep \/ SdkReturns \/ LeaseElapses)
    \/ StartMotion
    \/ \E o \in {"posture", "stop", "close"} : OpBegins(o)
    \/ Serve \/ Exit \/ Restart

Spec == Init /\ [][Next]_vars

\* Threads run, waits end, clocks run; native calls may hang for ever.
FairSpec ==
    /\ Spec
    /\ WF_vars(process = "serving" /\ WorkerStep) /\ WF_vars(process = "serving" /\ OpStep)
    /\ WF_vars(process = "serving" /\ OwnerStep) /\ WF_vars(process = "serving" /\ LeaseElapses)

SdkAnswers == WF_vars(process = "serving" /\ SdkReturns)

-----------------------------------------------------------------------------
(* Properties.                                                             *)

CallIn(m) == current.method = m \/ \E i \in DOMAIN queue : queue[i].method = m

ExecutorTypeOK ==
    /\ ready \in BOOLEAN /\ process \in {"init", "serving", "exited"}
    /\ closed \in {"no", "closing", "closed"}
    /\ op \in {"none", "posture", "stop", "close"}
    /\ opAt \in {"out", "joining", "stop", "stopping", "posture", "posturing", "close", "final", "ending"}
    /\ opJoined \in BOOLEAN
    /\ worker \in WorkerStates
    /\ stopEvent \in BOOLEAN /\ elapsed \in BOOLEAN
    /\ adapterLease \in {"none", "current", "stale"}
    /\ stopReport \in {"none", "stopped", "unconfirmed"}

WaitsTypeOK ==
    /\ commandLock \in Callers \cup {"none"} /\ submitLock \in Callers \cup {"none"}
    /\ future \in [Callers -> Futures] /\ waiting \in [Callers -> WaitStates]

OwnerTypeOK ==
    /\ queue \in Seq(Calls \cup {NoCall}) /\ current \in Calls \cup {NoCall}
    /\ owner \in {"init", "idle", "taken", "calling", "returned", "exited"}
    /\ sdkClosing \in BOOLEAN /\ sdkClosed \in BOOLEAN /\ faulted \in BOOLEAN
    /\ sent \in Methods \cup {"none"} /\ halted \in BOOLEAN

(***************************************************************************)
(* The state stays in its domain; the queue holds the calls of the two     *)
(* callers, one left behind by each, and the None that ends the loop.      *)
(***************************************************************************)
TypeOK == ExecutorTypeOK /\ WaitsTypeOK /\ OwnerTypeOK

(***************************************************************************)
(* Once a StopMove of stop() or close() has been made, the SDK gets no     *)
(* Move and no posture until the agent is started again, whatever timed    *)
(* out, hung or was left in the queue before it.                           *)
(***************************************************************************)
NoMotionAfterStop == [][OwnerCalls /\ Motion(current.method) => ~halted]_vars

(***************************************************************************)
(* A stop() that answered stopped: true is true from then on: the worker   *)
(* is gone, no motion is in the FIFO or in the SDK, and the last native    *)
(* call was a StopMove.                                                    *)
(***************************************************************************)
StopReportHonest ==
    stopReport = "stopped" =>
        /\ ~WorkerAlive
        /\ ~CallIn("Move") /\ ~CallIn("Posture")
        /\ sent = "StopMove"

(***************************************************************************)
(* A posture call meets no motion: while one is in the FIFO or in the SDK  *)
(* no worker is alive and no Move is left anywhere.                        *)
(***************************************************************************)
PostureAlone == CallIn("Posture") => ~WorkerAlive /\ ~CallIn("Move")

(***************************************************************************)
(* The agent leaves a moving robot behind only when the SDK did not take   *)
(* the final StopMove and the transport is known to be faulted.            *)
(***************************************************************************)
ExitSafe == process = "exited" /\ sent = "Move" => faulted

(***************************************************************************)
(* A motion is over before anything is done that relies on it: a posture,  *)
(* or the end of the process (executor.py:204, sdk_owner.py:182).          *)
(***************************************************************************)
StopsComeFirst == PostureAlone /\ ExitSafe

(***************************************************************************)
(* The adapter forgets its velocity lease only when the lease's worker is  *)
(* gone: a running motion stays one the adapter will ask to stop.          *)
(***************************************************************************)
AdapterKeepsLiveLease ==
    [][adapterLease = "current" /\ adapterLease' = "none" => ~WorkerAlive]_vars

(***************************************************************************)
(* Every posture, stop and close ends, even when a native call hangs for   *)
(* ever: the caller's waits and joins are bounded.  And as long as native  *)
(* calls return, a robot that moves is stopped: the lease, the stop or the *)
(* close that ends the motion has its StopMove made after the last Move,   *)
(* although the transport may be faulted.                                  *)
(***************************************************************************)
OpsAndMotionsEnd ==
    /\ op # "none" ~> (op = "none" \/ process = "exited")
    /\ SdkAnswers => (sent = "Move" ~> sent # "Move" \/ process = "exited")
=============================================================================
