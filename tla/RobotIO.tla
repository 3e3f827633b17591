------------------------------ MODULE RobotIO ------------------------------
(***************************************************************************)
(* The I/O scheduler of one robot bus: RobotIOScheduler in                 *)
(* devices/execution/io.py.  Callers (arbiter worker, observation          *)
(* producer, hold and emergency-stop handlers) submit driver transactions; *)
(* one worker thread runs them; a driver call that has started cannot be   *)
(* interrupted, so a caller whose wait expires leaves the call behind and  *)
(* the bus is quarantined.  A preemptive stop runs in a thread of its own, *)
(* beside whatever the worker is doing.                                    *)
(*                                                                         *)
(* Each section of code that holds the condition variable's lock is one    *)
(* step; what happens outside it (the driver call, the expiry of a wait)   *)
(* is a step of its own.  Time is not counted: a timeout or a deadline may *)
(* expire at any moment.  The deque is kept as the set of waiting requests *)
(* and, for each of them, the set of requests ahead of it.                 *)
(***************************************************************************)
EXTENDS Naturals, FiniteSets

CONSTANTS
    Requests,              \* one member per call of execute, read or stop
    NoRequest,             \* the None of _active and _queued_stop
    MaxPendingOperations,  \* max_pending_operations
    MaxPendingReads,       \* max_pending_reads
    Submissions            \* the calls of execute, read and serialized stop considered

ASSUME RequestsAssumption == IsFiniteSet(Requests) /\ NoRequest \notin Requests
ASSUME LimitsAssumption == MaxPendingOperations \in Nat \ {0} /\ MaxPendingReads \in Nat

\* The calls the API admits: execute and read wait without bound, for a timeout
\* or up to a deadline (perhaps one already past); a stop always has a timeout;
\* only execute takes a cancel_event.
Budgets == {"none", "timeout", "deadline", "past"}
APICalls ==
    [op : {"execute"}, budget : Budgets, event : {"none", "clear"}]
      \cup [op : {"read"}, budget : Budgets, event : {"none"}]
      \cup [op : {"stop"}, budget : {"timeout"}, event : {"none"}]

ASSUME SubmissionsAssumption == Submissions \subseteq APICalls

VARIABLES
    \* what the caller asked for
    op,           \* "execute", "read", "stop" (serialized) or "preemptive"
    budget,       \* how long the caller waits: "none", "timeout", "deadline", or "past"
    event,        \* its cancel_event: "none", "clear" or "set"
    \* where the caller is, and what it was told
    phase, answer,
    \* the fields of _Request
    started, cancelled, detached, done, result,
    call,         \* what the request's driver callback has done
    \* the scheduler
    queue, ahead, queuedReads, queuedStop, active,
    closed, quarantined, lastStop,
    preCall,      \* the request whose preemptive callback is running
    stopLock,     \* the holder of _stop_lock
    closeReport   \* the status the last close() returned

callerVars == <<op, budget, event, phase, answer>>
requestVars == <<started, cancelled, detached, done, result, call>>
queueVars == <<queue, ahead, queuedReads, queuedStop>>
stopVars == <<quarantined, lastStop, preCall, stopLock>>
vars == <<callerVars, requestVars, queueVars, stopVars, active, closed, closeReport>>

Statuses == {"COMPLETED", "CANCELLED", "EXPIRED", "FAILED", "REJECTED", "UNKNOWN"}
Operations == {"none", "execute", "read", "stop", "preemptive"}
Events == {"none", "clear", "set"}
Phases == {"idle", "blocked", "waiting", "late", "noting", "answered"}

\* What one driver callback may do: raise, or return a value that says nothing
\* about the robot's motion, that it stopped, or that it did not.
Returns(o) == IF o \in {"stop", "preemptive"}
              THEN {"raised", "silent", "confirmed", "denied"}
              ELSE {"raised", "silent"}
Calls == {"none", "running", "raised", "silent", "confirmed", "denied"}
Confirmations == {"none", "silent", "confirmed", "denied"}

Init ==
    /\ op = [r \in Requests |-> "none"]
    /\ budget = [r \in Requests |-> "none"]
    /\ event = [r \in Requests |-> "none"]
    /\ phase = [r \in Requests |-> "idle"]
    /\ answer = [r \in Requests |-> "none"]
    /\ started = {} /\ cancelled = {} /\ detached = {} /\ done = {}
    /\ result = [r \in Requests |-> "none"]
    /\ call = [r \in Requests |-> "none"]
    /\ queue = {} /\ ahead = [r \in Requests |-> {}]
    /\ queuedReads = 0 /\ queuedStop = NoRequest /\ active = NoRequest
    /\ closed = FALSE /\ quarantined = FALSE /\ lastStop = "none"
    /\ preCall = NoRequest /\ stopLock = NoRequest /\ closeReport = "none"

-----------------------------------------------------------------------------
(* The deque.                                                              *)

\* Mutant: close() and a stop timeout discard the queued stop as well.
MotionAndStops(S) == S

\* Requests of S that are not stops: what a stop timeout and close() discard.
Motion(S) == {r \in S : op[r] # "stop"}
Reads(S) == {r \in S : op[r] = "read"}

\* Take the requests of S out of the deque.
Leave(S) ==
    /\ queue' = queue \ S
    /\ ahead' = [q \in Requests |-> IF q \in S THEN {} ELSE ahead[q] \ S]

\* Mutant: discarded reads are still counted as queued.
DiscardKeepsCount(status) ==
    LET M == Motion(queue) IN
    /\ Leave(M)
    /\ cancelled' = cancelled \cup M
    /\ result' = [r \in Requests |-> IF r \in M THEN status ELSE result[r]]
    /\ done' = done \cup M
    /\ UNCHANGED <<queuedReads, queuedStop>>

\* Drop queued reads and actions, telling each waiting caller the status.
Discard(status) ==
    LET M == Motion(queue) IN
    /\ Leave(M)
    /\ queuedReads' = queuedReads - Cardinality(Reads(M))
    /\ cancelled' = cancelled \cup M
    /\ result' = [r \in Requests |-> IF r \in M THEN status ELSE result[r]]
    /\ done' = done \cup M
    /\ UNCHANGED queuedStop

\* appendleft for a stop, append for the others.
Enqueue(r, o) ==
    /\ queue' = queue \cup {r}
    /\ ahead' = IF o = "stop"
                THEN [q \in Requests |-> IF q \in queue THEN ahead[q] \cup {r} ELSE ahead[q]]
                ELSE [ahead EXCEPT ![r] = queue]
    /\ queuedReads' = queuedReads + (IF o = "read" THEN 1 ELSE 0)
    /\ queuedStop' = IF o = "stop" THEN r ELSE queuedStop

-----------------------------------------------------------------------------
(* Callers of execute, read and the serialized stop: _submit.              *)

ActiveIsStop == active # NoRequest /\ op[active] = "stop"

\* One waiting or running stop is enough; reads and operations are bounded.
Full(o) ==
    \/ o = "stop" /\ (queuedStop # NoRequest \/ ActiveIsStop)
    \/ o = "read" /\ queuedReads >= MaxPendingReads
    \/ o # "stop" /\ Cardinality(queue) >= MaxPendingOperations

\* The admission checks in the order the code makes them.
Admission(s) ==
    IF s.budget = "past" THEN "EXPIRED"
    ELSE IF closed THEN "REJECTED"
    ELSE IF s.op # "stop" /\ (preCall # NoRequest \/ quarantined) THEN "UNKNOWN"
    ELSE IF Full(s.op) THEN "REJECTED" ELSE "queued"

Submit(r, s) ==
    /\ phase[r] = "idle"
    /\ op' = [op EXCEPT ![r] = s.op]
    /\ budget' = [budget EXCEPT ![r] = s.budget]
    /\ event' = [event EXCEPT ![r] = s.event]
    /\ \/ /\ Admission(s) # "queued"
          /\ phase' = [phase EXCEPT ![r] = "answered"]
          /\ answer' = [answer EXCEPT ![r] = Admission(s)]
          /\ UNCHANGED queueVars
       \/ /\ Admission(s) = "queued"
          /\ phase' = [phase EXCEPT ![r] = "waiting"]
          /\ Enqueue(r, s.op)
          /\ UNCHANGED answer
    /\ UNCHANGED <<requestVars, stopVars, active, closed, closeReport>>

\* A caller's deadline passes, and the owner of a cancel_event sets it.
DeadlinePasses(r) ==
    /\ budget[r] = "deadline" /\ phase[r] # "answered"
    /\ budget' = [budget EXCEPT ![r] = "past"]
    /\ UNCHANGED <<op, event, phase, answer, requestVars, queueVars, stopVars, active, closed, closeReport>>

SetCancelEvent(r) ==
    /\ event[r] = "clear" /\ phase[r] # "answered"
    /\ event' = [event EXCEPT ![r] = "set"]
    /\ UNCHANGED <<op, budget, phase, answer, requestVars, queueVars, stopVars, active, closed, closeReport>>

Tell(r, status) ==
    /\ phase' = [phase EXCEPT ![r] = "answered"]
    /\ answer' = [answer EXCEPT ![r] = status]
    /\ UNCHANGED <<op, budget, event>>

\* done.wait returned true.
WaitReturns(r) ==
    /\ op[r] # "preemptive" /\ phase[r] = "waiting" /\ r \in done
    /\ Tell(r, result[r])
    /\ UNCHANGED <<requestVars, queueVars, stopVars, active, closed, closeReport>>

\* done.wait returned false; the lock is taken only later.
WaitExpires(r) ==
    /\ phase[r] = "waiting" /\ r \notin done
    /\ budget[r] \in {"timeout", "past"}
    /\ phase' = [phase EXCEPT ![r] = "late"]
    /\ UNCHANGED <<op, budget, event, answer, requestVars, queueVars, stopVars, active, closed, closeReport>>

\* The wait expired before the worker took the request: withdraw it.
LateNotStarted(r) ==
    /\ op[r] \in {"execute", "read"} /\ phase[r] = "late" /\ r \notin started
    /\ cancelled' = cancelled \cup {r}
    /\ Leave({r})
    /\ queuedReads' = queuedReads - Cardinality(Reads({r} \cap queue))
    /\ Tell(r, IF event[r] # "none" THEN "CANCELLED" ELSE "UNKNOWN")
    /\ UNCHANGED <<started, detached, done, result, call, queuedStop, stopVars, active, closed, closeReport>>

\* Mutant: queued motion survives the quarantine.
LateKeepsMotion(r) ==
    /\ op[r] # "preemptive" /\ phase[r] = "late"
    /\ r \in started \/ op[r] = "stop"
    /\ quarantined' = TRUE
    /\ detached' = detached \cup {r}
    /\ Tell(r, "UNKNOWN")
    /\ UNCHANGED <<started, cancelled, done, result, call, queueVars, lastStop, preCall, stopLock, active, closed, closeReport>>

\* It expired with the call in the driver, or the request is a stop: the outcome
\* is unknown, the bus is quarantined and queued motion is discarded.
LateStarted(r) ==
    /\ op[r] # "preemptive" /\ phase[r] = "late"
    /\ r \in started \/ op[r] = "stop"
    /\ quarantined' = TRUE
    /\ Discard("UNKNOWN")
    /\ detached' = detached \cup {r}
    /\ Tell(r, "UNKNOWN")
    /\ UNCHANGED <<started, call, lastStop, preCall, stopLock, active, closed, closeReport>>

-----------------------------------------------------------------------------
(* Callers of the preemptive stop: _preemptive_stop.                       *)

PreemptiveCall(r) ==
    /\ phase[r] = "idle"
    /\ op' = [op EXCEPT ![r] = "preemptive"]
    /\ budget' = [budget EXCEPT ![r] = "timeout"]
    /\ phase' = [phase EXCEPT ![r] = "blocked"]
    /\ UNCHANGED <<event, answer, requestVars, queueVars, stopVars, active, closed, closeReport>>

\* _stop_lock is free: refuse, or start the callback in its own thread.
PreemptiveEnter(r) ==
    /\ phase[r] = "blocked" /\ stopLock = NoRequest
    /\ IF closed \/ preCall # NoRequest \/ queuedStop # NoRequest
       THEN Tell(r, "REJECTED") /\ UNCHANGED <<call, preCall, stopLock>>
       ELSE /\ preCall' = r /\ stopLock' = r
            /\ call' = [call EXCEPT ![r] = "running"]
            /\ phase' = [phase EXCEPT ![r] = "waiting"]
            /\ UNCHANGED <<op, budget, event, answer>>
    /\ UNCHANGED <<started, cancelled, detached, done, result, queueVars, quarantined, lastStop, active, closed, closeReport>>

PreemptiveReturns(r, v) ==
    /\ preCall = r /\ preCall' = NoRequest
    /\ call' = [call EXCEPT ![r] = v]
    /\ done' = done \cup {r}
    /\ UNCHANGED <<callerVars, started, cancelled, detached, result, queueVars, quarantined, lastStop, stopLock, active, closed, closeReport>>

\* A driver error carries no value, hence no confirmation.
StopConfirmation(v) == IF v = "raised" THEN "silent" ELSE v
StatusOf(v) == IF v = "raised" THEN "FAILED" ELSE "COMPLETED"

PreemptiveAnswer(r) ==
    /\ op[r] = "preemptive" /\ phase[r] = "waiting" /\ r \in done
    /\ lastStop' = StopConfirmation(call[r])
    /\ \/ /\ call[r] \in {"raised", "denied"}
          /\ quarantined' = TRUE
          /\ Discard("UNKNOWN")
       \/ /\ call[r] \notin {"raised", "denied"}
          /\ UNCHANGED <<quarantined, queueVars, cancelled, result, done>>
    /\ Tell(r, StatusOf(call[r]))
    /\ stopLock' = NoRequest
    /\ UNCHANGED <<started, detached, call, preCall, active, closed, closeReport>>

\* The wait for the callback expired.  The result is recorded in
\* _last_stop_result after the condition's lock was given back.
PreemptiveLate(r) ==
    /\ op[r] = "preemptive" /\ phase[r] = "late"
    /\ quarantined' = TRUE
    /\ Discard("UNKNOWN")
    /\ phase' = [phase EXCEPT ![r] = "noting"]
    /\ UNCHANGED <<op, budget, event, answer, started, detached, call, lastStop, preCall, stopLock, active, closed, closeReport>>

\* Mutant: the timeout path does not give _stop_lock back.
PreemptiveNoteKeepsLock(r) ==
    /\ phase[r] = "noting"
    /\ lastStop' = "silent"
    /\ Tell(r, "UNKNOWN")
    /\ UNCHANGED <<requestVars, queueVars, quarantined, preCall, stopLock, active, closed, closeReport>>

PreemptiveNote(r) ==
    /\ phase[r] = "noting"
    /\ lastStop' = "silent"
    /\ Tell(r, "UNKNOWN")
    /\ stopLock' = NoRequest
    /\ UNCHANGED <<requestVars, queueVars, quarantined, preCall, active, closed, closeReport>>

-----------------------------------------------------------------------------
(* The worker thread: _run.  The branch for a popped request that is       *)
(* already cancelled is left out: QueueConsistent shows it is never taken. *)

Pop(r) ==
    /\ active = NoRequest
    /\ r \in queue /\ ahead[r] = {}
    /\ preCall = NoRequest \/ closed
    /\ Leave({r})
    /\ queuedReads' = queuedReads - Cardinality(Reads({r}))
    /\ queuedStop' = IF queuedStop = r THEN NoRequest ELSE queuedStop
    /\ active' = r
    /\ started' = started \cup {r}
    /\ UNCHANGED <<callerVars, cancelled, detached, done, result, call, stopVars, closed, closeReport>>

\* The locked epilogue of one transaction.
Settle(r, status) ==
    /\ active' = NoRequest
    /\ result' = [result EXCEPT ![r] = status]
    /\ done' = IF r \in detached THEN done ELSE done \cup {r}

\* The request expired or was cancelled while it waited: the driver is not called.
Skip(r) ==
    /\ active = r /\ call[r] = "none"
    /\ \/ budget[r] = "past" /\ Settle(r, "EXPIRED")
       \/ budget[r] # "past" /\ event[r] = "set" /\ Settle(r, "CANCELLED")
    /\ UNCHANGED <<callerVars, started, cancelled, detached, call, queueVars, stopVars, closed, closeReport>>

Invoke(r) ==
    /\ active = r /\ call[r] = "none"
    /\ budget[r] # "past" /\ event[r] # "set"
    /\ call' = [call EXCEPT ![r] = "running"]
    /\ UNCHANGED <<callerVars, started, cancelled, detached, done, result, queueVars, stopVars, active, closed, closeReport>>

\* The driver call returns or raises; a failed or denied stop quarantines the bus.
CallReturns(r, v) ==
    /\ active = r /\ call[r] = "running"
    /\ call' = [call EXCEPT ![r] = v]
    /\ Settle(r, StatusOf(v))
    /\ IF op[r] = "stop"
       THEN /\ lastStop' = StopConfirmation(v)
            /\ quarantined' = (quarantined \/ v \in {"raised", "denied"})
       ELSE UNCHANGED <<lastStop, quarantined>>
    /\ UNCHANGED <<callerVars, started, cancelled, detached, queueVars, preCall, stopLock, closed, closeReport>>

-----------------------------------------------------------------------------
(* recover(stop_confirmed=True), and close().                              *)

Recover ==
    /\ active = NoRequest /\ preCall = NoRequest
    /\ quarantined /\ lastStop = "confirmed"
    /\ quarantined' = FALSE
    /\ UNCHANGED <<callerVars, requestVars, queueVars, lastStop, preCall, stopLock, active, closed, closeReport>>

\* close() keeps the one queued stop and discards the rest.
Close ==
    /\ ~closed /\ closed' = TRUE
    /\ Discard("CANCELLED")
    /\ UNCHANGED <<callerVars, started, detached, call, stopVars, active, closeReport>>

\* Mutant: a preemptive stop in flight is overlooked.
DrainedIgnoringPreemptive == active = NoRequest /\ queue = {}

Drained == active = NoRequest /\ queue = {} /\ preCall = NoRequest

\* The join ends (the worker exited, or wait_s elapsed), or close() is called
\* again: it reports whether the bus is drained.
ReportClose ==
    /\ closed
    /\ closeReport' = IF Drained THEN "COMPLETED" ELSE "UNKNOWN"
    /\ UNCHANGED <<callerVars, requestVars, queueVars, stopVars, active, closed>>

-----------------------------------------------------------------------------

CallerStep(r) ==
    \/ \E s \in Submissions : Submit(r, s)
    \/ PreemptiveCall(r)
    \/ DeadlinePasses(r)
    \/ SetCancelEvent(r)

\* What a caller's own thread does once its call is under way.
CallerReturns(r) ==
    \/ WaitReturns(r) \/ WaitExpires(r) \/ LateNotStarted(r) \/ LateStarted(r)
    \/ PreemptiveEnter(r) \/ PreemptiveAnswer(r) \/ PreemptiveLate(r) \/ PreemptiveNote(r)

Worker(r) == Pop(r) \/ Skip(r) \/ Invoke(r)

\* The robot's SDK.
Driver(r) ==
    \E v \in Returns(op[r]) : CallReturns(r, v) \/ PreemptiveReturns(r, v)

Next ==
    \/ \E r \in Requests : CallerStep(r) \/ CallerReturns(r) \/ Worker(r) \/ Driver(r)
    \/ Recover \/ Close \/ ReportClose

Spec == Init /\ [][Next]_vars

\* Threads that can run do run; the SDK may hang for ever.
FairSpec ==
    /\ Spec
    /\ \A r \in Requests : WF_vars(CallerReturns(r)) /\ WF_vars(Worker(r))

\* Every SDK call returns in the end.
DriverAnswers == \A r \in Requests : WF_vars(Driver(r))

-----------------------------------------------------------------------------
(* Properties.                                                             *)

\* Every variable of the scheduler keeps its type.
TypeOK ==
    /\ op \in [Requests -> Operations]
    /\ budget \in [Requests -> Budgets]
    /\ event \in [Requests -> Events]
    /\ phase \in [Requests -> Phases]
    /\ answer \in [Requests -> Statuses \cup {"none"}]
    /\ started \subseteq Requests /\ cancelled \subseteq Requests
    /\ detached \subseteq Requests /\ done \subseteq Requests
    /\ result \in [Requests -> Statuses \cup {"none"}]
    /\ call \in [Requests -> Calls]
    /\ queue \subseteq Requests /\ ahead \in [Requests -> SUBSET Requests]
    /\ queuedReads \in Nat
    /\ queuedStop \in Requests \cup {NoRequest}
    /\ active \in Requests \cup {NoRequest}
    /\ closed \in BOOLEAN /\ quarantined \in BOOLEAN
    /\ lastStop \in Confirmations
    /\ preCall \in Requests \cup {NoRequest}
    /\ stopLock \in Requests \cup {NoRequest}
    /\ closeReport \in {"none", "COMPLETED", "UNKNOWN"}

\* The deque, its read counter and its stop pointer never drift apart, whichever
\* of the five places that remove requests ran last: _queued_reads counts the
\* waiting reads and stays in its limit, a waiting stop is the one _queued_stop
\* names and is in front of everything, the backlog is bounded, and nobody is
\* left waiting who was already cancelled, started or answered.
QueueConsistent ==
    /\ queuedReads = Cardinality(Reads(queue)) /\ queuedReads <= MaxPendingReads
    /\ {r \in queue : op[r] = "stop"} = {queuedStop} \ {NoRequest}
    /\ \A q \in queue : queuedStop # NoRequest /\ q # queuedStop => queuedStop \in ahead[q]
    /\ Cardinality(Motion(queue)) <= MaxPendingOperations
    /\ queue \cap (cancelled \cup started \cup done) = {}
    /\ \A q \in Motion(queue) : phase[q] \in {"waiting", "late"}

\* What a caller is told about its call is true, then and for ever after: a call
\* reported cancelled, rejected or expired never reaches the driver, however late
\* the worker, and one reported completed or failed is over.
AnswersTruthful ==
    \A r \in Requests :
        /\ answer[r] \in {"CANCELLED", "REJECTED", "EXPIRED"} => call[r] = "none"
        /\ answer[r] \in {"COMPLETED", "FAILED"} => call[r] \notin {"none", "running"}

\* While a read or an action whose caller gave up is still with the worker, the bus
\* is quarantined and nothing but a stop waits behind it.
AbandonedCallQuarantines ==
    active # NoRequest /\ active \in detached /\ op[active] # "stop" =>
        quarantined /\ Motion(queue) = {}

\* close() reports COMPLETED only for a bus on which no driver call is in flight
\* and, from then on, none ever starts: the owner may hand the device on.
CloseReportHonest ==
    closeReport = "COMPLETED" =>
        /\ Drained
        /\ \A r \in Requests : call[r] # "running"

\* Whenever the worker takes a read or an action, no stop is waiting and no
\* preemptive stop is in flight: stops overtake everything queued.
NoMotionDuringStop ==
    [][\A r \in Requests : Pop(r) /\ op[r] # "stop" =>
           preCall = NoRequest /\ \A q \in queue : op[q] # "stop"]_vars

\* Every stop call is answered, even if the SDK hangs for ever in the active call
\* and in the stop itself.
StopCallAnswered ==
    \A r \in Requests :
        op[r] \in {"stop", "preemptive"} ~> phase[r] = "answered"

\* A queued stop reaches the driver if SDK calls return, although its caller has
\* given up, and although the scheduler is closed meanwhile.
QueuedStopInvoked ==
    DriverAnswers => \A r \in Requests : queuedStop = r ~> call[r] # "none"

\* Both of what the code promises of stops, at a time of need: an answer, and the stop.
StopsGetThrough == StopCallAnswered /\ QueuedStopInvoked

-----------------------------------------------------------------------------
(* The scheduler implements the abstract port.                             *)

Port == INSTANCE RobotPort WITH
            accepted <- queue, taken <- active, urgent <- preCall,
            ended <- (closeReport = "COMPLETED")

\* What execute, read, stop and close promise their callers holds of every run,
\* whatever the deque, the flags of a request, the locks and the expired waits do
\* behind it: a call is taken once or discarded for good, stops are never
\* discarded and never overtaken, no answer turns out to be untrue, and nothing
\* reaches the driver of a bus that close() reported drained.
PortKept == Port!Spec

=============================================================================
