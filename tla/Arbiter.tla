------------------------------ MODULE Arbiter ------------------------------
(***************************************************************************)
(* The control arbiter of one robot: RobotControlArbiter in                *)
(* devices/execution/arbitration.py.  It owns the authority (model, manual *)
(* or latched emergency stop), the bounded FIFO of automatic commands, the *)
(* single slot for a manual command, the token of the automatic task and   *)
(* the deadman.  A worker thread feeds commands to the port; a watchdog    *)
(* thread expires the deadman; service threads take over, release, hold,   *)
(* stop, reset and close, each by changing the state under the lock,       *)
(* stopping the robot WITHOUT the lock, and taking the lock again.         *)
(*                                                                         *)
(* Each locked section is one step; so is each step of the port, which is  *)
(* the scheduler of module RobotIO seen from outside (its timeouts, driver *)
(* errors and quarantine are the constant Faulty).  Time is not counted:   *)
(* the deadman, a deadline or a wait may expire at any moment.             *)
(***************************************************************************)
EXTENDS Naturals, Sequences, FiniteSets

CONSTANTS
    Tickets, NoTicket,     \* one ticket per accepted command
    Tasks, NoTask,         \* one token per automatic task; manual tickets carry none
    Threads, NoThread,     \* service threads calling the arbiter
    Worker, Watchdog,      \* the arbiter's own threads
    QueueCapacity,         \* model_queue_capacity
    Preemptive,            \* the emergency stop policy is PREEMPTIVE
    Faulty,                \* driver calls may fail, or outlast the wait for them
    OverlappingResets,     \* reset may be called while a reset is in progress
    MaxOperations          \* bound: calls made by service threads

Agents == Threads \cup {Worker, Watchdog}

ASSUME NamesAssumption ==
    /\ NoTicket \notin Tickets /\ NoTask \notin Tasks /\ NoThread \notin Agents
    /\ Worker \notin Threads /\ Watchdog \notin Threads /\ Worker # Watchdog
ASSUME BoundsAssumption ==
    /\ QueueCapacity \in Nat \ {0} /\ MaxOperations \in Nat
    /\ Preemptive \in BOOLEAN /\ Faulty \in BOOLEAN /\ OverlappingResets \in BOOLEAN

VARIABLES
    authority, deadman,
    holdFlag,       \* _hold_in_progress
    closed,
    modelTask,      \* _model_task_cancel
    tokenSet,       \* the task tokens that are set
    begun,          \* the tasks begin_automatic_task accepted
    status, owner,  \* of each ticket; owner NoTask: a manual command
    cancelled,      \* the tickets whose cancel_event is set
    modelQueue, manualPending, active,
    worker,         \* where the worker thread is with the active ticket
    driver,         \* the ticket whose command is with the driver
    portClosed,
    job, stop,      \* each thread's operation, and the stop it asked the port for
    finishing,      \* the token a finish_automatic_work will detach
    fresh,          \* threads whose release or reset began after the last latch
    manualLock,     \* holder of the control service's _manual_operation_lock
    closeReport,    \* how close() ended
    operations,     \* calls made so far
    \* histories
    overtaken,      \* tasks begun before the last takeover or latch
    unanswered      \* the latch was set and no reset has begun since

authorityVars == <<authority, deadman, holdFlag, closed>>
taskVars == <<modelTask, tokenSet, begun>>
pendingVars == <<status, owner, modelQueue, manualPending>>
threadVars == <<job, stop, finishing, fresh, manualLock, operations>>
portVars == <<driver, portClosed>>
historyVars == <<overtaken, unanswered>>
vars == <<authorityVars, taskVars, pendingVars, cancelled, active, worker, portVars,
          threadVars, closeReport, historyVars>>

Authorities == {"MODEL", "MANUAL", "ESTOP"}
\* DROPPED: a ticket that left its queue unstarted (CLEARED, REPLACED or EXPIRED).
Terminal == {"EXECUTED", "CANCELLED", "DROPPED", "FAILED"}
Statuses == Terminal \cup {"none", "QUEUED", "RUNNING"}
Jobs == {"none", "hold", "joining", "release", "finish", "detach", "estop",
         "reset", "closing", "close", "port"}
WorkerStates == {"idle", "ready", "executing", "returned", "raised", "failing", "stopping"}
Stops == {"none", "asked", "queued", "driving", "ok", "bad"}

Init ==
    /\ authority = "MODEL" /\ deadman = FALSE
    /\ holdFlag = FALSE /\ closed = FALSE
    /\ modelTask = NoTask /\ tokenSet = {} /\ begun = {}
    /\ status = [x \in Tickets |-> "none"] /\ owner = [x \in Tickets |-> NoTask]
    /\ cancelled = {} /\ modelQueue = <<>>
    /\ manualPending = NoTicket /\ active = NoTicket
    /\ worker = "idle" /\ driver = NoTicket /\ portClosed = FALSE
    /\ job = [t \in Agents |-> "none"] /\ stop = [t \in Agents |-> "none"]
    /\ finishing = [t \in Agents |-> NoTask] /\ fresh = {}
    /\ manualLock = NoThread /\ closeReport = "none" /\ operations = 0
    /\ overtaken = {} /\ unanswered = FALSE

-----------------------------------------------------------------------------
(* What the locked sections share.                                         *)

Elements(q) == {q[i] : i \in DOMAIN q}
Automatic(x) == x \in Tickets /\ owner[x] # NoTask
Manual(x) == x \in Tickets /\ owner[x] = NoTask

\* _cancel_active(): the task's token and the active command's event.
CancelActive ==
    /\ tokenSet' = tokenSet \cup ({modelTask} \ {NoTask})
    /\ cancelled' = cancelled \cup ({active} \ {NoTicket})

\* _cancel_active(MANUAL): the active command if it is a manual one.
CancelActiveManual ==
    /\ cancelled' = cancelled \cup {x \in {active} : Manual(x)}
    /\ UNCHANGED tokenSet

CancelActiveAutomatic == cancelled' = cancelled \cup {x \in {active} : Automatic(x)}

Finish(S, s) == [x \in Tickets |-> IF x \in S THEN s ELSE status[x]]

ClearModelQueue ==
    /\ status' = Finish(Elements(modelQueue), "DROPPED")
    /\ modelQueue' = <<>>
    /\ UNCHANGED <<owner, manualPending>>

ClearManual ==
    /\ status' = Finish({manualPending}, "DROPPED")
    /\ manualPending' = NoTicket
    /\ UNCHANGED <<owner, modelQueue>>

\* Mutant: the manual slot survives.
ClearOnlyModel ==
    /\ status' = Finish(Elements(modelQueue), "DROPPED")
    /\ modelQueue' = <<>>
    /\ UNCHANGED <<owner, manualPending>>

ClearBoth ==
    /\ status' = Finish(Elements(modelQueue) \cup {manualPending}, "DROPPED")
    /\ modelQueue' = <<>> /\ manualPending' = NoTicket
    /\ UNCHANGED owner

\* Latch the emergency stop: emergency_stop(), and a hold that failed.
Latch ==
    /\ authority' = "ESTOP" /\ deadman' = FALSE
    /\ fresh' = {}
    /\ CancelActive /\ ClearBoth
    /\ overtaken' = begun /\ unanswered' = TRUE

\* A service thread starts an operation; the manual ones are serialized by the
\* control service, emergency stop and reset are not.
Enter(t) ==
    /\ t \in Threads /\ job[t] = "none"
    /\ operations < MaxOperations /\ operations' = operations + 1
    /\ ~closed
EnterManual(t) == Enter(t) /\ manualLock = NoThread /\ manualLock' = t

\* Thread t goes on to stop the robot on behalf of operation j.
AskStop(t, j) ==
    /\ job' = [job EXCEPT ![t] = j]
    /\ stop' = [stop EXCEPT ![t] = "asked"]

\* The operation of t ends.
Return(t) ==
    /\ job' = [job EXCEPT ![t] = "none"]
    /\ stop' = [stop EXCEPT ![t] = "none"]
    /\ finishing' = [finishing EXCEPT ![t] = NoTask]
    /\ manualLock' = IF manualLock = t THEN NoThread ELSE manualLock
    /\ UNCHANGED operations

StopEnded(t) == stop[t] \in {"ok", "bad"}

-----------------------------------------------------------------------------
(* Automatic tasks.                                                        *)

\* begin_automatic_task.  Whether the new token is set is read before the lock is
\* taken, so it may be set by the time the task becomes the current one.
BeginTask(k) ==
    /\ k \notin begun /\ ~closed /\ authority = "MODEL"
    /\ tokenSet' = tokenSet \cup ({modelTask} \ {NoTask})
    /\ CancelActiveAutomatic /\ ClearModelQueue
    /\ modelTask' = k /\ begun' = begun \cup {k}
    /\ UNCHANGED <<authorityVars, active, worker, portVars, threadVars, closeReport, historyVars>>

\* The job registry, or the control service before a takeover, sets a task's token.
SetToken(k) ==
    /\ k \notin tokenSet /\ tokenSet' = tokenSet \cup {k}
    /\ UNCHANGED <<authorityVars, modelTask, begun, pendingVars, cancelled, active, worker,
                   portVars, threadVars, closeReport, historyVars>>

\* Mutant: a task that is current may submit although its token is set.
MaySubmitUncancelled(k) == k = modelTask

\* The task is the current one and was not cancelled.
MaySubmit(k) == k = modelTask /\ k \notin tokenSet

QueueHasRoom == Len(modelQueue) < QueueCapacity

\* submit, from an automatic source.
SubmitAutomatic(x, k) ==
    /\ status[x] = "none" /\ ~closed
    /\ MaySubmit(k)
    /\ authority = "MODEL" /\ QueueHasRoom
    /\ status' = [status EXCEPT ![x] = "QUEUED"]
    /\ owner' = [owner EXCEPT ![x] = k]
    /\ modelQueue' = Append(modelQueue, x)
    /\ UNCHANGED <<authorityVars, taskVars, manualPending, cancelled, active, worker, portVars,
                   threadVars, closeReport, historyVars>>

\* cancel_automatic_work: the tail of a direct execution, of an interrupted task, and
\* a client's cancel.  A stale token changes nothing.
CancelTask(t, k) ==
    /\ Enter(t) /\ k = modelTask
    /\ tokenSet' = tokenSet \cup {k}
    /\ cancelled' = cancelled \cup {x \in {active} : x \in Tickets /\ owner[x] = k}
    /\ ClearModelQueue
    /\ IF authority = "MODEL"
       THEN holdFlag' = TRUE /\ AskStop(t, "hold")
       ELSE UNCHANGED <<holdFlag, job, stop>>
    /\ UNCHANGED <<authority, deadman, closed, modelTask, begun, active, worker,
                   portVars, finishing, manualLock, fresh, closeReport, historyVars>>

\* finish_automatic_work: the tail of a task that ended normally.  The token it will
\* detach is remembered only if it was not set.
FinishTask(t, k) ==
    /\ Enter(t) /\ k = modelTask /\ authority = "MODEL"
    /\ CancelActiveAutomatic /\ ClearModelQueue
    /\ holdFlag' = TRUE
    /\ AskStop(t, "finish")
    /\ finishing' = [finishing EXCEPT ![t] = IF k \in tokenSet THEN NoTask ELSE k]
    /\ UNCHANGED <<authority, deadman, closed, taskVars, active, worker, portVars,
                   manualLock, fresh, closeReport, historyVars>>

\* The second locked section of finish_automatic_work.
DetachTask(t) ==
    /\ job[t] = "detach"
    /\ modelTask' = IF finishing[t] # NoTask /\ modelTask = finishing[t] THEN NoTask ELSE modelTask
    /\ Return(t)
    /\ UNCHANGED <<authorityVars, tokenSet, begun, pendingVars, cancelled, active, worker,
                   portVars, fresh, closeReport, historyVars>>

-----------------------------------------------------------------------------
(* Manual control.                                                         *)

\* acquire_manual: takes the authority first, then holds the robot or joins a hold
\* that is in progress.
AcquireManual(t) ==
    /\ EnterManual(t) /\ authority # "ESTOP"
    /\ authority' = "MANUAL" /\ deadman' = FALSE
    /\ CancelActive /\ ClearBoth
    /\ overtaken' = begun
    /\ holdFlag' = TRUE
    /\ IF holdFlag
       THEN job' = [job EXCEPT ![t] = "joining"] /\ UNCHANGED stop
       ELSE AskStop(t, "hold")
    /\ UNCHANGED <<closed, modelTask, begun, active, worker, portVars, finishing, fresh, closeReport,
                   unanswered>>

\* _wait_for_hold returns: normally, or raising the error of the hold it joined.
JoinEnds(t) ==
    /\ job[t] = "joining" /\ (~holdFlag \/ closed)
    /\ Return(t)
    /\ UNCHANGED <<authorityVars, taskVars, pendingVars, cancelled, active, worker, portVars,
                   fresh, closeReport, historyVars>>

ReleaseManual(t) ==
    /\ EnterManual(t) /\ authority # "ESTOP"
    /\ deadman' = FALSE
    /\ CancelActiveManual /\ ClearManual
    /\ holdFlag' = TRUE
    /\ AskStop(t, "release") /\ fresh' = fresh \cup {t}
    /\ UNCHANGED <<authority, closed, modelTask, begun, active, worker, portVars,
                   finishing, closeReport, historyVars>>

\* set_deadman(True).
PressDeadman ==
    /\ ~closed /\ manualLock = NoThread /\ authority = "MANUAL"
    /\ deadman' = TRUE
    /\ UNCHANGED <<authority, holdFlag, closed, taskVars, pendingVars, cancelled, active,
                   worker, portVars, threadVars, closeReport, historyVars>>

\* What set_deadman(False) and the watchdog do under the lock.
DropDeadman ==
    /\ deadman' = FALSE /\ holdFlag' = TRUE
    /\ CancelActiveManual /\ ClearManual

\* set_deadman(False).
ReleaseDeadman(t) ==
    /\ EnterManual(t) /\ authority = "MANUAL"
    /\ DropDeadman
    /\ AskStop(t, "hold")
    /\ UNCHANGED <<authority, closed, modelTask, begun, active, worker, portVars,
                   finishing, fresh, closeReport, historyVars>>

\* _watch_deadman: no heartbeat for manual_deadman_timeout_s.
DeadmanExpires ==
    /\ job[Watchdog] = "none" /\ ~closed
    /\ authority = "MANUAL" /\ deadman
    /\ DropDeadman
    /\ AskStop(Watchdog, "hold")
    /\ UNCHANGED <<authority, closed, modelTask, begun, active, worker, portVars,
                   finishing, manualLock, operations, fresh, closeReport, historyVars>>

\* submit, from the operator: the latest command replaces one that waits.
SubmitManual(x) ==
    /\ status[x] = "none" /\ ~closed /\ manualLock = NoThread
    /\ authority = "MANUAL" /\ deadman
    /\ status' = [Finish({manualPending}, "DROPPED") EXCEPT ![x] = "QUEUED"]
    /\ manualPending' = x
    /\ UNCHANGED <<authorityVars, taskVars, owner, modelQueue, cancelled, active, worker, portVars,
                   threadVars, closeReport, historyVars>>

-----------------------------------------------------------------------------
(* Hold, emergency stop, reset and close.                                  *)

Hold(t) ==
    /\ Enter(t)
    /\ CancelActive /\ ClearBoth
    /\ holdFlag' = TRUE
    /\ AskStop(t, "hold")
    /\ UNCHANGED <<authority, deadman, closed, modelTask, begun, active, worker, portVars,
                   finishing, manualLock, fresh, closeReport, historyVars>>

\* The locked section of emergency_stop.
EmergencyLatch(t) ==
    /\ Latch
    /\ holdFlag' = TRUE
    /\ AskStop(t, "estop")
    /\ UNCHANGED <<closed, modelTask, begun, active, portVars, finishing, manualLock,
                   closeReport>>

EmergencyStop(t) == Enter(t) /\ EmergencyLatch(t) /\ UNCHANGED worker

\* The stop's outcome does not matter for the state: the latch stays.
EmergencyStopReturns(t) ==
    /\ job[t] = "estop" /\ t # Worker /\ StopEnded(t)
    /\ holdFlag' = FALSE
    /\ Return(t)
    /\ UNCHANGED <<authority, deadman, closed, taskVars, pendingVars, cancelled, active,
                   worker, portVars, fresh, closeReport, historyVars>>

\* Mutant: a release ends the latch.
ReleasedUnlatched(t) == IF job[t] = "release" THEN "MODEL" ELSE authority

\* _finish_hold hands the authority on only while no emergency stop is latched.
ReleasedAuthority(t) ==
    IF job[t] = "release" /\ authority # "ESTOP" THEN "MODEL" ELSE authority

\* _finish_hold after a confirmed stop.
HoldSucceeds(t) ==
    /\ job[t] \in {"hold", "release", "finish"} /\ stop[t] = "ok"
    /\ authority' = ReleasedAuthority(t)
    /\ holdFlag' = FALSE
    /\ IF job[t] = "finish"
       THEN /\ job' = [job EXCEPT ![t] = "detach"]
            /\ stop' = [stop EXCEPT ![t] = "none"]
            /\ UNCHANGED <<finishing, manualLock, operations>>
       ELSE Return(t)
    /\ fresh' = fresh \ {t}
    /\ UNCHANGED <<deadman, closed, taskVars, pendingVars, cancelled, active, worker, portVars,
                   closeReport, historyVars>>

\* Mutant: _hold_in_progress stays set after an error.
HoldFailsHolding(t) ==
    /\ job[t] \in {"hold", "release", "finish"} /\ stop[t] = "bad"
    /\ Latch
    /\ Return(t)
    /\ UNCHANGED <<holdFlag, closed, modelTask, begun, active, worker, portVars, closeReport>>

\* _finish_hold after a stop that failed, or was refused because another one was
\* in progress: the arbiter latches.
HoldFails(t) ==
    /\ job[t] \in {"hold", "release", "finish"} /\ stop[t] = "bad"
    /\ Latch
    /\ holdFlag' = FALSE
    /\ Return(t)
    /\ UNCHANGED <<closed, modelTask, begun, active, worker, portVars, closeReport>>

\* reset_emergency_stop does not raise _hold_in_progress.  Nothing in the code keeps two
\* resets apart; OverlappingResets says whether the callers do.
Reset(t) ==
    /\ Enter(t) /\ authority = "ESTOP"
    /\ OverlappingResets \/ \A u \in Threads : job[u] # "reset"
    /\ AskStop(t, "reset") /\ fresh' = fresh \cup {t}
    /\ unanswered' = FALSE
    /\ UNCHANGED <<authorityVars, taskVars, pendingVars, cancelled, active, worker, portVars,
                   finishing, manualLock, closeReport, overtaken>>

\* The stop was confirmed and _estop_generation is what it was.
ResetAccepted(t) == stop[t] = "ok" /\ ~closed /\ t \in fresh

ResetReturns(t) ==
    /\ job[t] = "reset" /\ StopEnded(t)
    /\ IF ResetAccepted(t)
       THEN authority' = "MANUAL" /\ deadman' = FALSE
       ELSE UNCHANGED <<authority, deadman>>
    /\ Return(t) /\ fresh' = fresh \ {t}
    /\ UNCHANGED <<holdFlag, closed, taskVars, pendingVars, cancelled, active, worker,
                   portVars, closeReport, historyVars>>

\* close(): refuse everything from here on, then wait for a hold in progress.
Close(t) ==
    /\ Enter(t)
    /\ closed' = TRUE /\ deadman' = FALSE
    /\ CancelActive /\ ClearBoth
    /\ job' = [job EXCEPT ![t] = "closing"]
    /\ UNCHANGED <<authority, holdFlag, modelTask, begun, active, worker, portVars, stop,
                   finishing, fresh, manualLock, closeReport, historyVars>>

\* No hold is in progress: close() issues its own.
CloseHolds(t) ==
    /\ job[t] = "closing" /\ ~holdFlag
    /\ AskStop(t, "close")
    /\ UNCHANGED <<authorityVars, taskVars, pendingVars, cancelled, active, worker, portVars,
                   finishing, fresh, manualLock, operations, closeReport, historyVars>>

\* The port is closed whether or not the robot is known to have stopped.
ClosePort(t) ==
    /\ \/ job[t] = "closing" /\ holdFlag    \* waited a second in vain
       \/ job[t] = "close" /\ StopEnded(t)
    /\ portClosed' = TRUE
    /\ job' = [job EXCEPT ![t] = "port"]
    /\ UNCHANGED <<authorityVars, taskVars, pendingVars, cancelled, active, worker, driver, stop,
                   finishing, fresh, manualLock, operations, closeReport, historyVars>>

\* Nothing is left in the scheduler.
Drained == driver = NoTicket /\ \A t \in Agents : stop[t] \notin {"queued", "driving"}

\* Mutant: the outcome of the port's close is ignored.
ReportStopOnly(t) == stop[t] = "ok"

ReportClean(t) == stop[t] = "ok" /\ Drained

CloseReturns(t) ==
    /\ job[t] = "port"
    /\ closeReport' = IF ReportClean(t) THEN "clean" ELSE "error"
    /\ Return(t)
    /\ UNCHANGED <<authorityVars, taskVars, pendingVars, cancelled, active, worker, portVars,
                   fresh, historyVars>>

-----------------------------------------------------------------------------
(* The worker thread: _next_ticket and _run.                               *)

NextTicket ==
    IF holdFlag \/ closed \/ authority = "ESTOP" THEN NoTicket
    ELSE IF authority = "MANUAL" THEN (IF deadman THEN manualPending ELSE NoTicket)
    ELSE IF modelQueue # <<>> THEN Head(modelQueue) ELSE NoTicket

\* The ticket leaves its queue with the given status.
Take(x, s) ==
    /\ status' = [status EXCEPT ![x] = s]
    /\ IF authority = "MANUAL"
       THEN manualPending' = NoTicket /\ UNCHANGED modelQueue
       ELSE modelQueue' = Tail(modelQueue) /\ UNCHANGED manualPending
    /\ UNCHANGED owner

Dispatch(x) ==
    /\ worker = "idle" /\ x = NextTicket
    /\ owner[x] \notin tokenSet
    /\ Take(x, "RUNNING")
    /\ active' = x /\ worker' = "ready"
    /\ UNCHANGED <<authorityVars, taskVars, cancelled, portVars, threadVars, closeReport, historyVars>>

\* The task was cancelled, or else the command's deadline has passed.
DispatchNot(x) ==
    /\ worker = "idle" /\ x = NextTicket
    /\ Take(x, IF owner[x] \in tokenSet THEN "CANCELLED" ELSE "DROPPED")
    /\ UNCHANGED <<authorityVars, taskVars, cancelled, active, worker, portVars, threadVars,
                   closeReport, historyVars>>

\* The outcome of the active ticket is published and _active cleared.
Settle(s) ==
    /\ status' = [status EXCEPT ![active] = s]
    /\ active' = NoTicket /\ worker' = "idle"
    /\ UNCHANGED <<owner, modelQueue, manualPending, taskVars, cancelled, portVars>>

\* The command returned: a ticket cancelled meanwhile does not count as executed.
SettleReturned ==
    /\ worker = "returned"
    /\ Settle(IF active \in cancelled THEN "CANCELLED" ELSE "EXECUTED")
    /\ UNCHANGED <<authorityVars, threadVars, closeReport, historyVars>>

\* The command raised; if it was cancelled meanwhile, that is its outcome.
SettleCancelled ==
    /\ worker = "raised" /\ active \in cancelled
    /\ Settle("CANCELLED")
    /\ UNCHANGED <<authorityVars, threadVars, closeReport, historyVars>>

\* Otherwise the worker will stop the robot.
CommandFails ==
    /\ worker = "raised" /\ active \notin cancelled
    /\ worker' = "failing"
    /\ UNCHANGED <<authorityVars, taskVars, pendingVars, cancelled, active, portVars, threadVars,
                   closeReport, historyVars>>

WorkerStops ==
    /\ worker = "failing" /\ ~closed
    /\ EmergencyLatch(Worker)
    /\ worker' = "stopping"
    /\ UNCHANGED operations

\* emergency_stop returned, or refused because the arbiter was closed.
SettleFailed ==
    /\ \/ worker = "failing" /\ closed /\ UNCHANGED holdFlag
       \/ worker = "stopping" /\ StopEnded(Worker) /\ holdFlag' = FALSE
    /\ Settle("FAILED")
    /\ Return(Worker)
    /\ UNCHANGED <<authority, deadman, closed, fresh, closeReport, historyVars>>

-----------------------------------------------------------------------------
(* The port: RobotAdapterCommandPort over a RobotIOScheduler.              *)

\* Preemptive emergency stops run beside the scheduler's worker.
Serialized(t) == ~(Preemptive /\ job[t] = "estop")
InPort(t) == stop[t] \in {"queued", "driving"}

SetStop(t, s) ==
    /\ stop' = [stop EXCEPT ![t] = s]
    /\ UNCHANGED <<authorityVars, taskVars, pendingVars, cancelled, active, worker, portVars, job,
                   finishing, fresh, manualLock, operations, closeReport, historyVars>>

\* A second stop is refused while one waits or runs.
StopAdmitted(t) ==
    /\ stop[t] = "asked"
    /\ \/ /\ Serialized(t)
          /\ SetStop(t, IF portClosed \/ \E u \in Agents : Serialized(u) /\ InPort(u)
                        THEN "bad" ELSE "queued")
       \/ /\ ~Serialized(t)
          /\ \A u \in Agents : Serialized(u) \/ ~InPort(u)
          /\ SetStop(t, IF portClosed \/ \E u \in Agents : stop[u] = "queued"
                        THEN "bad" ELSE "driving")

\* The scheduler's worker takes the stop once the driver is free.
StopBegins(t) ==
    /\ stop[t] = "queued" /\ driver = NoTicket
    /\ portClosed \/ \A u \in Agents : stop[u] # "driving"
    /\ SetStop(t, "driving")

StopReturns(t) == stop[t] = "driving" /\ SetStop(t, "ok")

\* The driver raised, did not stop, or took longer than stop_timeout_s.
\* In the last case the scheduler still has the stop, which only module RobotIO follows.
StopFails(t) == Faulty /\ InPort(t) /\ SetStop(t, "bad")

BusFree == driver = NoTicket /\ \A t \in Agents : ~InPort(t)

WorkerMoves(w) ==
    /\ worker' = w
    /\ UNCHANGED <<authorityVars, taskVars, pendingVars, cancelled, active, portClosed, threadVars,
                   closeReport, historyVars>>

\* Mutant: the cancel_event is not looked at before the driver is called.
ExecuteRegardless ==
    /\ worker = "ready" /\ BusFree /\ ~portClosed
    /\ driver' = active
    /\ WorkerMoves("executing")

\* The driver is called unless the command was cancelled while it waited.
Execute ==
    /\ worker = "ready" /\ BusFree /\ ~portClosed
    /\ \/ active \notin cancelled /\ driver' = active /\ WorkerMoves("executing")
       \/ active \in cancelled /\ UNCHANGED driver /\ WorkerMoves("returned")

\* The scheduler is quarantined or closed.
Refuse ==
    /\ worker = "ready" /\ (Faulty \/ portClosed)
    /\ UNCHANGED driver /\ WorkerMoves("raised")

\* The wait ended before the scheduler reached the command, which it then drops.
Withdraw ==
    /\ worker = "ready" /\ ~BusFree
    /\ Settle("CANCELLED")
    /\ UNCHANGED <<authorityVars, threadVars, closeReport, historyVars>>

\* The wait ended with the command in the driver: its outcome is unknown.
Abandon == Faulty /\ worker = "executing" /\ UNCHANGED driver /\ WorkerMoves("raised")

DriverReturns ==
    /\ driver # NoTicket /\ driver' = NoTicket
    /\ IF worker = "executing" /\ driver = active
       THEN \E w \in {"returned"} \cup (IF Faulty THEN {"raised"} ELSE {}) : WorkerMoves(w)
       ELSE WorkerMoves(worker)

-----------------------------------------------------------------------------

\* What the arbiter's callers may do at any moment.
Request ==
    \/ \E k \in Tasks : BeginTask(k) \/ SetToken(k) \/ \E x \in Tickets : SubmitAutomatic(x, k)
    \/ PressDeadman \/ \E x \in Tickets : SubmitManual(x)
    \/ \E t \in Threads :
          \/ \E k \in Tasks : CancelTask(t, k) \/ FinishTask(t, k)
          \/ AcquireManual(t) \/ ReleaseManual(t) \/ ReleaseDeadman(t)
          \/ Hold(t) \/ EmergencyStop(t) \/ Reset(t) \/ Close(t)

\* The rest of an operation under way.
Continue(t) ==
    \/ DetachTask(t) \/ JoinEnds(t) \/ EmergencyStopReturns(t)
    \/ HoldSucceeds(t) \/ HoldFails(t) \/ ResetReturns(t)
    \/ CloseHolds(t) \/ ClosePort(t) \/ CloseReturns(t)

WorkerStep ==
    \/ \E x \in Tickets : Dispatch(x) \/ DispatchNot(x)
    \/ SettleReturned \/ SettleCancelled \/ CommandFails \/ WorkerStops \/ SettleFailed

PortStop(t) == StopAdmitted(t) \/ StopBegins(t) \/ StopReturns(t) \/ StopFails(t)
PortCommand == Execute \/ Refuse \/ Withdraw \/ Abandon \/ DriverReturns

Next ==
    \/ Request \/ DeadmanExpires \/ WorkerStep \/ PortCommand
    \/ \E t \in Agents : Continue(t) \/ PortStop(t)

Spec == Init /\ [][Next]_vars

\* Threads that can run do run, and the port answers every call: the driver
\* returns, or the wait for it ends.
FairSpec ==
    /\ Spec
    /\ WF_vars(WorkerStep) /\ WF_vars(PortCommand)
    /\ \A t \in Agents : WF_vars(Continue(t)) /\ WF_vars(PortStop(t))

-----------------------------------------------------------------------------
(* Properties.                                                             *)

\* Every variable of the arbiter keeps its type.
TypeOK ==
    /\ authority \in Authorities /\ deadman \in BOOLEAN
    /\ holdFlag \in BOOLEAN /\ closed \in BOOLEAN
    /\ modelTask \in Tasks \cup {NoTask} /\ tokenSet \subseteq Tasks /\ begun \subseteq Tasks
    /\ status \in [Tickets -> Statuses] /\ owner \in [Tickets -> Tasks \cup {NoTask}]
    /\ cancelled \subseteq Tickets
    /\ modelQueue \in Seq(Tickets) /\ Len(modelQueue) <= QueueCapacity
    /\ manualPending \in Tickets \cup {NoTicket} /\ active \in Tickets \cup {NoTicket}
    /\ worker \in WorkerStates /\ (worker = "idle" <=> active = NoTicket)
    /\ driver \in Tickets \cup {NoTicket} /\ portClosed \in BOOLEAN
    /\ job \in [Agents -> Jobs] /\ stop \in [Agents -> Stops]
    /\ finishing \in [Agents -> Tasks \cup {NoTask}]
    /\ fresh \subseteq Agents /\ manualLock \in Threads \cup {NoThread}
    /\ closeReport \in {"none", "clean", "error"} /\ operations \in Nat
    /\ overtaken \subseteq Tasks /\ unanswered \in BOOLEAN

\* Whoever changed the authority, let go of the deadman or closed the arbiter while a
\* command was on its way to the driver also cancelled that command: one that is
\* still good belongs to the side that has the authority now.
ActiveRespectsAuthority ==
    active # NoTicket /\ active \notin cancelled =>
        /\ ~closed
        /\ IF Automatic(active) THEN authority = "MODEL" ELSE authority = "MANUAL" /\ deadman

\* Nothing waits in a queue whose side does not have the authority, so no hand-over,
\* latch, reset or late release lets an old command through.
PendingMatchesAuthority ==
    /\ modelQueue # <<>> => authority = "MODEL" /\ ~closed
    /\ manualPending # NoTicket => authority = "MANUAL" /\ deadman /\ ~closed

\* Both: in every hand-over, commands under way and commands waiting are good only
\* for the side that has the authority.
AuthorityRespected == ActiveRespectsAuthority /\ PendingMatchesAuthority

\* control.md: a takeover cancels the task, including results that arrive later, and a
\* release never resumes it.  No command of a task begun before the last takeover or
\* latch waits, or is good for execution, whatever its late threads still submit.
OvertakenTaskSilent ==
    \A x \in Tickets : owner[x] \in overtaken =>
        x \notin Elements(modelQueue) /\ (x = active => x \in cancelled)

\* The emergency stop stays latched until a reset that began after the last latch, even
\* if an older reset or a release finishes its hold in between.
LatchHolds == unanswered => authority = "ESTOP"

\* A command that was cancelled before the driver got it never reaches the driver, and
\* is never reported as executed.
CancelledNeverStarts ==
    [][\A x \in Tickets :
          /\ x \in cancelled /\ driver # x => driver' # x
          /\ x \in cancelled /\ status[x] # "EXECUTED" => status'[x] # "EXECUTED"]_vars

\* When close() returns without an error no command is in the driver, none will be, no
\* stop is being waited for, and every command that has not ended is cancelled.
CleanCloseIsFinal ==
    closeReport = "clean" =>
        Drained /\ \A x \in Tickets : status[x] \in {"QUEUED", "RUNNING"} => x \in cancelled

\* What an operator relies on before going near the robot: a stop that was latched stays
\* so, and a close that was reported clean is over (arbitration.py:803, 833).
StopsAreFinal == LatchHolds /\ CleanCloseIsFinal

\* Nobody is in a call, and every accepted command has its outcome.
AtRest ==
    /\ \A t \in Agents : job[t] = "none"
    /\ \A x \in Tickets : status[x] \notin {"QUEUED", "RUNNING"}

\* Neither the commands nor the callers wait for ever, although the threads that stop the
\* robot share one _hold_in_progress flag and a takeover may join somebody else's hold:
\* whatever calls there are, the arbiter comes to rest.
EverythingEnds == []<>AtRest

\* control.md: "Reset on a connected robot returns to manual authority with the deadman
\* released; the operator must explicitly re-enable motion": when a reset has returned,
\* no command is on its way to the driver or waits for the deadman.
ResetLeavesNothingToRun ==
    [][\A t \in Threads : ResetReturns(t) /\ ResetAccepted(t) =>
          /\ modelQueue = <<>> /\ manualPending = NoTicket
          /\ active = NoTicket \/ active \in cancelled]_vars

=============================================================================
