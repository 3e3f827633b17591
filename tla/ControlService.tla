--------------------------- MODULE ControlService ---------------------------
(***************************************************************************)
(* The service that owns one robot: ControlService in                      *)
(* application/control_service.py, with the direct jobs of                 *)
(* application/direct_execution.py.  HTTP handlers and job workers         *)
(* (Callers, one call each) and the main thread's close() share the robot, *)
(* its arbiter and three locks; sections of _control_lock are one step.    *)
(*                                                                         *)
(* The arbiter is the one of module Arbiter, reduced to what its callers   *)
(* rely on: an authority, the token of the automatic task, and holds that  *)
(* succeed or latch.  A command is one step: Arbiter shows that one no     *)
(* longer admissible is not started.  A token is named after its caller.   *)
(* Camera leases, inference clients and the deadman are left out.          *)
(***************************************************************************)
EXTENDS FiniteSets

CONSTANTS
    Callers,     \* threads, each acting for a client of its own
    None,
    Calls        \* bound: the kinds of calls that are made

ASSUME CallersAssumption == IsFiniteSet(Callers) /\ None \notin Callers
ASSUME CallsAssumption ==
    Calls \subseteq {"execute", "direct", "cancel", "acquire", "release", "estop", "reset", "observe"}

VARIABLES
    closed, estopLatched, robotPrepared,
    currentTask,         \* _current_task_cancel
    manualOwner,
    taskLock, robotLock, manualLock,
    \* the arbiter
    arbiter,             \* _current_arbiter: "none", "open", "closed", or "late": one that
                         \* an observation made when close() no longer looked for it
    authority, token,
    cancelled,           \* callers whose token is set
    \* the threads
    call, at,            \* each caller's call and where it is
    target,              \* the direct job a cancel is for
    reserved,            \* acquire_manual: it was this call that took the ownership
    fresh,               \* resets that no latch has overtaken
    closeAt, closeFailed,
    \* the robot
    moving,              \* commanded, and not held since
    released,            \* the device manager was closed
    \* histories
    stopped,             \* an emergency stop was latched, and no reset answered since
    escaped,             \* an observation attached the robot under a latch
    granted,             \* callers that were given manual control
    dropped              \* a task took the token and ended without a runtime

serviceVars == <<closed, estopLatched, robotPrepared, currentTask, manualOwner>>
lockVars == <<taskLock, robotLock, manualLock>>
arbiterVars == <<arbiter, authority, token, cancelled>>
threadVars == <<call, at, target, reserved, fresh>>
closeVars == <<closeAt, closeFailed>>
robotVars == <<moving, released>>
historyVars == <<stopped, escaped, granted, dropped>>
vars == <<serviceVars, lockVars, arbiterVars, threadVars, closeVars, robotVars, historyVars>>

Places == {"out", "task", "ensure", "opening", "interrupt", "prepare", "ready", "begun", "running",
           "dropped", "finish", "take", "holding", "clearing", "latch", "clear", "look", "attach"}

Init ==
    /\ closed = FALSE /\ estopLatched = FALSE /\ robotPrepared = FALSE
    /\ currentTask = None /\ manualOwner = None
    /\ taskLock = None /\ robotLock = None /\ manualLock = None
    /\ arbiter = "none" /\ authority = "MODEL" /\ token = None /\ cancelled = {}
    /\ call = [c \in Callers |-> "none"] /\ at = [c \in Callers |-> "out"]
    /\ target = [c \in Callers |-> None] /\ reserved = {} /\ fresh = {}
    /\ closeAt = "no" /\ closeFailed = FALSE
    /\ moving = FALSE /\ released = FALSE
    /\ stopped = FALSE /\ escaped = FALSE /\ granted = {} /\ dropped = FALSE

-----------------------------------------------------------------------------
(* Calls begin, go on and end.                                             *)

Starts(c, kind, place) ==
    /\ call[c] = "none" /\ kind \in Calls
    /\ call' = [call EXCEPT ![c] = kind] /\ at' = [at EXCEPT ![c] = place]
Moves(c, place) == at' = [at EXCEPT ![c] = place] /\ UNCHANGED call
Returns(c) == at' = [at EXCEPT ![c] = "out"] /\ call' = [call EXCEPT ![c] = "none"]

Without(lock, c) == IF lock = c THEN None ELSE lock

\* A call raises or ends: it gives up its locks, and acquire_manual the
\* ownership that it reserved itself.
Fails(c) ==
    /\ Returns(c)
    /\ taskLock' = Without(taskLock, c) /\ manualLock' = Without(manualLock, c)
    /\ robotLock' = Without(robotLock, c)
    /\ manualOwner' = IF c \in reserved THEN Without(manualOwner, c) ELSE manualOwner
    /\ reserved' = reserved \ {c}

\* The arbiter's _cancel_active and begin_automatic_task set the current token.
Cancelled == cancelled \cup ({token} \ {None})
\* So does whoever finds a registered task.
CancelsTask == cancelled' = cancelled \cup ({currentTask} \ {None})

\* A new job has a token of its own; an old one of this caller is nobody's.
NewToken(c) ==
    /\ cancelled' = cancelled \ {c}
    /\ token' = Without(token, c)
    /\ target' = [d \in Callers |-> Without(target[d], c)]

-----------------------------------------------------------------------------
(* _ensure_robot_arbiter, for execute, direct, cancel and acquire_manual.  *)

EnsureRest == <<closed, estopLatched, currentTask, target, fresh, closeVars, robotVars>>

\* There is an arbiter; its robot may still be passive.
EnsureFinds(c) ==
    /\ at[c] = "ensure" /\ robotLock = None /\ arbiter # "none"
    /\ IF closed THEN Fails(c)
       ELSE /\ IF robotPrepared THEN Moves(c, "ready") /\ UNCHANGED robotLock
                                ELSE Moves(c, "prepare") /\ robotLock' = c
            /\ UNCHANGED <<taskLock, manualLock, manualOwner, reserved>>
    /\ UNCHANGED <<EnsureRest, robotPrepared, arbiterVars, historyVars>>

EnsureOpens(c) ==
    /\ at[c] = "ensure" /\ robotLock = None /\ arbiter = "none"
    /\ IF closed \/ estopLatched THEN Fails(c)
       ELSE Moves(c, "opening") /\ robotLock' = c
            /\ UNCHANGED <<taskLock, manualLock, manualOwner, reserved>>
    /\ UNCHANGED <<EnsureRest, robotPrepared, arbiterVars, historyVars>>

\* Mutant: the latch is not looked at again when the arbiter is published.
InterruptedByClose == closed

\* stopped: the latch or the close came while the robot was being opened.
Interrupted == estopLatched \/ closed

NewArbiter(state) ==
    arbiter' = state /\ authority' = "MODEL" /\ token' = None /\ UNCHANGED cancelled

\* Mutant: a passive robot is handed out as it is.
HandsOut(c, prepared) == IF Interrupted THEN "interrupt" ELSE "ready"

\* Where the call goes with the arbiter it published.
AfterOpening(c, prepared) ==
    IF Interrupted THEN "interrupt" ELSE IF prepared THEN "ready" ELSE "prepare"

\* The device is acquired, prepared unless it has an external owner, and published.
Opens(c) ==
    /\ at[c] = "opening" /\ ~released
    /\ \E prepared \in BOOLEAN :
          /\ robotPrepared' = prepared
          /\ Moves(c, AfterOpening(c, prepared))
          /\ robotLock' = IF AfterOpening(c, prepared) = "ready" THEN None ELSE c
    /\ NewArbiter("open")
    /\ UNCHANGED <<EnsureRest, taskLock, manualLock, manualOwner, reserved, historyVars>>

OpeningFails(c) ==
    /\ at[c] \in {"opening", "prepare"}
    /\ Fails(c)
    /\ UNCHANGED <<EnsureRest, robotPrepared, arbiterVars, historyVars>>

\* What was stopped while connecting is latched in the arbiter, and rejected.
Interrupts(c) ==
    /\ at[c] = "interrupt"
    /\ authority' = "ESTOP" /\ cancelled' = Cancelled
    /\ Fails(c)
    /\ UNCHANGED <<EnsureRest, robotPrepared, arbiter, token, historyVars>>

Prepares(c) ==
    /\ at[c] = "prepare"
    /\ robotPrepared' = TRUE /\ robotLock' = None
    /\ Moves(c, "ready")
    /\ UNCHANGED <<EnsureRest, taskLock, manualLock, manualOwner, reserved, arbiterVars, historyVars>>

EnsureStep(c) ==
    EnsureFinds(c) \/ EnsureOpens(c) \/ Opens(c) \/ OpeningFails(c) \/ Interrupts(c) \/ Prepares(c)

-----------------------------------------------------------------------------
(* Jobs: execute, DirectExecutionRunner.run and its cancel.                *)

JobRest == <<closed, estopLatched, robotPrepared, manualOwner, robotLock, manualLock,
             reserved, fresh, closeVars, released>>

Execute(c) ==
    /\ ~closed /\ ~(arbiter = "none" /\ estopLatched)
    /\ Starts(c, "execute", "task") /\ NewToken(c)
    /\ UNCHANGED <<JobRest, currentTask, taskLock, arbiter, authority, moving, historyVars>>

TaskLock(c) ==
    /\ at[c] = "task"
    /\ IF taskLock = None THEN taskLock' = c /\ Moves(c, "ensure")
                          ELSE Returns(c) /\ UNCHANGED taskLock
    /\ UNCHANGED <<JobRest, currentTask, arbiterVars, target, moving, historyVars>>

Direct(c) ==
    /\ Starts(c, "direct", "ensure") /\ NewToken(c)
    /\ UNCHANGED <<JobRest, currentTask, taskLock, arbiter, authority, moving, historyVars>>

\* The registry sets the cancel_event of an execute job, which is its token.
CancelEvent(c) ==
    /\ call[c] = "execute" /\ c \notin cancelled
    /\ cancelled' = cancelled \cup {c}
    /\ UNCHANGED <<serviceVars, lockVars, arbiter, authority, token, threadVars, closeVars, robotVars,
                   historyVars>>

\* begin_automatic_task takes the robot from the task before.
Begins(c) ==
    /\ call[c] \in {"execute", "direct"} /\ at[c] = "ready"
    /\ IF arbiter = "open" /\ authority = "MODEL" /\ ~(call[c] = "execute" /\ c \in cancelled)
       THEN /\ token' = c /\ cancelled' = Cancelled
            /\ Moves(c, "begun") /\ UNCHANGED taskLock
       ELSE /\ Returns(c) /\ taskLock' = Without(taskLock, c)
            /\ UNCHANGED <<token, cancelled>>
    /\ UNCHANGED <<JobRest, currentTask, arbiter, authority, target, moving, historyVars>>

\* The task or session is registered.  The runtime of a task may not come up.
Registers(c) ==
    /\ at[c] = "begun"
    /\ \/ Moves(c, "running") /\ UNCHANGED dropped
       \/ call[c] = "execute" /\ Moves(c, "dropped") /\ dropped' = TRUE
    /\ currentTask' = IF call[c] = "execute" THEN c ELSE currentTask
    /\ UNCHANGED <<JobRest, taskLock, arbiterVars, target, moving, stopped, escaped, granted>>

\* The arbiter's submit: the command carries the task's token.
Admits(c) ==
    /\ arbiter = "open" /\ authority = "MODEL"
    /\ token = c /\ c \notin cancelled

MayDrive(c) == at[c] = "running" /\ Admits(c)

Drives(c) ==
    /\ MayDrive(c)
    /\ moving' = TRUE
    /\ UNCHANGED <<JobRest, currentTask, taskLock, arbiterVars, call, at, target, historyVars>>

\* The last step is done, or one failed, or the job was cancelled.
RunEnds(c) ==
    /\ at[c] = "running"
    /\ currentTask' = Without(currentTask, c)
    /\ Moves(c, "finish")
    /\ UNCHANGED <<JobRest, taskLock, arbiterVars, target, moving, historyVars>>

\* There is no runtime to be closed.
Drops(c) ==
    /\ at[c] = "dropped"
    /\ currentTask' = Without(currentTask, c)
    /\ Returns(c) /\ taskLock' = Without(taskLock, c)
    /\ UNCHANGED <<JobRest, arbiterVars, target, moving, historyVars>>

\* Mutant: a job that was cancelled is taken to have been held.
OwnsUncancelled(t) == arbiter = "open" /\ token = t /\ t \notin cancelled

\* finish_automatic_work and cancel_automatic_work act only for the current token.
Owns(t) == arbiter = "open" /\ token = t

\* finish_automatic_work (execute) or cancel_automatic_work (direct), up to the hold.
Finishes(c) ==
    /\ at[c] = "finish"
    /\ IF Owns(c) /\ authority = "MODEL"
       THEN Moves(c, "holding") /\ UNCHANGED taskLock
       ELSE Returns(c) /\ taskLock' = Without(taskLock, c)
    /\ cancelled' = IF call[c] = "direct" /\ Owns(c) THEN Cancelled ELSE cancelled
    /\ UNCHANGED <<JobRest, currentTask, arbiter, authority, token, target, moving, historyVars>>

\* DirectExecutionRunner.cancel: the session of a direct job is known.
Cancel(c) ==
    /\ \E t \in Callers :
          /\ call[t] = "direct" /\ at[t] \in {"running", "finish", "holding"}
          /\ target' = [target EXCEPT ![c] = t]
    /\ Starts(c, "cancel", "ensure")
    /\ UNCHANGED <<JobRest, currentTask, taskLock, arbiterVars, moving, historyVars>>

CancelsWork(c) ==
    /\ call[c] = "cancel" /\ at[c] = "ready"
    /\ IF Owns(target[c]) /\ target[c] # None
       THEN /\ cancelled' = Cancelled
            /\ IF authority = "MODEL" THEN Moves(c, "holding") ELSE Returns(c)
       ELSE Returns(c) /\ UNCHANGED cancelled
    /\ UNCHANGED <<JobRest, currentTask, taskLock, arbiter, authority, token, target, moving, historyVars>>

JobStep(c) ==
    \/ TaskLock(c) \/ Begins(c) \/ Registers(c) \/ RunEnds(c) \/ Drops(c) \/ Finishes(c) \/ CancelsWork(c)

-----------------------------------------------------------------------------
(* Manual control.                                                         *)

ManualRest == <<closed, estopLatched, robotPrepared, taskLock, robotLock, arbiter, token,
                target, fresh, closeVars, released>>

\* Mutant: the ownership is not looked at.
OwnerAny(c) == TRUE

\* Nobody else has manual control.
OwnerIsFree(c) == manualOwner \in {None, c}

\* acquire_manual reserves the ownership before it opens the robot.
Acquire(c) ==
    /\ manualLock = None /\ ~closed /\ OwnerIsFree(c)
    /\ Starts(c, "acquire", "ensure")
    /\ manualLock' = c /\ manualOwner' = c
    /\ reserved' = IF manualOwner = None THEN reserved \cup {c} ELSE reserved
    /\ UNCHANGED <<ManualRest, currentTask, authority, cancelled, moving, historyVars>>

CancelsForManual(c) ==
    /\ call[c] = "acquire" /\ at[c] = "ready"
    /\ CancelsTask
    /\ Moves(c, "take")
    /\ UNCHANGED <<ManualRest, currentTask, manualOwner, manualLock, reserved, authority, moving, historyVars>>

\* The arbiter's acquire_manual, up to the hold.
Takes(c) ==
    /\ at[c] = "take"
    /\ IF arbiter = "open" /\ authority # "ESTOP"
       THEN /\ authority' = "MANUAL" /\ cancelled' = Cancelled
            /\ Moves(c, "holding") /\ UNCHANGED <<taskLock, robotLock, manualLock, manualOwner, reserved>>
       ELSE Fails(c) /\ UNCHANGED <<authority, cancelled>>
    /\ UNCHANGED <<closed, estopLatched, robotPrepared, currentTask, arbiter, token, target, fresh,
                   closeVars, robotVars, historyVars>>

\* release_manual, up to the hold of the arbiter's.
Release(c) ==
    /\ manualLock = None /\ manualOwner = c
    /\ arbiter = "open" /\ authority # "ESTOP"
    /\ Starts(c, "release", "holding")
    /\ manualLock' = c /\ granted' = granted \ {c}
    /\ UNCHANGED <<ManualRest, currentTask, manualOwner, reserved, authority, cancelled, moving,
                   stopped, escaped, dropped>>

ReleaseClears(c) ==
    /\ at[c] = "clearing"
    /\ manualOwner' = Without(manualOwner, c) /\ manualLock' = None
    /\ Returns(c)
    /\ UNCHANGED <<ManualRest, currentTask, reserved, authority, cancelled, moving, historyVars>>

MayDriveManually(c) ==
    /\ call[c] = "none" /\ manualLock = None /\ manualOwner = c
    /\ arbiter = "open" /\ authority = "MANUAL"

\* submit_manual_action
DrivesManually(c) ==
    /\ "acquire" \in Calls /\ MayDriveManually(c)
    /\ moving' = TRUE
    /\ UNCHANGED <<ManualRest, currentTask, manualOwner, manualLock, reserved, authority, cancelled,
                   call, at, historyVars>>

ManualStep(c) == CancelsForManual(c) \/ Takes(c) \/ ReleaseClears(c)

-----------------------------------------------------------------------------
(* Emergency stop and reset, and how holds end.                            *)

StopRest == <<closed, robotPrepared, currentTask, manualOwner, lockVars, arbiter, token, target,
              reserved, closeVars, released, escaped, granted, dropped>>

\* emergency_stop without an arbiter latches the service.
EmergencyStopEarly(c) ==
    /\ call[c] = "none" /\ "estop" \in Calls /\ arbiter = "none"
    /\ estopLatched' = TRUE /\ stopped' = TRUE /\ CancelsTask
    /\ UNCHANGED <<StopRest, authority, call, at, fresh, moving>>

EmergencyStop(c) ==
    /\ arbiter # "none" /\ Starts(c, "estop", "latch") /\ CancelsTask
    /\ UNCHANGED <<StopRest, estopLatched, authority, fresh, moving, stopped>>

\* The arbiter's emergency_stop, up to the stop; a closed one raises.
Latches(c) ==
    /\ at[c] = "latch"
    /\ IF arbiter \in {"open", "late"}
       THEN /\ authority' = "ESTOP" /\ cancelled' = Cancelled /\ fresh' = {}
            /\ stopped' = TRUE /\ Moves(c, "holding")
       ELSE Returns(c) /\ UNCHANGED <<authority, cancelled, fresh, stopped>>
    /\ UNCHANGED <<StopRest, estopLatched, moving>>

\* reset_emergency_stop; only a latched arbiter is held.
Reset(c) ==
    /\ \/ arbiter = "none" /\ Starts(c, "reset", "clear") /\ UNCHANGED fresh
       \/ /\ arbiter \in {"open", "late"} /\ authority = "ESTOP"
          /\ Starts(c, "reset", "holding") /\ fresh' = fresh \cup {c}
    /\ UNCHANGED <<StopRest, estopLatched, authority, cancelled, moving, stopped>>

ResetClears(c) ==
    /\ at[c] = "clear"
    /\ estopLatched' = FALSE /\ stopped' = FALSE
    /\ Returns(c)
    /\ UNCHANGED <<StopRest, authority, cancelled, fresh, moving>>

\* The authority after a hold that succeeded.
AuthorityAfter(c) ==
    CASE call[c] = "release" /\ authority # "ESTOP" -> "MODEL"
      [] call[c] = "reset" /\ c \in fresh /\ arbiter = "open" -> "MANUAL"
      [] OTHER -> authority

HoldSucceeds(c) ==
    /\ at[c] = "holding"
    /\ moving' = FALSE
    /\ authority' = AuthorityAfter(c)
    /\ token' = IF call[c] = "execute" /\ c \notin cancelled THEN Without(token, c) ELSE token
    /\ granted' = IF call[c] = "acquire" THEN granted \cup {c} ELSE granted
    /\ stopped' = (stopped /\ ~(call[c] = "reset" /\ c \in fresh /\ arbiter = "open"))
    /\ IF call[c] = "release"
       THEN Moves(c, "clearing") /\ UNCHANGED <<taskLock, manualLock>>
       ELSE Returns(c) /\ taskLock' = Without(taskLock, c) /\ manualLock' = Without(manualLock, c)
    /\ fresh' = fresh \ {c} /\ reserved' = reserved \ {c}
    /\ UNCHANGED <<serviceVars, robotLock, arbiter, cancelled, target, closeVars, released, escaped, dropped>>

\* A hold that failed latches, except in reset and emergency_stop.
HoldFails(c) ==
    /\ at[c] = "holding"
    /\ IF call[c] \in {"reset", "estop"}
       THEN fresh' = fresh \ {c} /\ UNCHANGED <<authority, cancelled>>
       ELSE fresh' = {} /\ authority' = "ESTOP" /\ cancelled' = Cancelled
    /\ Fails(c)
    /\ UNCHANGED <<closed, estopLatched, robotPrepared, currentTask, arbiter, token, target, closeVars,
                   robotVars, historyVars>>

StopStep(c) == Latches(c) \/ ResetClears(c) \/ HoldSucceeds(c) \/ HoldFails(c)

-----------------------------------------------------------------------------
(* observe(include_robot=True): _observe_robot_read_only.                  *)

ObserveRest == <<closed, estopLatched, currentTask, manualOwner, taskLock, manualLock, target, reserved,
                 fresh, closeVars, robotVars, stopped, granted, dropped>>

Observe(c) ==
    /\ arbiter = "none" /\ Starts(c, "observe", "look")
    /\ UNCHANGED <<ObserveRest, robotPrepared, robotLock, arbiterVars, escaped>>

Looks(c) ==
    /\ at[c] = "look" /\ robotLock = None
    /\ IF arbiter # "none" THEN Returns(c) /\ UNCHANGED robotLock
                           ELSE Moves(c, "attach") /\ robotLock' = c
    /\ UNCHANGED <<ObserveRest, robotPrepared, arbiterVars, escaped>>

\* The robot is attached without being prepared, or cannot be.
Attaches(c) ==
    /\ at[c] = "attach"
    /\ \/ /\ ~released
          /\ NewArbiter(IF closeAt \in {"no", "reading"} THEN "open" ELSE "late")
          /\ robotPrepared' = FALSE /\ escaped' = (escaped \/ estopLatched)
       \/ UNCHANGED <<arbiterVars, robotPrepared, escaped>>
    /\ robotLock' = None /\ Returns(c)
    /\ UNCHANGED ObserveRest

ObserveStep(c) == Looks(c) \/ Attaches(c)

-----------------------------------------------------------------------------
(* close(), once, in the main thread; handlers and jobs go on meanwhile.   *)

CloseRest == <<estopLatched, taskLock, robotLock, manualLock, threadVars, historyVars>>

CloseBegins ==
    /\ closeAt = "no" /\ closeAt' = "reading"
    /\ closed' = TRUE /\ manualOwner' = None /\ CancelsTask
    /\ UNCHANGED <<CloseRest, closeFailed, robotPrepared, currentTask, arbiter, authority, token, robotVars>>

CloseReads ==
    /\ closeAt = "reading" /\ robotLock = None
    /\ closeAt' = IF arbiter = "none" THEN "hub" ELSE "arbiter"
    /\ currentTask' = None
    /\ UNCHANGED <<CloseRest, closeFailed, closed, manualOwner, robotPrepared, arbiterVars, robotVars>>

\* A robot that was never prepared is not held.
HoldsAtClose == robotPrepared

CloseArbiter ==
    /\ closeAt = "arbiter"
    /\ arbiter' = "closed" /\ cancelled' = Cancelled
    /\ closeAt' = IF HoldsAtClose THEN "holding" ELSE "hub"
    /\ UNCHANGED <<CloseRest, closeFailed, closed, manualOwner, robotPrepared, currentTask, authority,
                   token, robotVars>>

\* The final hold; one that failed, or found another in flight, keeps the device.
CloseHolds ==
    /\ closeAt = "holding" /\ closeAt' = "hub"
    /\ \/ moving' = FALSE /\ UNCHANGED closeFailed
       \/ closeFailed' = TRUE /\ UNCHANGED moving
    /\ UNCHANGED <<CloseRest, closed, manualOwner, robotPrepared, currentTask, arbiterVars, released>>

\* Mutant: the device is given back whatever became of the hold.
KeepsNever == FALSE

\* arbiter_failed: the device is kept
KeepsDevice == closeFailed

\* Recorder and hub; a capture that hangs keeps the hub open, and the devices.
CloseHub ==
    /\ closeAt = "hub"
    /\ closeAt' \in {"final"} \cup (IF KeepsDevice THEN {} ELSE {"manager"})
    /\ UNCHANGED <<CloseRest, closeFailed, closed, manualOwner, robotPrepared, currentTask, arbiterVars,
                   robotVars>>

CloseManager ==
    /\ closeAt = "manager" /\ closeAt' = "final"
    /\ released' = TRUE /\ closeFailed' \in BOOLEAN
    /\ UNCHANGED <<CloseRest, closed, manualOwner, robotPrepared, currentTask, arbiterVars, moving>>

\* Without an error the references are dropped.
CloseEnds ==
    /\ closeAt = "final" /\ closeAt' = "done"
    /\ IF closeFailed THEN UNCHANGED <<arbiter, robotPrepared>>
       ELSE robotLock = None /\ arbiter' = "none" /\ robotPrepared' = FALSE
    /\ UNCHANGED <<CloseRest, closeFailed, closed, manualOwner, currentTask, authority, token, cancelled,
                   robotVars>>

CloseStep == CloseReads \/ CloseArbiter \/ CloseHolds \/ CloseHub \/ CloseManager \/ CloseEnds

-----------------------------------------------------------------------------
CallBegins(c) ==
    \/ Execute(c) \/ Direct(c) \/ Cancel(c) \/ Acquire(c) \/ Release(c)
    \/ EmergencyStopEarly(c) \/ EmergencyStop(c) \/ Reset(c) \/ Observe(c)

Step(c) == EnsureStep(c) \/ JobStep(c) \/ ManualStep(c) \/ StopStep(c) \/ ObserveStep(c)

Next ==
    \/ \E c \in Callers : CallBegins(c) \/ Step(c) \/ CancelEvent(c) \/ Drives(c) \/ DrivesManually(c)
    \/ CloseBegins \/ CloseStep

Spec == Init /\ [][Next]_vars

-----------------------------------------------------------------------------
(* Properties.                                                             *)

(***************************************************************************)
(* The state stays in its domain.                                          *)
(***************************************************************************)
TypeOK ==
    /\ closed \in BOOLEAN /\ estopLatched \in BOOLEAN /\ robotPrepared \in BOOLEAN
    /\ currentTask \in Callers \cup {None} /\ manualOwner \in Callers \cup {None}
    /\ taskLock \in Callers \cup {None} /\ robotLock \in Callers \cup {None}
    /\ manualLock \in Callers \cup {None}
    /\ arbiter \in {"none", "open", "closed", "late"} /\ authority \in {"MODEL", "MANUAL", "ESTOP"}
    /\ token \in Callers \cup {None} /\ cancelled \subseteq Callers
    /\ call \in [Callers -> Calls \cup {"none"}] /\ at \in [Callers -> Places]
    /\ target \in [Callers -> Callers \cup {None}] /\ reserved \subseteq Callers /\ fresh \subseteq Callers
    /\ closeAt \in {"no", "reading", "arbiter", "holding", "hub", "manager", "final", "done"}
    /\ closeFailed \in BOOLEAN /\ moving \in BOOLEAN /\ released \in BOOLEAN
    /\ stopped \in BOOLEAN /\ escaped \in BOOLEAN /\ granted \subseteq Callers /\ dropped \in BOOLEAN

(***************************************************************************)
(* The locks are held exactly by the calls in their sections: none is left *)
(* behind by a call that fails, and the holder of robotLock waits for none.*)
(***************************************************************************)
LocksHeld ==
    \A c \in Callers :
        /\ robotLock = c <=> at[c] \in {"opening", "interrupt", "prepare", "attach"}
        /\ manualLock = c <=> call[c] \in {"acquire", "release"}
        /\ taskLock = c <=> call[c] = "execute" /\ at[c] # "task"

(***************************************************************************)
(* Once an emergency stop is latched, before or after there is a robot, no *)
(* job and no manual caller can drive until a reset is answered; unless an *)
(* observation attached the robot meanwhile.                               *)
(***************************************************************************)
StopHonoured == stopped /\ ~escaped => \A c \in Callers : ~MayDrive(c) /\ ~MayDriveManually(c)

(***************************************************************************)
(* POST /v1/control/emergency-stop latches: the same without exception.    *)
(***************************************************************************)
StopAlwaysHonoured == stopped => \A c \in Callers : ~MayDrive(c) /\ ~MayDriveManually(c)

(***************************************************************************)
(* Manual control is one caller's, and while it is, no job drives.         *)
(***************************************************************************)
ManualAlone ==
    granted # {} /\ ~closed =>
        /\ granted = {manualOwner}
        /\ \A c \in Callers : ~MayDrive(c)

(***************************************************************************)
(* Whoever can drive drives a robot that was prepared: a robot attached by *)
(* an observation, or owned elsewhere, is prepared before it is handed out.*)
(***************************************************************************)
DrivesPrepared == \A c \in Callers : MayDrive(c) \/ MayDriveManually(c) => robotPrepared

(***************************************************************************)
(* Both of what entitles a caller to drive: the side and the owner are the *)
(* caller's (control_service.py:1093), and the robot was prepared (381).   *)
(***************************************************************************)
DriversEntitled == ManualAlone /\ DrivesPrepared

Working(c) ==
    call[c] \in {"execute", "direct", "cancel", "release"}
    /\ at[c] \in {"begun", "running", "dropped", "finish", "holding"}

(***************************************************************************)
(* The robot is held when the last job ends, whoever took it from whom:    *)
(* under MODEL with no job and no hold under way it is at rest; unless a   *)
(* task took it and its runtime did not come up.                           *)
(***************************************************************************)
HeldWhenIdle ==
    arbiter = "open" /\ authority = "MODEL" /\ ~dropped /\ (\A c \in Callers : ~Working(c))
        => ~moving

(***************************************************************************)
(* close() gives the device back only at rest: after the final hold was    *)
(* confirmed, and with nobody left who could drive.                        *)
(***************************************************************************)
ReleasedAtRest ==
    released => ~moving /\ \A c \in Callers : ~MayDrive(c) /\ ~MayDriveManually(c)

(***************************************************************************)
(* Nobody walks away from a moving robot: neither the last job nor close().*)
(***************************************************************************)
LeftAtRest == HeldWhenIdle /\ ReleasedAtRest
=============================================================================
