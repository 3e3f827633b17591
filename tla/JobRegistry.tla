---------------------------- MODULE JobRegistry ----------------------------
(***************************************************************************)
(* The persistent registry of short jobs: JobRegistry in                   *)
(* application/jobs.py over SQLiteJobStore in application/job_store.py.    *)
(* A job is known by its identity (caller, session, request) and has one   *)
(* row in the database; the row survives the process.  A process holds at  *)
(* most one registry, opens it only when it gets the database's flock, and *)
(* may die at any moment, taking its threads and the flock with it.        *)
(*                                                                         *)
(* Per job a worker thread runs the execute callback and a thread of its   *)
(* own runs the cancel callback; both callbacks run without the lock.      *)
(* Each locked section is one step.  A callback's return and the locked    *)
(* section that records it are one step: nothing can tell them apart.      *)
(*                                                                         *)
(* dispatch_status repeats status and inference_status follows it, so the  *)
(* row keeps status, physical_status and cancel_requested; parameters,     *)
(* results, events and times are left out.  Submitting an identity again,  *)
(* with the same or other parameters, changes no row (Resubmit).           *)
(***************************************************************************)
EXTENDS Naturals, FiniteSets

CONSTANTS
    Keys,          \* job identities
    Stoppable,     \* those submitted with a cancel callback
    Processes,     \* service processes sharing the database file
    MaxJobs,       \* max_jobs
    Unreliable     \* those whose database transactions may fail and be rolled back

ASSUME JobsAssumption ==
    /\ IsFiniteSet(Keys) /\ Stoppable \subseteq Keys /\ Unreliable \subseteq Keys
    /\ MaxJobs \in Nat \ {0}

VARIABLES
    row,         \* the jobs table: the only state that outlives a process
    phase,       \* of each process's registry
    worker,      \* where each job's worker thread is
    runtime,     \* _runtimes: the entry, its cancel_event and cancel_invoked
    canceller,   \* where the call or thread that carries the cancel callback is
    joining,     \* close(): whether it is joining, and the threads it took
    waiter,      \* one call of wait() per job and process
    \* histories
    executed,    \* how often each job's execute callback was entered
    stopped,     \* jobs whose cancel callback was entered
    confirmed    \* jobs whose cancel callback answered that the robot stopped

threadVars == <<worker, runtime, canceller, joining, waiter>>
historyVars == <<executed, stopped, confirmed>>
vars == <<row, phase, threadVars, historyVars>>

Terminal == {"completed", "failed", "cancelled", "unknown"}
Unfinished == {"accepted", "running", "cancel_requested"}
Statuses == Terminal \cup Unfinished \cup {"absent"}
Physicals == {"not_requested", "stop_requested", "stopped", "stop_unconfirmed", "unknown"}
Phases == {"off", "open", "closed", "released"}
WorkerStates == {"none", "starting", "executing"}
CancellerStates == {"none", "marked", "registered", "running"}
WaiterStates == {"none", "checking", "blocked"}
Rows == [status : Statuses, physical : Physicals, cancelRequested : BOOLEAN]
Runtimes == [held : BOOLEAN, cancelEvent : BOOLEAN, cancelInvoked : BOOLEAN]
JobThreads == {"worker", "callback"} \X Keys

\* What the callbacks answer: _physical_from_value of a segment or task
\* result, _physical_from_cancel of a stop or of an exception.
CompletedPhysicals == {"stop_requested", "stop_unconfirmed", "unknown"}
CancelAnswers == {"stop_requested", "stopped", "stop_unconfirmed"}

NoRow == [status |-> "absent", physical |-> "not_requested", cancelRequested |-> FALSE]
NoRuntime == [held |-> FALSE, cancelEvent |-> FALSE, cancelInvoked |-> FALSE]
NotJoining == [busy |-> FALSE, threads |-> {}]

NewThreads(p) ==
    /\ worker' = [worker EXCEPT ![p] = [k \in Keys |-> "none"]]
    /\ runtime' = [runtime EXCEPT ![p] = [k \in Keys |-> NoRuntime]]
    /\ canceller' = [canceller EXCEPT ![p] = [k \in Keys |-> "none"]]
    /\ joining' = [joining EXCEPT ![p] = NotJoining]
    /\ waiter' = [waiter EXCEPT ![p] = [k \in Keys |-> "none"]]

Init ==
    /\ row = [k \in Keys |-> NoRow]
    /\ phase = [p \in Processes |-> "off"]
    /\ worker = [p \in Processes |-> [k \in Keys |-> "none"]]
    /\ runtime = [p \in Processes |-> [k \in Keys |-> NoRuntime]]
    /\ canceller = [p \in Processes |-> [k \in Keys |-> "none"]]
    /\ joining = [p \in Processes |-> NotJoining]
    /\ waiter = [p \in Processes |-> [k \in Keys |-> "none"]]
    /\ executed = [k \in Keys |-> 0]
    /\ stopped = {}
    /\ confirmed = {}

(***************************************************************************)
(* Helpers                                                                 *)
(***************************************************************************)
\* _condition.notify_all(): every wait() of this registry looks again
NotifyAll(p) ==
    waiter' = [waiter EXCEPT ![p] =
                 [k \in Keys |-> IF waiter[p][k] = "blocked" THEN "checking" ELSE waiter[p][k]]]

\* Mutant: the stop's outcome is forgotten with the job's.
DoubtForgotten(r) == "unknown"

\* the physical status of a job whose outcome nobody will learn
PhysicalOfUnknown(r) == IF r.cancelRequested THEN "stop_unconfirmed" ELSE "unknown"

MarkUnknown(r) ==
    IF r.status \in Unfinished
    THEN [r EXCEPT !.status = "unknown", !.physical = PhysicalOfUnknown(r)]
    ELSE r

\* Mutant: the outcome is written and nobody is woken.
LeaveQuietly(p, k, r) ==
    /\ row' = [row EXCEPT ![k] = r]
    /\ runtime' = [runtime EXCEPT ![p][k].held = FALSE]
    /\ UNCHANGED waiter

\* a worker's last locked section: the row, the runtime entry, the wake-up
Settle(p, k, r) ==
    /\ row' = [row EXCEPT ![k] = r]
    /\ runtime' = [runtime EXCEPT ![p][k].held = FALSE]
    /\ NotifyAll(p)

(***************************************************************************)
(* The registry's life: one owner of the database file at a time           *)
(***************************************************************************)
\* __init__: takes the flock or fails, then marks what it finds unfinished
Open(p) ==
    /\ phase[p] = "off"
    /\ \A q \in Processes : phase[q] \notin {"open", "closed"}
    /\ phase' = [phase EXCEPT ![p] = "open"]
    /\ row' = [k \in Keys |-> MarkUnknown(row[k])]
    /\ NewThreads(p)
    /\ UNCHANGED historyVars

\* the process exits or dies: its daemon threads go, the flock is released
Die(p) ==
    /\ phase[p] # "off"
    /\ phase' = [phase EXCEPT ![p] = "off"]
    /\ NewThreads(p)
    /\ UNCHANGED <<row, historyVars>>

LiveThreads(p) ==
    {t \in JobThreads :
        \/ t[1] = "worker" /\ worker[p][t[2]] # "none"
        \/ t[1] = "callback" /\ canceller[p][t[2]] \in {"registered", "running"}}

\* the threads close() takes to join, those that may still be alive
ToJoin(p) == LiveThreads(p)

\* close(), first call: unfinished jobs become unknown, the registry refuses
\* everything from here on, every cancel_event is set
CloseBegins(p) ==
    /\ phase[p] = "open"
    /\ phase' = [phase EXCEPT ![p] = "closed"]
    /\ row' = [k \in Keys |-> MarkUnknown(row[k])]
    /\ runtime' = [runtime EXCEPT ![p] =
                     [k \in Keys |-> [runtime[p][k] EXCEPT
                        !.cancelEvent = @ \/ runtime[p][k].held]]]
    /\ joining' = [joining EXCEPT ![p] = [busy |-> TRUE, threads |-> ToJoin(p)]]
    /\ NotifyAll(p)
    /\ UNCHANGED <<worker, canceller, historyVars>>

\* close() again, after one that returned False or raised
CloseRetried(p) ==
    /\ phase[p] = "closed" /\ ~joining[p].busy
    /\ joining' = [joining EXCEPT ![p] = [busy |-> TRUE, threads |-> ToJoin(p)]]
    /\ UNCHANGED <<row, phase, worker, runtime, canceller, waiter, historyVars>>

\* a joined thread is still alive at the deadline: False; or was registered
\* and not yet started: join() raises.  The flock stays owned either way.
CloseGivesUp(p) ==
    /\ joining[p].busy
    /\ joining[p].threads \cap LiveThreads(p) # {}
    /\ joining' = [joining EXCEPT ![p] = NotJoining]
    /\ UNCHANGED <<row, phase, worker, runtime, canceller, waiter, historyVars>>

\* all joined: the store is closed, the flock released, close() returns True
CloseReleases(p) ==
    /\ joining[p].busy
    /\ joining[p].threads \cap LiveThreads(p) = {}
    /\ joining' = [joining EXCEPT ![p] = NotJoining]
    /\ phase' = [phase EXCEPT ![p] = "released"]
    /\ UNCHANGED <<row, worker, runtime, canceller, waiter, historyVars>>

(***************************************************************************)
(* submit()                                                                *)
(***************************************************************************)
\* Mutant: a job whose outcome is unknown is accepted and run again.
AbsentOrUnknown(k) == row[k].status \in {"absent", "unknown"}

IsNew(k) == row[k].status = "absent"

\* a new identity: the row is inserted and the worker started under the lock
Submit(p, k) ==
    /\ phase[p] = "open"
    /\ IsNew(k)
    /\ Cardinality({j \in Keys : row[j].status # "absent"}) < MaxJobs
    /\ row' = [row EXCEPT ![k] = [NoRow EXCEPT !.status = "accepted"]]
    /\ runtime' = [runtime EXCEPT ![p][k] = [NoRuntime EXCEPT !.held = TRUE]]
    /\ worker' = [worker EXCEPT ![p][k] = "starting"]
    /\ NotifyAll(p)
    /\ UNCHANGED <<phase, canceller, joining, historyVars>>

\* a known identity: the caller gets the old handle, nothing runs again
Resubmit(p, k) ==
    /\ phase[p] = "open"
    /\ ~IsNew(k)
    /\ NotifyAll(p)
    /\ UNCHANGED <<row, phase, worker, runtime, canceller, joining, historyVars>>

(***************************************************************************)
(* _run_job: the worker thread                                             *)
(***************************************************************************)
\* first locked section: runs the job if it is still to be run
WorkerStarts(p, k) ==
    /\ worker[p][k] = "starting"
    /\ phase[p] = "open" /\ runtime[p][k].held
    /\ row[k].status = "accepted"
    /\ row' = [row EXCEPT ![k].status = "running"]
    /\ worker' = [worker EXCEPT ![p][k] = "executing"]
    /\ executed' = [executed EXCEPT ![k] = @ + 1]
    /\ NotifyAll(p)
    /\ UNCHANGED <<phase, runtime, canceller, joining, stopped, confirmed>>

\* cancelled before it was dispatched
WorkerSkips(p, k) ==
    /\ worker[p][k] = "starting"
    /\ phase[p] = "open" /\ runtime[p][k].held
    /\ row[k].status = "cancel_requested"
    /\ Settle(p, k, [row[k] EXCEPT
                       !.status = "cancelled",
                       !.physical = IF k \in Stoppable THEN "stop_requested"
                                                       ELSE "stop_unconfirmed"])
    /\ worker' = [worker EXCEPT ![p][k] = "none"]
    /\ UNCHANGED <<phase, canceller, joining, historyVars>>

\* the registry was closed first: nothing is run
WorkerReturns(p, k) ==
    /\ worker[p][k] = "starting"
    /\ ~(phase[p] = "open" /\ runtime[p][k].held
         /\ row[k].status \in {"accepted", "cancel_requested"})
    /\ worker' = [worker EXCEPT ![p][k] = "none"]
    /\ UNCHANGED <<row, phase, runtime, canceller, joining, waiter, historyVars>>

\* Mutant: a late result is recorded although the registry was closed.
NeverLate(p) == FALSE

\* the last locked section finds the registry closed
Late(p) == phase[p] # "open"

\* Mutant: the result counts whatever happened to the request meanwhile.
NeverCancelled(p, k) == FALSE

WasCancelled(p, k) == runtime[p][k].cancelEvent \/ row[k].cancelRequested

\* the stop was asked for and never answered
PhysicalOfCancelled(r) == IF r.physical = "stop_requested" THEN "stop_unconfirmed" ELSE r.physical

\* execute() returned or raised; its value is dropped if the job was cancelled
WorkerEnds(p, k) ==
    /\ worker[p][k] = "executing"
    /\ ~Late(p)
    /\ IF WasCancelled(p, k)
       THEN Settle(p, k, [row[k] EXCEPT !.status = "cancelled",
                                        !.physical = PhysicalOfCancelled(row[k])])
       ELSE \/ Settle(p, k, [row[k] EXCEPT !.status = "failed", !.physical = "unknown"])
            \/ \E physical \in CompletedPhysicals :
                  Settle(p, k, [row[k] EXCEPT !.status = "completed", !.physical = physical])
    /\ worker' = [worker EXCEPT ![p][k] = "none"]
    /\ UNCHANGED <<phase, canceller, joining, historyVars>>

\* execute() came back after close(): the row already says unknown
WorkerEndsLate(p, k) ==
    /\ worker[p][k] = "executing"
    /\ Late(p)
    /\ Settle(p, k, row[k])
    /\ worker' = [worker EXCEPT ![p][k] = "none"]
    /\ UNCHANGED <<phase, canceller, joining, historyVars>>

\* a transaction of the worker fails: the exception ends the thread
WorkerLost(p, k) ==
    /\ k \in Unreliable
    /\ worker[p][k] # "none"
    /\ phase[p] = "open"
    /\ worker' = [worker EXCEPT ![p][k] = "none"]
    /\ UNCHANGED <<row, phase, runtime, canceller, joining, waiter, historyVars>>

(***************************************************************************)
(* cancel() and the thread of its callback                                 *)
(***************************************************************************)
Cancellable(p, k) ==
    /\ phase[p] = "open"
    /\ row[k].status \in Unfinished
    /\ runtime[p][k].held

\* Mutant: the callback is kept for jobs that already run.
CallsBackRunning(p, k) ==
    k \in Stoppable /\ ~runtime[p][k].cancelInvoked /\ row[k].status = "running"

\* only the first cancel() of a job carries the callback
CallsBack(p, k) == k \in Stoppable /\ ~runtime[p][k].cancelInvoked

Cancel(p, k) ==
    /\ Cancellable(p, k)
    /\ row' = [row EXCEPT ![k] = [status |-> "cancel_requested",
                                  physical |-> "stop_requested",
                                  cancelRequested |-> TRUE]]
    /\ runtime' = [runtime EXCEPT ![p][k].cancelEvent = TRUE, ![p][k].cancelInvoked = TRUE]
    /\ canceller' = IF CallsBack(p, k) THEN [canceller EXCEPT ![p][k] = "marked"]
                                       ELSE canceller
    /\ NotifyAll(p)
    /\ UNCHANGED <<phase, worker, joining, historyVars>>

\* the transaction of cancel() fails after the event and the flag were set
CancelFails(p, k) ==
    /\ k \in Unreliable
    /\ Cancellable(p, k)
    /\ runtime' = [runtime EXCEPT ![p][k].cancelEvent = TRUE, ![p][k].cancelInvoked = TRUE]
    /\ UNCHANGED <<row, phase, worker, canceller, joining, waiter, historyVars>>

\* Mutant: the thread is registered without looking at _closed.
MayAlwaysRegister(p) == TRUE

MayRegister(p) == phase[p] = "open"

\* the lock was given up in between: a registry closed since drops the callback
RegisterCallback(p, k) ==
    /\ canceller[p][k] = "marked"
    /\ canceller' = [canceller EXCEPT ![p][k] = IF MayRegister(p) THEN "registered" ELSE "none"]
    /\ UNCHANGED <<row, phase, worker, runtime, joining, waiter, historyVars>>

\* start(), without the lock; the thread enters the cancel callback
StartCallback(p, k) ==
    /\ canceller[p][k] = "registered"
    /\ canceller' = [canceller EXCEPT ![p][k] = "running"]
    /\ stopped' = stopped \cup {k}
    /\ UNCHANGED <<row, phase, worker, runtime, joining, waiter, executed, confirmed>>

\* the cancel callback answers; a job that ended otherwise, or a closed
\* registry, drops the answer
CallbackEnds(p, k) ==
    /\ canceller[p][k] = "running"
    /\ \E answer \in CancelAnswers :
         /\ confirmed' = IF answer = "stopped" THEN confirmed \cup {k} ELSE confirmed
         /\ row' = IF phase[p] = "open" /\ row[k].status \in {"cancel_requested", "cancelled"}
                   THEN [row EXCEPT ![k].physical = answer]
                   ELSE row
    /\ canceller' = [canceller EXCEPT ![p][k] = "none"]
    /\ NotifyAll(p)
    /\ UNCHANGED <<phase, worker, runtime, joining, executed, stopped>>

(***************************************************************************)
(* wait()                                                                  *)
(***************************************************************************)
Wait(p, k) ==
    /\ phase[p] = "open"
    /\ waiter[p][k] = "none"
    /\ row[k].status # "absent"
    /\ waiter' = [waiter EXCEPT ![p][k] = "checking"]
    /\ UNCHANGED <<row, phase, worker, runtime, canceller, joining, historyVars>>

\* returns or raises the outcome, raises JobClosed, or sleeps on the condition
WaitChecks(p, k) ==
    /\ waiter[p][k] = "checking"
    /\ waiter' = [waiter EXCEPT ![p][k] =
                    IF phase[p] = "open" /\ row[k].status \notin Terminal
                    THEN "blocked" ELSE "none"]
    /\ UNCHANGED <<row, phase, worker, runtime, canceller, joining, historyVars>>

\* the timeout of wait() passes: JobTimeout, or the outcome if there is one
WaitTimesOut(p, k) ==
    /\ waiter[p][k] = "blocked"
    /\ waiter' = [waiter EXCEPT ![p][k] = "none"]
    /\ UNCHANGED <<row, phase, worker, runtime, canceller, joining, historyVars>>

----------------------------------------------------------------------------
ProcessNext(p) ==
    \/ Open(p) \/ Die(p)
    \/ CloseBegins(p) \/ CloseRetried(p) \/ CloseGivesUp(p) \/ CloseReleases(p)

WorkerNext(p, k) ==
    \/ WorkerStarts(p, k) \/ WorkerSkips(p, k) \/ WorkerReturns(p, k)
    \/ WorkerEnds(p, k) \/ WorkerEndsLate(p, k)

CallbackNext(p, k) == RegisterCallback(p, k) \/ StartCallback(p, k) \/ CallbackEnds(p, k)

JobNext(p, k) ==
    \/ Submit(p, k) \/ Resubmit(p, k)
    \/ WorkerNext(p, k) \/ WorkerLost(p, k)
    \/ Cancel(p, k) \/ CancelFails(p, k) \/ CallbackNext(p, k)
    \/ Wait(p, k) \/ WaitChecks(p, k) \/ WaitTimesOut(p, k)

Next == \E p \in Processes : ProcessNext(p) \/ \E k \in Keys : JobNext(p, k)

Spec == Init /\ [][Next]_vars

\* Threads get to run, and the callbacks return: execute is "one short
\* callback" (submit) and the stops behind cancel are bounded by their timeouts.
Fairness ==
    \A p \in Processes : \A k \in Keys :
        WF_vars(WorkerNext(p, k)) /\ WF_vars(CallbackNext(p, k)) /\ WF_vars(WaitChecks(p, k))

FairSpec == Spec /\ Fairness

(***************************************************************************)
(* Properties                                                              *)
(***************************************************************************)
\* The variables have the types of the tables, threads and events they stand for.
TypeOK ==
    /\ row \in [Keys -> Rows]
    /\ phase \in [Processes -> Phases]
    /\ worker \in [Processes -> [Keys -> WorkerStates]]
    /\ runtime \in [Processes -> [Keys -> Runtimes]]
    /\ canceller \in [Processes -> [Keys -> CancellerStates]]
    /\ joining \in [Processes -> [busy : BOOLEAN, threads : SUBSET JobThreads]]
    /\ waiter \in [Processes -> [Keys -> WaiterStates]]
    /\ executed \in [Keys -> Nat]
    /\ stopped \in SUBSET Keys
    /\ confirmed \in SUBSET Keys

\* A job's execute callback is entered at most once, whatever is submitted
\* again, cancelled, closed, or found unfinished by the process after a crash
\* ("never replayed", the module's doc).
ExecutedOnce == \A k \in Keys : executed[k] <= 1

\* A job whose cancellation was acknowledged never ends as completed or
\* failed: _run_job drops the value execute() returned meanwhile.
CancelDiscardsResult ==
    \A k \in Keys : row[k].cancelRequested =>
        row[k].status \in {"cancel_requested", "cancelled", "unknown"}

\* The record says that the robot stopped only if the job's own cancel
\* callback answered so; an end of the job, a close or a restart never
\* turns a request to stop into a stop.
StopNotOverclaimed == \A k \in Keys : row[k].physical = "stopped" => k \in confirmed

\* Once a job was asked to stop, its record says what became of the stop
\* for ever, over close() and restarts; a job whose outcome is unknown then
\* has an unconfirmed stop.
StopDoubtPersists ==
    \A k \in Keys : row[k].cancelRequested =>
        /\ row[k].physical \in {"stop_requested", "stopped", "stop_unconfirmed"}
        /\ row[k].status = "unknown" => row[k].physical = "stop_unconfirmed"

\* What is on record of a cancelled job: no result of the work that was given up, and of
\* the robot's stop nothing claimed and nothing forgotten.
CancelRecordHonest == CancelDiscardsResult /\ StopNotOverclaimed /\ StopDoubtPersists

\* Callbacks of two processes never run at the same time: close() gives up
\* the flock only when its worker and callback threads have ended and no
\* cancel() still on its way can start one.
OneProcessRuns ==
    \A p, q \in Processes :
        (p # q /\ LiveThreads(p) # {}) =>
            /\ LiveThreads(q) = {}
            /\ phase[p] \in {"open", "closed"}

\* Both of what keeps one job's work from being done twice: by a second execution, and
\* by the callbacks of a process that has given up the flock (jobs.py:790, 447).
OneExecution == ExecutedOnce /\ OneProcessRuns

\* An acknowledged cancel() of a job with a cancel callback has entered the
\* callback, or is on its way to, as long as the registry is open.
CallbackReached(p, k) ==
    (phase[p] = "open" /\ runtime[p][k].held /\ row[k].cancelRequested) =>
        canceller[p][k] # "none" \/ k \in stopped

\* It does for every job none of whose transactions fails, whatever happens
\* to the transactions of the other jobs.
CancelReachesCallback ==
    \A p \in Processes : \A k \in Stoppable \ Unreliable : CallbackReached(p, k)

\* A final status never changes, and the record of a job that ended
\* otherwise than cancelled never changes at all: late workers, late cancel
\* callbacks, close() and the recovery of the next process leave it alone.
VerdictFinal ==
    [][\A k \in Keys : row[k].status \in Terminal =>
          /\ row'[k].status = row[k].status
          /\ row[k].status # "cancelled" => row'[k] = row[k]]_vars

\* Every call of wait() returns, with the outcome or with JobClosed: no
\* change of a job's status leaves its waiters asleep.  Of the jobs whose
\* transactions do not fail: a worker that dies of one leaves the row running.
WaitsReturn ==
    \A p \in Processes : \A k \in Keys \ Unreliable : waiter[p][k] # "none" ~> waiter[p][k] = "none"
=============================================================================
