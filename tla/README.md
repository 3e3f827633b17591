# EmbodiRun: TLA+ models, checks and proofs

EmbodiRun deploys and runs robot policies. Beside each robot runs a *Control* service that owns the
hardware: it lets a model, an operator at a keyboard or joystick, and agents over HTTP take turns on
one robot, stops the robot on demand, shares and records the observations, and survives restarts with
a record of what it did. This directory models the parts of the system in which threads, processes,
crashes, timeouts and stops meet: who may move the robot, what a stop guarantees, who owns the device,
which observations are current, what is remembered of a job or a recording, whether a deployed service
is running, and who drives the XLeRobot, which has a server of its own. Paths below are relative
to `src/embodirun/` of the repository unless they start with `docs/`, `tests/` or `integrations/`.

Contents: 1 the system, 2 the modules, 3 the runs, 4 bounds and fairness, 5 the proofs,
6 what the models showed, 7 what is not modelled, 8 the plan.

## 1. The system

Three kinds of process (`docs/architecture.md`). **Host**, the command line on the operator's machine,
turns a YAML file into a plan, prepares nodes over ssh and starts services. **Inference** services
answer with action chunks. **Control** runs beside the robot; it is one Python process with many
threads (HTTP handlers, the arbiter's worker and watchdog, the I/O scheduler's worker, job workers,
cancel callbacks, observation sources, a recorder). A Unitree Go2 has a fourth, its on-board agent. An
XLeRobot is owned by a server outside Control (`integrations/xlerobot_owner`), which clients ask over HTTP
and on which nothing else in this picture depends. The path of a command in Control:

    HTTP handler / model loop / job          ControlService            application/
      -> RobotControlArbiter                 authority, queues         devices/execution/arbitration.py
      -> RobotAdapterCommandPort             one robot's port          devices/execution/arbitration.py
      -> RobotIOScheduler                    one bus, one driver call  devices/execution/io.py
      -> RobotAdapter                        vendor SDK                robots/
      -> (Go2) ActionExecutor, SdkOwner      lease, native thread      robots/unitree/go2/agent/control/

`DeviceManager` (devices/lifecycle.py) decides which process may open the device under the scheduler,
and `JobRegistry` (application/jobs.py) wraps whatever takes long in a persistent job. Observations go
the other way: source workers, `ObservationProducer`, `ObservationStore`, and from there to HTTP
readers and the recorder.

| Component | State | Operations | What is hard | What makes it correct |
|---|---|---|---|---|
| Robot I/O scheduler `devices/execution/io.py` | deque, read counter, the one queued stop, active request, quarantine, last stop | execute, read, stop (serialized or preemptive), recover, close; one worker thread | a driver call that has begun cannot be interrupted; the caller's wait races the worker; stops overtake | truthful answers, consistent queue, quarantine after an abandoned call, honest close, stops first and always answered |
| Control arbiter `devices/execution/arbitration.py` | authority, FIFO of automatic commands, one manual slot, active command, task token, deadman, `_hold_in_progress`, stop generation | begin/finish/cancel a task, submit, takeover, release, deadman, hold, emergency stop, reset, close; worker and watchdog threads | every operation gives the lock up while it stops the robot | nothing runs for a side that lost the authority; a latch stays until a later reset; every command gets an outcome |
| Job registry `application/jobs.py`, `job_store.py` | SQLite rows, flock, runtimes, threads | submit, cancel, wait, get, close, recovery | crash, restart and close between any two steps; late results and late cancel callbacks | at most one execution, final verdicts, no stop claimed without confirmation |
| Device manager `devices/lifecycle.py` | records, leases, flock per physical identity, ledger file of failures | acquire, prepare, release, mark and clear, close | the lock is given up around the closer; two processes; shared buses | one owner, one closer, failures outlive everything but an operator |
| Control service `application/control_service.py`, `direct_execution.py` | latch, owner of manual control, current task, three locks, arbiter, the components above | execute, direct jobs and their cancel, takeover, release, stop, reset, observe, close | a robot that is not there yet; jobs that take it from one another; a close that fails halfway | a stop is honoured from before there is a robot, one operator at a time, a robot is left held |
| Go2 on-board agent `robots/unitree/go2/agent/control/` | motion lease, worker, native owner thread, fault latch | stream, move, posture, stop, close, restart | native calls that outlast their wait, a stop behind a slow motion | no motion after a stop or a fault, truthful stop answers |
| Observation store, hub, producer `devices/observations/` | latest snapshots, subscriptions, generations, source workers | publish, subscribe, capture, reconnect, close | late frames, hung cameras, reconnects at any moment | no frame of an old request, no snapshot from before a reconnect, bounded waits |
| Recorder `devices/recording.py` | two queues, state, files, manifest | start, record, stop | bounded stop, failing writer, slow disk | what was dropped is in the manifest |
| Deployment `deployment/` | state file on the host; pid file, identity file and processes on the node | init, up, down; the start and stop agents | no lock between two agents or two commands, crashes, lost answers, reused pids | no service forgotten, no stranger signalled, "stopped" means stopped |
| XLeRobot owner `integrations/xlerobot_owner/` | `HardwareRobot`: active, owned and stopped scopes, four flags of doubt; the leases `robot_owner`, `robot_owners`, `stop_unconfirmed`; the clients' owner tokens | enable, command, stop, release, observe; watchdog; exit, crash, handoff, restart | requests handled after their sender gave up, the watchdog between the steps of a handler, stops that cannot be confirmed, a restart while the motors are powered | one unconfirmed stop ends everybody's control, control belongs to the enable it came from, silence disarms |
| Simulation service, model services, client, HTTP API, inputs/teleop, camera streaming, robot adapters, simulators, agents and examples | see section 7 | | | |

How they interact. The service calls the arbiter, and waits in it, while it holds its own locks; the
arbiter never calls back, so there is no cycle. The service's `_manual_operation_lock`
(control_service.py:1085, 1122) is the only one of its locks that arbiter operations rely on, and it is
part of the arbiter's model. The arbiter calls the port without its own lock and the port calls the
scheduler, which waits with a timeout. A job's `execute` callback drives the arbiter from the job's
worker thread and its cancel callback from another. The device manager is asked before a port is built
and after the arbiter was closed; it learns of failed stops through `mark_uncertain`. A recorder is one
more subscriber of the store. The host's commands reach a node only through short-lived agents, which
share nothing but two files.


## 2. The modules

| Module | Models | Kind |
|---|---|---|
| `RobotPort` | what the scheduler promises its callers | abstract specification |
| `RobotIO`, `DriverProofs`, `MCRobotIO` | `RobotIOScheduler`, which implements `RobotPort` | specification, proofs, instance |
| `Arbiter`, `ArbiterProofs`, `MCArbiter` | `RobotControlArbiter`, its port, and the scheduler seen from the arbiter | specification, proofs, instances |
| `JobRegistry`, `RecoveryProofs`, `MCJobRegistry` | `JobRegistry` over `SQLiteJobStore` | specification, proofs, instances |
| `DeviceManager`, `DeviceManagerProofs`, `MCDeviceManager` | `DeviceManager`, `DeviceStateStore`, `_PosixResourceLock` | specification, proofs, instances |
| `Go2Agent`, `Go2AgentProofs`, `MCGo2Agent` | `ActionExecutor`, `MotionLease`, `SdkOwner`, the server around them and the `Go2Adapter`'s lease | specification, proofs, instances |
| `ControlService`, `ControlServiceProofs`, `MCControlService` | `ControlService` and `DirectExecutionRunner` over the contract of the arbiter | composition, proofs, instances |
| `ObservationStore` | `ObservationStore`, `ObservationSubscription` | state and operations, used by the next two |
| `Observations`, `ObservationsProofs`, `MCObservations` | `ObservationProducer`, source workers, hub | composition, proofs, instance |
| `Recorder`, `RecorderProofs`, `MCRecorder` | `ObservationRecorder` and a streaming reader as subscribers | composition, proofs, instance |
| `Supervisor` | the node's side of a service: the agent of supervisor.py, its files, the processes | state and operations, used by the next |
| `Deployment`, `RecoveryProofs`, `MCDeployment` | `up`, `down`, `init` and the state file over the agents | composition, proofs, instance |
| `XLeRobotHardware` | `HardwareRobot` and the motors under it | state and operations, used by the next |
| `XLeRobotOwner`, `DriverProofs`, `MCXLeRobotOwner` | the robot endpoint and its leases, `RemoteRobot` clients, watchdog, restarts | composition, proofs, instance |

Two modules of proofs serve two specifications each: `DriverProofs` those that own a driver, `RobotIO` and
`XLeRobotOwner`, and `RecoveryProofs` those that outlive a process, `JobRegistry` and `Deployment`. They extend
both; the definitions of the two have different names, and no lemma is used across the halves.

All follow the same rules. A section of code that holds the component's lock is one step; what happens
without the lock (a driver call, a callback, a closer, the expiry of a wait) is a step of its own, so
every interleaving the locks permit is in the model. Time is not counted: a timeout, deadline or
heartbeat may expire at any moment it is being waited for. Values that no decision depends on (actions,
results, timestamps, messages) are left out. History variables record what the properties talk about
and never guard a step. Mutants, operators whose comment begins with "Mutant:", are plausible bugs of
the definition that follows them; each property is falsified by one of them under its own run.
`PROJECT.json` maps each definition to the lines it stands for.

### RobotIO and RobotPort

One member of `Requests` is one call. The caller's side (`phase`, `answer`) and the worker's side
(`started`, `cancelled`, `detached`, `done`, `result`) are separate, as in `_Request`, because the
hazard is that they disagree. The deque is the set `queue` and the relation `ahead`, which is all that
`popleft`, `append` and `appendleft` distinguish.

| Code | Actions |
|---|---|
| `_submit` up to `enqueue` | `Submit` (`Admission` gives the refusals in the code's order) |
| the wait in `_submit` | `WaitReturns`, `WaitExpires`, then `LateNotStarted` or `LateStarted` under the lock |
| `cancel_event`, `deadline_s` of the caller | `SetCancelEvent`, `DeadlinePasses` |
| `_preemptive_stop` | `PreemptiveCall`, `PreemptiveEnter`, `PreemptiveReturns` (its thread), `PreemptiveAnswer`; on timeout `PreemptiveLate`, `PreemptiveNote` |
| `_run` | `Pop`, `Skip` (expired, cancelled), `Invoke`, `CallReturns` |
| `recover`, `close` | `Recover`; `Close`, `ReportClose` |

`RobotPort` says what the arbiter, the observers and the stop handlers may rely on, with no queue
order, flag, lock or wait in it: a call waits, is taken by the worker, begins and ends in the driver,
or is discarded for good; a waiting stop is never discarded and nothing that moves or reads is taken
while one waits; an answer, given whenever the caller stops waiting, stays true; nothing begins after
`close()` reported the port drained. `RobotIO!PortKept` is `Port!Spec` under the refinement
mapping `accepted <- queue`, `taken <- active`, `urgent <- preCall`, `ended <- (closeReport = "COMPLETED")`.

### Arbiter

`job[t]` is the operation a service thread, the worker or the watchdog is in, and `stop[t]` what has
become of the stop it asked the port for (asked, queued, driving, ok, bad). The port is the scheduler
of `RobotIO` from outside: one command or serialized stop in the driver at a time, a second queued
stop refused, timeouts and driver errors if `Faulty`; a `Preemptive` emergency stop (the fr3 adapter)
runs beside the command.

| Code | Actions |
|---|---|
| `begin_automatic_task`, `submit`, `submit_manual` | `BeginTask`, `SubmitAutomatic`, `SubmitManual` |
| `cancel_automatic_work`, `finish_automatic_work` | `CancelTask`; `FinishTask`, `DetachTask`; `SetToken` for the callers that set the token alone |
| `acquire_manual`, `release_manual` | `AcquireManual`, `JoinEnds` (`_wait_for_hold`); `ReleaseManual` |
| `set_deadman`, `_watch_deadman` | `PressDeadman`, `ReleaseDeadman`, `DeadmanExpires` |
| `hold`, `_finish_hold` | `Hold`; `HoldSucceeds`, `HoldFails` for everyone who holds |
| `emergency_stop`, `reset_emergency_stop` | `EmergencyStop`, `EmergencyStopReturns`; `Reset`, `ResetReturns` |
| `close` | `Close`, `CloseHolds`, `ClosePort`, `CloseReturns` |
| `_run` of the worker | `Take`, `Dispatch`, `DispatchNot`, `SettleReturned`, `SettleCancelled`, `WorkerStops`, `SettleFailed` |
| port and scheduler | `StopAdmitted`, `StopBegins`, `StopReturns`, `StopFails`; `Execute`, `Refuse`, `Withdraw`, `Abandon`, `DriverReturns` |

The port forgets a stop whose wait ended (`StopFails`): that such a stop occupies the scheduler, and
what `close()` then reports, is in `RobotIO`. `_hold_error`, which only words a later error, is left out.

`_estop_generation` becomes the set `fresh`: the releases and resets that began after the last latch,
which is what comparing generations tells. Two histories: `overtaken`, the tasks begun before the last
takeover or latch, and `unanswered`, that no reset has begun since the last latch.

### JobRegistry

`row` is the table and the only state that outlives a process. A process is `off`, `open`, `closed`
(close() was called, flock still held) or `released`. Callbacks run without the lock; what a callback
returns and the locked section that records it are one step, because nothing observes the moment
between. `dispatch_status` repeats `status`, `inference_status` follows it, and events, results and
`record_stage` (which adds events) are left out.

| Code | Actions |
|---|---|
| `__init__`, flock, `_recover_inflight_locked` | `Open`; `Die` is a crash |
| `submit` | `Submit`, `Resubmit` (the identity exists) |
| `_run_job` | `WorkerStarts`, `WorkerSkips`, `WorkerReturns`, `WorkerEnds`, `WorkerEndsLate` (the registry was closed), `WorkerLost` (the last transaction failed) |
| `cancel`, `_run_cancel_callback` | `Cancel`, `CancelFails` (its transaction failed), `RegisterCallback`, `StartCallback`, `CallbackEnds` |
| `wait` | `Wait`, `WaitChecks`, `WaitTimesOut` |
| `close` | `CloseBegins`, `CloseRetried`, `CloseGivesUp`, `CloseReleases` |

### DeviceManager

`ledger` is the state file, `flock` who holds each identity's lock file, both shared by the processes.
A resource has its own identity and those of its components (`Needs`), such as the arms of a two-armed
robot, one of which may be the robot of another service. `stage[p][a]` is how far an agent (a client that acquires
or releases a lease, or the thread in `close()`) has come. The manager's lock orders the threads of one
process and nobody else, so the acquisition of a first lease, which holds it throughout (`LockFree` is false
meanwhile), is three steps all the same: it reads the ledger (into `unresolved`; `asked` says with prepare),
it takes the flocks and starts the opener, and the opener returns, whereupon the record remembers what was
*read*. In a close nothing is locked, so the closer, what follows in `_unresolved`, in the ledger and in
the flocks are a step each.

| Code | Actions |
|---|---|
| `acquire` of a first lease | `AcquireReads`; `AcquireLocks` or `AcquireBusy`; `AcquireOpens`, `OpenFails` or `OpenFailsHalfway` (the clean-up fails too) |
| `acquire` of a record there is | `AcquireShared`; `AcquirePrepared`, `PrepareFails` |
| `_release`, `_close_record_once` | `Release`; `CloseBegins` or `CloseWaits`, `WaitEnds`; `Unlock`, `Forget` or `Quarantine` |
| `_close_record` | `CloserReturns`, `CloserFails`; `PopUnresolved`, `ClearLedger` |
| `close` | `Close`, `CloseNext` |
| `mark_uncertain`, `clear_uncertainty` | `MarkUncertain`, `ClearUncertainty` (an operator) |
| a killed process | `Crash` |

The history `fault` collects the failures that must be remembered, of devices this node owns, and
`unseen` those of them that were reported too late for somebody: after another process's acquire had read the
ledger, and before it got the flocks (`late`, until it does); after a close had looked at
`uncertain_before`; or after the flocks had gone to another record. For these the code has no answer
(section 6), and the properties are about the others.

### Go2Agent

Handlers hold `_lifecycle_lock` for a whole operation, so there is one operation `op`, at `opAt`; a motion
has a worker, at most one alive. Both make native calls through the owner thread: `queue` is its FIFO,
`current` what it has taken, and `future` and `waiting` are the two sides of the call a caller waits for.
A caller that gives up detaches its call, which stays in the queue or in flight.

| Code | Actions |
|---|---|
| `SdkOwner._call`, its wait | `Submit`; `WaitDone`, `WaitCancels`, `WaitExpires`, `WaitFaults` |
| `SdkOwner._run` | `OwnerInit`, `OwnerTakes`, `OwnerRefuses`, `OwnerCalls`, `SdkReturns` (external), `OwnerReturns`, `OwnerExits` |
| motion worker | `WorkerTests`, `WorkerLocks`, `WorkerStops`, `WorkerSubmits`, `WorkerResumes`; `LeaseElapses` |
| motion, posture, stop, close | `StartMotion`; `OpBegins`, `OpJoins`, `OpLocks`, `OpSubmits`; `StopReturns`, `PostureStopped`, `PostureReturns`, `CloseStopped`, `FinalStop`, `EndOwner`, `CloseReturns` |
| `serve_control_api`, a new process | `Serve`, `Exit`, `Restart` |

### ControlService

Each caller is a thread with one call at a time, `call[c]` at `at[c]`; `close()` has its own program
counter. The arbiter is reduced to what `Arbiter` shows its callers: an authority, the token of the automatic
task, holds that succeed or latch. A command is one step, because one that is no longer admissible is
not started (`CancelledNeverStarts`). `moving` says that the robot was commanded and not held since.

| Code | Actions |
|---|---|
| `_ensure_robot_arbiter` | `EnsureFinds`, `EnsureOpens`, `Opens`, `OpeningFails`, `Interrupts`, `Prepares` |
| `execute`, `_execute_locked` | `Execute`, `TaskLock`, `Begins`, `Registers`, `Drives`, `RunEnds`, `Drops`, `Finishes`; `CancelEvent` |
| `DirectExecutionRunner` | `Direct` and the same steps; `Cancel`, `CancelsWork` |
| `acquire_manual`, `release_manual`, `submit_manual_action` | `Acquire`, `CancelsForManual`, `Takes`; `Release`, `ReleaseClears`; `DrivesManually` |
| `emergency_stop`, `reset_emergency_stop` | `EmergencyStopEarly`, `EmergencyStop`, `Latches`; `Reset`, `ResetClears` |
| holds of the arbiter | `HoldSucceeds`, `HoldFails` |
| `observe(include_robot)` | `Observe`, `Looks`, `Attaches` |
| `close` | `CloseBegins`, `CloseReads`, `CloseArbiter`, `CloseHolds`, `CloseHub`, `CloseManager`, `CloseEnds` |

### ObservationStore, Observations, Recorder

The store's lock covers each operation on the store but not the queues: `publish` and a replay put
snapshots into the queues after they gave it up, so `offers`, `replays` and `unshut` hold what is still to
be done, and `Offer`, `Replay`, `Shut` do it. In `Observations` two threads publish, the loop and a request
(`BeginRound`); a round asks each camera (`AskTakes`, `AskRequests`, `AskReports`), waits (`Arrives`, `WaitEnds`),
compares generations, asks for an id and publishes (`Compare`, `NameSnapshot`, `PublishSnapshot`,
`OfferTo`); cameras capture in workers (`WorkerBegins`, `WorkerEnds`); `reconnect` and `close` take none of
the round's locks. A close that finds the producer closed answers True at once (`CloseAgain`); `answered` and
`hasty` remember such answers, and whether one came before the first close had answered True. A frame is the round it was requested in, which is all that
freshness is about. In `Recorder` a snapshot is its sequence number; the producer is a sequence of publications, and the writer
is followed through its loop (`WriteAction`, `TakeSnapshot`, `FindNone`, `AfterNone`, `WriteSnapshot`,
`AfterSnapshot`, `LastDrainEnds`, `End`), with any write failing. The histories `due`, `looked` and `actions`
say what the files should hold, `stream` and `replayed` what the other reader got.

### Supervisor and Deployment

`process` is the node's process table: the service, or anything else, with the moment of its birth, which
is what `/proc/<pid>/stat` gives as identity. An agent takes one step per read or change of the files,
signal or spawn, and may be killed between any two (`AgentFails`). A service may exit at any time
and may ignore SIGTERM; a pid that is free may be taken by a stranger.

| Code | Actions |
|---|---|
| `_agent_start` | `AgentBegins`, `Look`, `Check`, `UnlinkPid`, `UnlinkIdentity`, `Spawn`, `WriteIdentity`, `WritePid`, `Look`, `Check` |
| `_agent_stop`, `_terminate_process_group` | `AgentBegins`, `Look`, `Check`, `Terminate`, `SeesItGone` or `Kill`, `UnlinkPid`, `UnlinkIdentity` |
| `StateStore` | `Begin` (load), `Save` |
| `up` | `Ask`, `CannotStart`, `TakeAnswer` or `LosesAgent`, then `Ready`, `ExitedBeforeReady` or `NotReadyInTime` |
| `down` | `Ask`, `PassesBy`, `TakeAnswer` or `LosesAgent` |
| `init` | `InitChanged`, `InitKeeps` |
| an interrupted command | `CommandDies` |

Three histories name what the code has no answer to: `tangled` (two agents were at work on the files at
the same time), `strayed` (births whose agent ended before the pid file was written) and `untold` (births
whose command ended before its save, or whose record `init` replaced); `crossed` says that two commands
were under way, of which the later save wins.

### XLeRobotHardware and XLeRobotOwner

Each public method of `HardwareRobot` runs under `_io_lock`, so it is one operator, from a robot to the set
of its outcomes: servos may refuse a write, misread, or take a write whose answer is lost, and all that the
class learns is whether a stop was confirmed. The joints fall into two scopes, the arms and the base. Handlers
of `robot_endpoint` take `control_lock` in turn (`handler`), but the watchdog thread does not, so a handler
has steps: it reads the control state, prunes and tests the leases, calls the robot and records the result.

| Code | Actions |
|---|---|
| `RemoteRobot` and the program around it | `Enable`, `Drive`, `Halt`; a timeout is `GiveUp`, a lost request or connection `ConnectionLost`, `LateLost` |
| `robot_endpoint`, `refresh_robot_owners` | `Accept` (lock, control state), `Resume` (leases), `Call` (`Platform.call` and the results); `Observe` |
| `tick` of the server, its `close` | `TickFault`; `Exit`, and then `Call` |
| `_watchdog_loop` | `WatchdogFires` |
| `_stop_locked`, `stop`, `stop_all` | `Halted`, `StopOf`, `Stop` |
| `_preflight`, `arm`, `command` | `Preflight`, `MayArm`, `Arm`; `Command` |
| `validate_snapshot`, `restore_stop_fault`, `restore_held_state`, `main` | `HandOver`; `FaultRestart`, `HeldRestart`, `Restart` |
| a killed process, the power switch | `Crash`, `PowerOff` |

Two histories: `doubt`, the scopes whose last stop, enable or command went wrong and that no stop has
confirmed at rest since (and `"inherited"`, for a fault taken over); and `armedBy`, the client and its enable that
activated each scope. A stop whose sender gives up is lost, never late: a late one would do what the
all-stop of any client may do at any time.

## 3. The runs

| Run | Instance | Properties | Distinct states |
|---|---|---|---|
| `io_scheduler` | 2 requests, every kind of call, limits 1 and 1 | `QueueConsistent AbandonedCallQuarantines PortKept StopsGetThrough` | 152 thousand |
| `arb_handover` | 1 ticket, 1 task, 2 threads, 3 calls, preemptive stop, faulty driver | `OvertakenTaskSilent AuthorityRespected StopsAreFinal CancelledNeverStarts EverythingEnds` | 798 thousand |
| `arb_two_resets` | 1 ticket, 1 task, 2 threads, 4 calls | `ResetLeavesNothingToRun`, violated | |
| `jobs_registry` | 2 jobs, 2 processes | `OneExecution CancelRecordHonest CancelReachesCallback VerdictFinal WaitsReturn` | 288 thousand |
| `dev_ownership` | 2 processes with restarts, one with 2 clients of a two-armed robot and a shutdown, one with a client of one of the arms | `SingleOwner FaultKept NoBlindPrepare ClosesReturn` | 307 thousand |
| `go2_agent` | all operations, 2 queued calls, hung calls, restarts | `StopReportHonest StopsComeFirst NoMotionAfterStop AdapterKeepsLiveLease OpsAndMotionsEnd` | 452 thousand |
| `control_service` | 2 callers with every kind of call, beside close | `StopHonoured DriversEntitled LeftAtRest` | 3.9 million |
| `control_lost_stop` | 2 callers: execute, emergency stop, observe | `StopAlwaysHonoured`, violated | |
| `observations` | 1 camera, 1 subscriber, 2 rounds, 1 reconnect, any number of closes | `FreshFrames NothingFromBefore CloseHonest NobodyHeldUp` | 338 thousand |
| `recorder` | 3 snapshots, 2 events, queues of 1 and 2 | `RecorderHonest InOrderOnce StreamsEnd` | 120 thousand |
| `deployment` | 2 commands, 2 agents, 2 pids, 3 births | `NothingForgotten StoppedMeansDown NoForeignSignal` | 2.9 million |
| `xlerobot_owner` | 2 clients: one scope each, or one of the whole robot | `DoubtStopsEverything OneDriver CommandsAreOwn SilenceDisarms` | 1.5 million |

What they show:

- **Scheduler.** Whatever the worker, the callers, deadlines, cancel events and `close()` do to the
  same request at the same moment, the scheduler behaves like `RobotPort`: a caller told "cancelled",
  "rejected" or "expired" can rely on the driver never having seen the command, now or later. The read
  counter and the stop pointer stay in step with the deque. A motion whose caller gave up quarantines the
  bus with nothing queued behind it. Stop calls are answered even if the SDK hangs, and a queued stop
  reaches the driver if it does not, also when its caller left and the scheduler closed.
- **Arbiter.** Of all operations in flight at once, none lets a command through for a side that has
  lost the authority, the deadman or the latch, and none loses a command or a waiting thread. This rests
  on one condition the code does not enforce: that resets do not overlap (`arb_two_resets`).
- **Jobs.** Over crashes, takeovers of the database and closes, no job runs twice, no final status changes
  and no stop is claimed that the callback did not confirm.
- **Devices.** No physical identity is open twice, in one process or two, not even across components,
  restarts or half-failed opens; a failure outlives closes, restarts and hand-overs to the other process, and
  a marked device is not prepared, but for failures that were marked too late (section 6).
- **Go2 agent.** After a StopMove of `stop()` or `close()` no motion reaches the SDK before a restart,
  although calls time out, hang, or stay in the queue; a stop that answered "stopped" is one; a robot
  that moves is stopped at the end of its lease as long as native calls return.
- **Control service.** Over every interleaving of two callers and close: an emergency stop
  counts from before there is a robot; one operator at a time; nobody drives an unprepared robot; and
  nobody walks away from a moving one.
- **Observations and recording.** A late frame is never lent to a later observation; nothing sampled
  before a reconnect can be looked up after it, but for one gap (section 6); a hung camera holds up
  neither publications nor close; and a close that answered True was right, unless it was called
  again too early (section 6). A recording that calls itself complete is, but for two kinds of loss (section 6).
- **Deployment.** As long as agents do not overlap, a running service is the one the files tell of,
  whatever crashed, exited or was lost; a stranger that took the pid before the agent looked is not
  signalled; and a record that says "stopped" is right.
- **XLeRobot owner.** Once a stop, an enable or a command could not be confirmed, in whichever scope, nobody
  drives until it is, whatever succeeds in the other scope and also across a handoff. Each active scope
  is leased to the enable that activated it, although the watchdog drops scopes in the middle of
  handlers; so a command that is handled late never moves what was enabled anew. And when everybody has
  fallen silent every scope is dropped.

## 4. Bounds and fairness

The systems are finite but for these bounds, all of them constants: the number of requests, tickets,
tasks, threads, jobs, callers, pids; `MaxOperations`, the number of calls service threads make of the
arbiter (submissions, deadman presses, the watchdog and the worker's own stops are not counted);
`MaxQueue` of `Go2Agent` (operations begin while fewer calls are queued); `MaxRounds`, `MaxReconnects`,
`MaxSnapshots`, `MaxActions`, `MaxSubscriptions`; `MaxBirths` and `MaxCommands`; `MaxEnables` and `MaxLate` of
`XLeRobotOwner`. `RobotIO`, `JobRegistry`,
`DeviceManager`, `Go2Agent` and `ControlService` run for ever within their finite sets.

- Two requests put a stop behind a hung call, behind another stop or in front of a motion, and reach and
  exceed limits of one. The safety properties were also checked with three requests and a queue of two
  (1.3 million states), where one is running, one waiting and a stop between.
- Three calls by two threads, next to worker and watchdog, cover a takeover that joins a failing hold, a
  reset overtaken by another emergency stop, and a close over a stop in progress. One ticket is enough for
  hand-over (the command in the driver is the one that matters); with two tickets and two tasks, for
  replacement and the full FIFO, the safety properties were checked on 2.2 million states.
- Two jobs, one without trouble and with a cancel callback and one with failing transactions, and two
  processes of which at most one holds the database.
- Two resources that share an identity are the smallest set in which component identities matter, and two
  processes the fewest in which a flock is handed over and a ledger that was read grows old. `Uses` gives
  the shared lease, the release that meets a shutdown and the second lease to the first process, and a robot of
  its own to the second; only the first calls `close` (`Stopping`), both crash and start again at any moment. The
  proofs are for any of these. The marks of one failure are written in one step, and the flocks of one
  resource taken in one: they are not waited for, and who finds one taken gives the others back.
- Two callers suffice for every pair of overlapping calls of `ControlService`, and the close makes a
  third; each call may be made again and again, so that longer histories are covered as well.
- Two rounds and a reconnect let a late frame meet the next request and a new generation. Three
  snapshots over queues of one and two overflow, leave a gap and are replayed. The safety properties of
  `recorder` were also checked with both subscriptions taken (6 million states).
- Three births on two pids: a service, its successor and a stranger that gets a pid of one of them. A
  command that is begun beside another counts twice against `MaxCommands`, so there are three in a row,
  which is enough for start, lost answer and stop, or two at a time.
- Of the two XLeRobot clients the first has an arm or the whole robot and enables once; the second, of the
  base, enables twice and may have one late request. That is the least in which a command of an
  earlier enable is handled under a later one, a late enable is granted to nobody, and a scope is dropped
  or in doubt while the other is driven. Commands, stops, crashes and restarts are not bounded.

Symmetry is used only in runs without liveness (`control_service`, `deployment`). `CHECK_DEADLOCK FALSE`
is set where the system may stop: the arbiter with its calls used up, a service or a producer that
was closed, a recorder whose snapshots are used up, commands that are used up. The others are checked
for deadlock, which in `xlerobot_owner` says little, because its server may always exit or crash.

Fairness is weak fairness, and stated per thread:

- `RobotIO`: a caller whose wait can end and a worker that can go on do so. The SDK is *not* fair:
  the first half of `StopsGetThrough` (`StopCallAnswered`) holds although a driver call never returns,
  thanks to the timeouts. Only the second (`QueuedStopInvoked`) assumes, in its statement, that driver calls
  return (`DriverAnswers`).
- `Arbiter`: threads run, and the port answers each call. The second half is what `RobotIO` guarantees
  of stops, and the timeouts of `RobotAdapterCommandPort` of commands. `EverythingEnds` is `[]<>AtRest`
  because calls are bounded; nothing forces a call to be made.
- `JobRegistry`: worker, callback and waiting threads run and callbacks return ("one short callback",
  the docstring of `submit`; cancel callbacks end with a bounded stop). Nothing is assumed of `submit`,
  `cancel`, `close`, crashes or timeouts.
- `DeviceManager`: threads run, and openers, preparers and closers return, with or without an error.
  `ClosesReturn` excludes two things in its statement: that first leases are acquired for ever (each
  holds the lock while the opener runs, and Python's locks are not fair), and that somebody calls
  `DeviceManager.close` again for ever.
- `Go2Agent`: worker, operation, owner thread and clock run while the process serves. Native calls are
  *not* fair; the half of `OpsAndMotionsEnd` that is about the robot assumes in its statement that they
  return (`SdkAnswers`).
- `Observations`: rounds and close go on, because all their waits have deadlines. Captures are not fair.
- `Recorder`: the writer, `stop`, the producer and the reader run; file operations end.
- `XLeRobotOwner`: only the watchdog, and only while no request is on its way or being handled: it wakes
  every 25 ms and by then finds expired whatever is still enabled. Handlers and clients are not fair.


## 5. The proofs

Ten specifications have proofs, in eight modules, checked by TLAPS for every value of the constants
under the assumptions the specification declares (finite sets, distinct names, limits that are natural
numbers, and, in `DeviceManager`, that externally owned resources share no identity with owned ones).

| Module | Theorems | What stays with TLC |
|---|---|---|
| `DriverProofs`, RobotIO | `TypeCorrect`, `QueueStaysConsistent`, `AnswersStayTruthful`, `AbandonedCallsQuarantine`, `CloseReportsStayHonest`, `MotionWaitsForStops`, `PortIsKept` | `StopsGetThrough` |
| `DriverProofs`, XLeRobotOwner | `OwnerTypeCorrect`, `DoubtStopsAll`, `OneDriverAtATime`, `CommandsStayOwn` | `SilenceDisarms` |
| `ArbiterProofs` | `TypeCorrect`, `OvertakenTasksStaySilent`, `LatchStaysSet`, `CleanCloseStaysFinal`, both as `StopsStayFinal`, `CancelledStaysOut`; `CommandsKeepToAuthority` if resets do not overlap | `EverythingEnds` |
| `RecoveryProofs`, JobRegistry | `TypeCorrect`, `NeverReplayed`, `CallbacksNeverOverlap`, both as `WorkIsDoneOnce`, `CancelsAreRecorded`, `VerdictsStay`, `CancelIsCarriedOut` | `WaitsReturn` |
| `RecoveryProofs`, Deployment | `DeploymentTypes`, `ServicesAreFound`, `RecordsAreRight`, `StrangersAreSpared` | |
| `DeviceManagerProofs` | `TypeCorrect`, `DevicesHaveOneOwner`, `RecordsHaveOneCloser`, `FaultsAreKept`, `NoneIsPreparedBlindly` | `ClosesReturn` |
| `Go2AgentProofs` | `TypeCorrect`, `StopReportIsHonest`, `PostureIsAlone`, `ExitIsSafe`, both as `StopsAreFirst`, `NoMotionFollowsStop`, `LiveLeaseIsKept` | `OpsAndMotionsEnd` |
| `ControlServiceProofs` | `TypeCorrect`, `LocksAreHeld`, `StopsAreHonoured`, `ManualIsAlone`, `DrivesPreparedOnly`, both as `DriversAreEntitled`, `RobotIsLeftAtRest` | |
| `ObservationsProofs` | `TypeCorrect`, `FramesAreFresh`, `NothingIsFromBefore`, `ClosedIsClosed` | `NobodyHeldUp` |
| `RecorderProofs` | `TypeCorrect`, `RecorderIsHonest`, `StreamsAreInOrder` | `StreamsEnd` |

With these, every safety property of a passing run is a theorem, `AuthorityRespected` under the one
hypothesis named. What stays with TLC, in the last column, is liveness, which the prover cannot treat:
it handles neither weak fairness nor ENABLED. The type invariants are proved and therefore not repeated
in the runs.

Each argument is an inductive invariant `IInv` with one lemma per part and one step per action:

- **RobotIO.** `IInv` adds to the properties where a request can be (`PlaceInv`: waiting ones are neither
  started nor cancelled nor answered), which driver calls have been made (`CallInv`) and `TruthInv`: a
  status saying that the driver was not called is final for the *result* the worker left as well as for
  the *answer* the caller took, so it survives the gap between the two. Counting lemmas about finite
  sets carry `_queued_reads` through each place that removes requests. `StopInv` makes
  `MotionWaitsForStops` a step property: the worker takes what is at the front, and a stop is always there.
  `PortIsKept` is the refinement: under `IInv` every step of the scheduler, seen through the mapping, is a
  step of `RobotPort` or changes nothing the port shows.
- **Arbiter.** `BaseInv` is types, places of tickets, and three parts that need no assumption: an overtaken
  task has lost its token or its place (`TaskInv`), a reset that may still succeed began after the last
  latch (`LatchInv`), a closed arbiter has nothing left (`CloseInv`). `AuthorityInv` needs the hypothesis
  `~OverlappingResets`, because the argument is that until the one reset returns or is overtaken the
  latch is set (`ResetInv`), and that a release keeps the manual lock and the deadman down (`ReleaseInv`).
  The counterexample of `arb_two_resets` shows that the hypothesis cannot be dropped.
- **JobRegistry.** `OwnerInv`: two processes never both have the database, threads belong to a process
  that has it, and the snapshot of threads that `close()` joins misses none. `RunInv`: a job in execution
  in an open registry has an unfinished row, and a row that was never dispatched was never executed. With
  these, the row properties are inductive. `CancelIsCarriedOut` has an invariant of its own
  (`CallbackInv`), for jobs whose transactions do not fail.
- **DeviceManager.** `FlockInv`: who runs an opener, and every record until its close gives them up, holds the
  flocks of all its identities (`Holds`); one owner follows, because a flock has one holder. `FaultInv` says,
  for every agent at every stage, what it knows of the live failures, those not `unseen` (`KnowledgeOK`):
  who has read the ledger has read them all but for the late ones, who got the flocks has read them all,
  a record that is there remembers that there are some, and who is about to clear the ledger has none among
  its identities. A new failure of a device that somebody else has, or that is being cleared, is unseen by
  definition, and one of an own device is noted in the record. `AgentInv`, `OneAcquirer` and `RecordInv` tie the
  stages to the lock and to the record.
- **Go2Agent.** The queue is a sequence of any length, and most of the invariant is about what may be in
  it. `PlaceInv`, `OwnerInv`: where operation, worker and owner thread are and who has the lock. `FutureInv`,
  `WaitedInv`: a call somebody waits for is in the queue, in hand or done, and only once. `HaltInv` is the
  heart of `NoMotionFollowsStop`: once the StopMove of a stop or close is in the queue, no motion is
  behind it, and none can come, because the motion event was set before it was queued. `OrderInv` and
  `FinalInv` say the same of the end: what close queued is the last.
- **ControlService.** `LocksHeld` and `MakingInv` tie the three locks to the places of the callers: only the
  holder of `_robot_lock` makes an arbiter. `StopInv` carries the latch from the service, while there is no
  arbiter, into the arbiter. `HeldInv`, for `RobotIsLeftAtRest`: whatever moves under the model's authority
  belongs to a token whose owner still has to finish, and will hold the robot. `ManualInv`, `PreparedInv`
  and `CloseInv` are the other properties made inductive.
- **Observations.** `OpenInv`: a camera worker has at most one of a job, a capture and a finished frame, and
  that one belongs to the round that is waiting or to one that was reported as timed out. So what a round
  takes is its own (`FrameInv`). `GenerationInv` relates the generations of the store, of a round that has
  compared them and of the snapshots that can be looked up. `CloseInv` says how far a close has come and
  what is over by then, and that after a True that was not hasty the first close has answered True.
- **Recorder.** `LossInv`: each snapshot that was due is written, in the queue, in the writer's hand or among
  those that overflowed; `LossVisible`: and what overflowed is counted. `OrderInv` keeps the queues ordered
  and behind the store's sequence, with the offers still under way; `ActionInv` accounts for events and
  `ViewInv` for the stream of the other reader, replay included.

- **XLeRobotOwner.** Of each method of `HardwareRobot` it is proved what any of its outcomes satisfies
  (`Sound`): what is active is powered by this process, and doubt is on record. A stop of one scope may
  end with the other still active and in doubt, but the fallback to the whole robot runs in the same
  method, so that between the methods nothing is active in doubt (`RobotInv`). `HandlerInv` says what a
  handler has in hand at each of its steps. `LeaseInv` is `OneDriver` between a handler's steps: leases may
  name scopes that the watchdog has dropped since they were pruned, but never the other way round,
  because only the handler itself arms; and a scope that a handler is about to stop is excepted until
  it has stopped it (`Settled`), because the leases go first. A command that passed the lease test has its
  own token still, and a token names one enable: `CommandsStayOwn`.
- **Deployment.** The properties say nothing of the moments at which an agent has half changed the files,
  so `FilesInv` does, stage by stage, for an agent that is alone at work (outside `tangled`): until it
  unlinks, every running service is found by the files or has strayed; from then on all have strayed; after
  the spawn, all but the child. It needs `AgentInv`, that a child keeps its pid as long as its agent is at
  work (it is at worst a zombie), so that the files written last name the process that was spawned; and
  `ProcessInv`, that births are distinct and an identity names a service, so that the files cannot
  find a stranger. What an agent is about to signal was a service when it looked, or was born since:
  that is `StrangersAreSpared`. `RecordInv` carries this to the host, outside `crossed`: a service that
  runs is told of by the record, by a command that has not saved yet (`Trying`), or by a history; its hard
  case is `down`, whose agent must still be the only one when its answer arrives.

## 6. What the models showed

Two statements of the repository that the code does not keep are the one property of a violation run each.

- **A second reset undoes a takeover** (`arb_two_resets`). Two threads reset the same latch. The first
  returns, the operator presses the deadman and submits, and the second, finding the generation
  unchanged (arbitration.py:803), sets MANUAL with the deadman up: the command is still active. With a
  release in between, automatic commands run under MANUAL. `docs/control.md:45` says that the operator
  must re-enable motion.
- **A stop from before there is a robot is lost** (`control_lost_stop`). `emergency_stop` without an
  arbiter latches the service only; an observation with `include_robot` publishes an arbiter that is not
  latched (control_service.py:1014-1018), and from then on the arbiter alone is asked. Tasks and manual
  actions drive without a reset, against `docs/control.md:12-13`. `StopHonoured`, which the code keeps, is
  the same property with the observation that attaches the robot left out.

What follows contradicts no statement of the documentation, though in two places a comment in the code (the
ledger below, and the reconnect after the comparison), or is out of reach of the runs' properties on purpose;
each item says how the models treat it.

Scheduler and arbiter:

- *Queued motion runs on a quarantined bus.* A serialized stop is in the driver and a motion waits behind
  it. The stop raises: `_run` (io.py:519) sets `_quarantined` and takes the next request. The paths for a
  preemptive stop and for a timeout drop the queue (io.py:356). Modelled.
- *Overlapping holds latch.* While the stop of one `hold()` waits in the scheduler, a second (an expired
  heartbeat, a deadman released twice) is refused; `_finish_hold` takes the refusal for a failed stop and
  latches (arbitration.py:893). Modelled; the answer is safe and needs a reset.
- *A late release.* `release_manual` waits for its stop, an emergency stop latches, a reset ends the latch;
  the release then finds no latch and hands the authority to the model (arbitration.py:907). Modelled.
- *A takeover that joined.* `_hold_in_progress` is one flag for all: the first hold to end clears it, and the
  takeover that joined returns while the cancelled command may still be in the driver. Modelled.
- *A stop beside a stop.* `close()` during a preemptive stop wakes the worker, whose loop condition
  (io.py:456) then lets it run a queued serialized stop at the same time. Modelled.
- *Old confirmations.* `recover()` (io.py:187) accepts the last confirmed stop although the quarantine is
  newer, for example with a timed-out stop still queued. Modelled.

Jobs and devices:

- *A retried cancel is acknowledged and never carried out.* `cancel()` spends `cancel_invoked` before its
  transaction (jobs.py:410-412); the transaction fails, the caller tries again, and the second call commits
  and starts no callback. `CancelReachesCallback` therefore speaks of jobs whose transactions do not fail.
- *A lease on a connection that is being closed.* `_release` drops the last reference and the lock, and
  another client acquires before `_close_record_once` takes the lock to mark the record as closing
  (lifecycle.py:681-706): it shares the record, and its connection is closed. Modelled.
- *A ledger read before the flocks.* A first lease reads the ledger (lifecycle.py:502), and takes the flocks
  only then (561-567). Another process that has the device marks a failure in between and dies or closes: the
  flocks are free, and the first prepares the device by what it read (552-560), remembers
  `uncertain_before = False` (627), and its clean close wipes the mark (762-771), although the comment
  there (759-761) says that it is kept until an operator clears it. Modelled; `FaultKept` and `NoBlindPrepare`
  except these failures, and those of the next two items, by the history `unseen`. Without the exception TLC finds
  both violated.
- *A mark lost in a close.* `mark_uncertain` between the read of `uncertain_before` and the clearing of the
  ledger (762-771) is wiped by it. Modelled.
- *A mark for a device somebody else has.* A process whose close has given the flocks up, or that marks a
  device without a record (847-854), marks what another process may have opened meanwhile; that one's record
  does not know, and its close wipes the mark. Modelled.
- *External owners.* A device with an external owner takes no flock, so its close may clear what another
  process marked after it was acquired. Modelled; `fault` leaves these devices out.
- *A killed owner leaves no mark.* Its flocks go with it and the next process prepares the robot without
  question (`Crash`).
- *Job records.* A row whose last transaction failed stays `running`, and its waiters sleep until `close()`
  (jobs.py:726). A confirmed `stopped` may be overwritten by `stop_requested` when cancel is repeated
  or the worker skips the job. Rows are never deleted: after `max_jobs` identities a database takes no
  more. The last is outside the model, the others are in it.

Control service:

- *A robot nobody holds.* A task may take the token from a direct job that is running. If its own
  runtime cannot then be built or its session opened, it has no controller to finish with, and the
  overtaken job's `cancel_automatic_work` finds a token that is not its own: the robot is left as it was
  commanded last, although `docs/safety.md` says of the completion of a task that it holds the robot. The
  case is in the model under the name `dropped`, and `LeftAtRest` excepts it.
- *Prepared under a latch.* `_ensure_robot_arbiter` prepares a robot that was only observed so far
  (control_service.py:381) while the emergency stop is latched. Modelled; preparing drives nothing.
- *A close that is not one.* If `hub.close()` returns False, `close()` skips the device manager and still
  raises nothing (1259-1271). A second `close()` after a failed one would release a device whose stop is
  unconfirmed, or one that a camera still reads (below, *A second close answers True*);
  `services/control/server.py` calls it once (417), and so does the model. An observation that
  attaches the robot while `close()` runs leaves an arbiter behind. `LeftAtRest` speaks of closes that hold.
- *An early cancel.* `DirectExecutionRunner.cancel` before the session is registered answers
  "unconfirmed", although nothing was started. Modelled; the answer errs on the safe side.

Observations and recording:

- *A reconnect after the comparison.* `publish` compares generations (producer.py:483) and asks for an id
  later (515). A reconnect in between lets a snapshot from before it be published in the new
  generation, against the comment at 484-486; only tests call `reconnect`. `NothingFromBefore` excepts it.
- *A second close answers True.* `close` of a producer that is closed answers True at once (producer.py:774,
  hub.py:272), also while the first one is under way or after it timed out with a camera still capturing.
  `ControlService.close` takes the True for the end of all captures and closes the device manager under them
  (control_service.py:1259-1262) if it is called again after a close whose observations did not end. Modelled;
  `CloseHonest` excepts such answers by the name `hasty`, and holds the first close to its word regardless.
- *A read after close.* A request past the closed test of `publish_once` may still read the robot after
  `close()` returned; what it reads is not published. The read itself is not in the model.
- *The last snapshot.* A snapshot that is queued between the writer's last empty look at the queue and
  its test of the stop event (recording.py:401-403) is not written, and the manifest does not say
  incomplete. An overflow before the first written snapshot is counted in `dropped_observations` and is
  not called incomplete either (439). `RecorderHonest` excepts both by name.
- *Sequences and reconnects.* The comment at recording.py:467-469 says that sequences restart after a
  reconnect; the store never resets `_next_sequence`. The code is right without it.
- *A failed recorder stops at once.* `stop()` answers True for a failed recorder without joining the
  writer (274). After a `stop` that timed out, closing the store makes the writer fail although it has
  written everything. Events accepted before `start` are lost if it is never called. All modelled.

Deployment:

- *A service that runs under the record "failed".* `up` gives up on a service that is slow to become
  healthy (up.py:217-226) and leaves it running. `sync`, which "requires Control stopped"
  (`docs/quickstart.md:113`), refuses only the record "running" (sync.py:95-112); `init` with a changed
  configuration turns "failed" into "stopped" (init.py:90-95, 324-341); and the next `up` finds the old
  process and calls it running, with the old command line (supervisor.py:215). `StoppedMeansDown` excepts
  the records `init` replaced.
- *Two start agents.* Both find the service stopped and spawn it; the files end as a mixture, and every
  later `up` and `down` refuses ("PID belongs to another process"). An agent that ends between spawn and
  pid file leaves a service nobody knows of. Histories `tangled` and `strayed`.
- *A dead child is a zombie* of its agent, so "service exited immediately" (supervisor.py:247) is never
  said; the next poll of `up` notices. SIGKILL, five seconds after SIGTERM, is sent without looking at the
  identity again, although the docstring at 106 speaks of the marker. A stranger that took the pid blocks
  `up` and `down` until it ends. The identity is start ticks without a boot id. Modelled but for the last.

XLeRobot owner:

- *An unconfirmed stop the platform does not know of.* `stop_unconfirmed` follows the stops of handlers. One
  of the watchdog, or a command or an enable that failed half-way, leaves `hardware_safety` uncertain and
  the platform's flag as it was; enables are then refused by the hardware alone, and a handoff of the
  fault is not offered. `_validate_prior_idle` of the held handoff does not look at `hardware_safety` either, so a
  robot in doubt may be taken over as held if it reads as at rest. Modelled.
- *A late enable.* It is granted to a token nobody waits for any more; the scope is enabled with no
  operator until the watchdog drops it. This is why `SilenceDisarms` lets requests end first.
- *A retried release* answers that control is not owned, also if the first one was carried out and its
  answer lost; whether the robot was stopped is not said.
- *A plain restart while the motors hold torque.* The new process owns nothing, so its stops write nothing
  and answer "no_control"; and the arms may be enabled while a base that nobody owns still turns, because the
  preflight looks at the scope to be enabled alone. `DoubtStopsEverything` speaks of motors this process
  has powered.
- *A failed restore of a held robot* does not end the service; it starts with the robot in doubt.

## 7. What is not modelled

Within the modelled parts: time and the lengths of timeouts; the contents of actions, observations and
results; reads (`snapshot`, `status`, `get`, queries of recordings); `_hold_error` of the arbiter;
job parameters, results, events and `record_stage`; an unreadable ledger, and preparing a device of an
external owner a second time; the numeric limits of the Go2's admission; camera leases, inference clients
and recording calls of the control service, and the robot lock that `_read_shared_state` holds while it
reads; the status of each source, the robot state read along with the frames, frame names and views of
the hub; what a snapshot lacks in a recording; `sync`, plan, sources and environments of a deployment,
which only read the records; whole-machine restarts of a node; of the XLeRobot owner the browsers and the
mapping of their input, recording, following of leader arms, diagnostics and video, and stops that are
handled late (a handoff snapshot is taken as captured at the end of the server it describes).

Left out altogether:

- HTTP API, authentication, the Control client and the handling of requests: stateless validation and
  routing.
- Deployment configuration, ssh: parsing, git, package installation. What a lost connection does to a
  command is in `Deployment`.
- Model services: requests to inference servers. Robot adapters, sensors, bindings: unit conversion and
  vendor SDKs, of which `RobotIO` models what the scheduler sees. Simulators and the Simulation service:
  no robot is behind them.
- Manual inputs and teleoperation (one thread that calls the HTTP API), camera streaming (image transport
  beside the control path), agents, examples and benchmarks (clients). These, with what is left out of the
  XLeRobot owner, are most of the repository's lines, which is why the definitions map to a small share of
  them.

## 8. The plan

Done: everything that moves the robot (`RobotIO` with `RobotPort`, `Arbiter`, `ControlService`, `Go2Agent`,
`XLeRobotOwner`), what owns and remembers it (`DeviceManager`, `JobRegistry`), the observations
(`ObservationStore`, `Observations`, `Recorder`) and the node's side (`Supervisor`, `Deployment`), all with proofs
of the safety properties their runs check. What would say more, by importance:

1. The refinement between `Arbiter` and `RobotPort`: the port seen by the arbiter forgets stops whose wait
   ended, so the mapping needs a history of what the scheduler still holds.
2. `ControlService` shown to rest on `Arbiter` instead of on a contract: its reduced arbiter as an abstract
   specification that `Arbiter` implements, under the hypothesis that resets do not overlap.
3. The parts of the XLeRobot owner that share its robot with the endpoint: the browser's websocket owner and
   the leader arms.
