--------------------------- MODULE DeviceManager ---------------------------
(***************************************************************************)
(* Ownership of physical devices: DeviceManager in devices/lifecycle.py.   *)
(* Each service process has one manager.  The first lease on a resource    *)
(* takes a flock for each physical identity of it and opens the SDK        *)
(* connection, further leases share it, the last release closes it.  Stop, *)
(* torque and close failures are kept in a ledger file (DeviceStateStore)  *)
(* that survives the process; a marked resource is not prepared for motion *)
(* until an operator clears it.                                            *)
(*                                                                         *)
(* The manager's lock is not held while a closer runs, and it excludes     *)
(* nobody in another process.  So a locked section is a step when only     *)
(* this manager's state is at stake; the first lease, which reads the      *)
(* ledger, takes the flocks and runs the opener under the lock, is three;  *)
(* and each unlocked step of a close is one: the closer, the two updates   *)
(* of the ledger, the release of the flocks.  A resource's flocks are      *)
(* taken in one step (they do not block, and a failure gives all back),    *)
(* and the marks of one failure are written in one.                        *)
(***************************************************************************)
EXTENDS Naturals, FiniteSets

CONSTANTS
    Processes,          \* service processes on one control node
    Clients,            \* threads of a process that hold leases
    Shutdown,           \* the thread that runs DeviceManager.close
    Resources,          \* resource identities
    Buses,              \* further physical identities
    Components,         \* component_identities of each resource
    External,           \* resources owned by another service: no flocks
    Uses,               \* which client of which process leases what
    Stopping,           \* processes that call close; the others end when they are killed
    NoResource, NoOwner,
    Faulty              \* openers, preparers and closers may fail

Agents == Clients \cup {Shutdown}
Identities == Resources \cup Buses
Needs(r) == {r} \cup Components[r]

ASSUME DevicesAssumption ==
    /\ Shutdown \notin Clients /\ NoResource \notin Resources
    /\ NoOwner \notin Processes \X Resources
    /\ Components \in [Resources -> SUBSET Identities]
    /\ External \subseteq Resources
    /\ Uses \subseteq Processes \X Clients \X Resources /\ Stopping \subseteq Processes
    /\ \A r \in External, s \in Resources \ External : Needs(r) \cap Needs(s) = {}
    /\ Faulty \in BOOLEAN

VARIABLES
    ledger,     \* identities with an unresolved failure, on disk
    flock,      \* the record that holds each identity's flock
    closed,     \* managers that were closed
    record,     \* _records of each manager
    leases,     \* the clients with a lease on each record
    handle,     \* the SDK connection of the record is open
    stage,      \* where each agent is in releasing or closing a record
    target,     \* the record it is busy with
    todo,       \* records DeviceManager.close still has to close
    unresolved, \* _unresolved, while a first lease is acquired: the ledger as it was read
    asked,      \* that acquire is to prepare the device
    \* history: identities with a stop, torque, prepare or clean-up failure that no
    \* operator cleared and that a successful close does not prove repaired, of
    \* devices this node owns
    fault,
    \* history: those reported when it was too late for somebody: after another
    \* acquire that then got the flocks had read the ledger; after the close had looked
    \* at uncertain_before; after the flocks had gone to another record
    unseen,
    late        \* history: those reported since the acquire under way read the ledger

agentVars == <<stage, target, todo>>
acquireVars == <<unresolved, asked>>
faultVars == <<fault, unseen, late>>
vars == <<ledger, flock, closed, record, leases, handle, agentVars, acquireVars, faultVars>>

Records == [present : BOOLEAN, prepared : BOOLEAN, uncertain : BOOLEAN,
            uncertainBefore : BOOLEAN, closing : BOOLEAN]
NoRecord == [present |-> FALSE, prepared |-> FALSE, uncertain |-> FALSE,
             uncertainBefore |-> FALSE, closing |-> FALSE]
Acquiring == {"reading", "opening"}
Clearing == {"clearing", "popped"}
InClose == {"closing", "closed", "unlocked", "failed"} \cup Clearing
Stages == {"none", "released", "waiting"} \cup Acquiring \cup InClose

Init ==
    /\ ledger = {}
    /\ flock = [i \in Identities |-> NoOwner]
    /\ closed = [p \in Processes |-> FALSE]
    /\ record = [p \in Processes |-> [r \in Resources |-> NoRecord]]
    /\ leases = [p \in Processes |-> [r \in Resources |-> {}]]
    /\ handle = [p \in Processes |-> [r \in Resources |-> FALSE]]
    /\ stage = [p \in Processes |-> [a \in Agents |-> "none"]]
    /\ target = [p \in Processes |-> [a \in Agents |-> NoResource]]
    /\ todo = [p \in Processes |-> {}]
    /\ unresolved = [p \in Processes |-> {}]
    /\ asked = [p \in Processes |-> FALSE]
    /\ fault = {} /\ unseen = {}
    /\ late = [p \in Processes |-> {}]

\* no first lease is being acquired: the manager's lock is free
LockFree(p) == \A a \in Agents : stage[p][a] \notin Acquiring

\* somebody has looked, or taken the device, before this report of p
TooLate(p, r, ids) ==
    {i \in ids : \/ \E a \in Agents : stage[p][a] \in Clearing /\ target[p][a] = r
                 \/ flock[i] \notin {NoOwner, <<p, r>>}}

\* state_store.mark for each of the identities, and the history
Report(p, r, ids) ==
    /\ ledger' = ledger \cup ids
    /\ IF r \in External THEN UNCHANGED faultVars ELSE
         /\ fault' = fault \cup ids
         /\ unseen' = (unseen \ ids) \cup TooLate(p, r, ids)
         /\ late' = [q \in Processes |-> late[q] \cup
                       {i \in ids : \E a \in Agents :
                            stage[q][a] = "reading" /\ i \in Needs(target[q][a])}]

(***************************************************************************)
(* acquire() of a record there is                                          *)
(***************************************************************************)
\* Mutant: only the resource's own identity is looked up, not its components.
OwnIdentityUnmarked(r) == r \notin ledger

\* _refresh_unresolved and the look-up for every identity of the resource
Unmarked(r) == Needs(r) \cap ledger = {}

Calls(p, c, r) ==
    /\ <<p, c, r>> \in Uses
    /\ LockFree(p) /\ ~closed[p]
    /\ stage[p][c] = "none"
    /\ c \notin leases[p][r]

\* an open record that can be shared
Shareable(p, r) ==
    /\ record[p][r].present /\ ~record[p][r].closing
    /\ ~(leases[p][r] = {} /\ record[p][r].uncertain)

AcquireShared(p, c, r) ==
    /\ Calls(p, c, r) /\ Shareable(p, r)
    /\ leases' = [leases EXCEPT ![p][r] = @ \cup {c}]
    /\ UNCHANGED <<ledger, flock, closed, record, handle, agentVars, acquireVars, faultVars>>

\* the same with prepare: the record's first; _prepare_record succeeds
AcquirePrepared(p, c, r) ==
    /\ Calls(p, c, r) /\ Shareable(p, r)
    /\ ~record[p][r].prepared
    /\ Unmarked(r)
    /\ record' = [record EXCEPT ![p][r].prepared = TRUE, ![p][r].uncertain = FALSE]
    /\ leases' = [leases EXCEPT ![p][r] = @ \cup {c}]
    /\ UNCHANGED <<ledger, flock, closed, handle, agentVars, acquireVars, faultVars>>

\* _prepare_record fails: the failure is marked, no lease is given
PrepareFails(p, c, r) ==
    /\ Faulty
    /\ Calls(p, c, r) /\ Shareable(p, r)
    /\ ~record[p][r].prepared
    /\ Unmarked(r)
    /\ record' = [record EXCEPT ![p][r].uncertain = TRUE, ![p][r].uncertainBefore = TRUE]
    /\ Report(p, r, Needs(r))
    /\ UNCHANGED <<flock, closed, leases, handle, agentVars, acquireVars>>

(***************************************************************************)
(* acquire() of the first lease                                            *)
(***************************************************************************)
\* an acquire that found no record reads the ledger; one that is to prepare a
\* marked device is refused here
AcquireReads(p, c, r, prepare) ==
    /\ Calls(p, c, r)
    /\ ~record[p][r].present
    /\ prepare => Unmarked(r)
    /\ unresolved' = [unresolved EXCEPT ![p] = ledger]
    /\ asked' = [asked EXCEPT ![p] = prepare]
    /\ stage' = [stage EXCEPT ![p][c] = "reading"]
    /\ target' = [target EXCEPT ![p][c] = r]
    /\ UNCHANGED <<ledger, flock, closed, record, leases, handle, todo, faultVars>>

\* acquire returns, or raises
AcquireEnds(p, c) ==
    /\ stage' = [stage EXCEPT ![p][c] = "none"]
    /\ target' = [target EXCEPT ![p][c] = NoResource]
    /\ unresolved' = [unresolved EXCEPT ![p] = {}]
    /\ asked' = [asked EXCEPT ![p] = FALSE]

\* Mutant: the flocks of the components are not looked at.
OwnFlockFree(r) == r \in External \/ flock[r] = NoOwner

FlocksFree(r) == r \in External \/ \A i \in Needs(r) : flock[i] = NoOwner

TakeFlocks(p, r) ==
    flock' = IF r \in External THEN flock
             ELSE [i \in Identities |-> IF i \in Needs(r) THEN <<p, r>> ELSE flock[i]]

GiveFlocks(p, r) ==
    flock' = [i \in Identities |-> IF flock[i] = <<p, r>> THEN NoOwner ELSE flock[i]]

\* the flocks, and the opener starts: from here on the connection may be alive
AcquireLocks(p, c) ==
    LET r == target[p][c] IN
    /\ stage[p][c] = "reading"
    /\ FlocksFree(r)
    /\ TakeFlocks(p, r)
    /\ handle' = [handle EXCEPT ![p][r] = TRUE]
    /\ stage' = [stage EXCEPT ![p][c] = "opening"]
    /\ unseen' = unseen \cup late[p]
    /\ late' = [late EXCEPT ![p] = {}]
    /\ UNCHANGED <<ledger, closed, record, leases, target, todo, acquireVars, fault>>

\* a flock is taken, if only for a moment by an acquire that will give it back
AcquireBusy(p, c) ==
    /\ stage[p][c] = "reading"
    /\ AcquireEnds(p, c)
    /\ late' = [late EXCEPT ![p] = {}]
    /\ UNCHANGED <<ledger, flock, closed, record, leases, handle, todo, fault, unseen>>

\* opener, and preparer if asked for, return: the record remembers what was read
AcquireOpens(p, c) ==
    LET r == target[p][c]
        marked == Needs(r) \cap unresolved[p] # {} IN
    /\ stage[p][c] = "opening"
    /\ record' = [record EXCEPT ![p][r] =
                    [present |-> TRUE, prepared |-> asked[p], uncertain |-> marked,
                     uncertainBefore |-> marked, closing |-> FALSE]]
    /\ leases' = [leases EXCEPT ![p][r] = {c}]
    /\ AcquireEnds(p, c)
    /\ UNCHANGED <<ledger, flock, closed, handle, todo, faultVars>>

\* the opener raises, or the preparer does and the value is closed again
OpenFails(p, c) ==
    LET r == target[p][c] IN
    /\ Faulty
    /\ stage[p][c] = "opening"
    /\ handle' = [handle EXCEPT ![p][r] = FALSE]
    /\ GiveFlocks(p, r)
    /\ AcquireEnds(p, c)
    /\ UNCHANGED <<ledger, closed, record, leases, todo, faultVars>>

\* the preparer raises and so does the closer: the connection may be alive, so
\* the record stays, without leases, and keeps the flocks
OpenFailsHalfway(p, c) ==
    LET r == target[p][c] IN
    /\ Faulty
    /\ stage[p][c] = "opening" /\ asked[p]
    /\ record' = [record EXCEPT ![p][r] = [present |-> TRUE, prepared |-> FALSE,
                    uncertain |-> TRUE, uncertainBefore |-> TRUE, closing |-> FALSE]]
    /\ Report(p, r, Needs(r))
    /\ AcquireEnds(p, c)
    /\ UNCHANGED <<flock, closed, leases, handle, todo>>

(***************************************************************************)
(* release and close of a record                                           *)
(***************************************************************************)
Moves(p, a, s) ==
    /\ stage' = [stage EXCEPT ![p][a] = s]
    /\ target' = IF s = "none" THEN [target EXCEPT ![p][a] = NoResource] ELSE target

\* DeviceLease.close: the last one goes on to close the record, having
\* given up the lock
Release(p, c, r) ==
    /\ stage[p][c] = "none" /\ LockFree(p)
    /\ c \in leases[p][r]
    /\ leases' = [leases EXCEPT ![p][r] = @ \ {c}]
    /\ IF leases[p][r] = {c}
       THEN /\ stage' = [stage EXCEPT ![p][c] = "released"]
            /\ target' = [target EXCEPT ![p][c] = r]
       ELSE UNCHANGED <<stage, target>>
    /\ UNCHANGED <<ledger, flock, closed, record, handle, todo, acquireVars, faultVars>>

\* nobody else is closing the record
MayBegin(p, r) == ~record[p][r].closing

\* _close_record_once: one thread runs the closer, the others wait for it
CloseBegins(p, a) ==
    /\ stage[p][a] = "released" /\ LockFree(p)
    /\ MayBegin(p, target[p][a])
    /\ record' = [record EXCEPT ![p][target[p][a]].closing = TRUE]
    /\ Moves(p, a, "closing")
    /\ UNCHANGED <<ledger, flock, closed, leases, handle, todo, acquireVars, faultVars>>

CloseWaits(p, a) ==
    /\ stage[p][a] = "released" /\ LockFree(p)
    /\ ~MayBegin(p, target[p][a])
    /\ Moves(p, a, "waiting")
    /\ UNCHANGED <<ledger, flock, closed, record, leases, handle, todo, acquireVars, faultVars>>

\* woken after a failed close: the waiter returns that close's error
WaitEnds(p, a) ==
    /\ stage[p][a] = "waiting" /\ LockFree(p)
    /\ ~record[p][target[p][a]].closing
    /\ Moves(p, a, "none")
    /\ UNCHANGED <<ledger, flock, closed, record, leases, handle, todo, acquireVars, faultVars>>

\* Mutant: a successful close counts as proof that all is well.
AlwaysClears(p, r) == TRUE

\* uncertain_before, read without the lock
MayClear(p, r) == ~record[p][r].uncertainBefore

\* the closer returns
CloserReturns(p, a) ==
    LET r == target[p][a] IN
    /\ stage[p][a] = "closing"
    /\ handle' = [handle EXCEPT ![p][r] = FALSE]
    /\ Moves(p, a, IF MayClear(p, r) THEN "clearing" ELSE "closed")
    /\ UNCHANGED <<ledger, flock, closed, record, leases, todo, acquireVars, faultVars>>

\* the closer raises: the connection may still be alive
CloserFails(p, a) ==
    LET r == target[p][a] IN
    /\ Faulty
    /\ stage[p][a] = "closing"
    /\ record' = [record EXCEPT ![p][r].uncertain = TRUE]
    /\ ledger' = ledger \cup Needs(r)
    /\ unresolved' = [unresolved EXCEPT ![p] = IF LockFree(p) THEN {} ELSE @ \cup Needs(r)]
    /\ Moves(p, a, "failed")
    /\ UNCHANGED <<flock, closed, leases, handle, todo, asked, faultVars>>

\* _close_record takes the record's identities out of what this process has read of
\* the ledger, then out of the ledger
PopUnresolved(p, a) ==
    /\ stage[p][a] = "clearing"
    /\ unresolved' = [unresolved EXCEPT ![p] = @ \ Needs(target[p][a])]
    /\ Moves(p, a, "popped")
    /\ UNCHANGED <<ledger, flock, closed, record, leases, handle, todo, asked, faultVars>>

ClearLedger(p, a) ==
    /\ stage[p][a] = "popped"
    /\ ledger' = ledger \ Needs(target[p][a])
    /\ Moves(p, a, "closed")
    /\ UNCHANGED <<flock, closed, record, leases, handle, todo, acquireVars, faultVars>>

Unlock(p, a) ==
    /\ stage[p][a] = "closed"
    /\ GiveFlocks(p, target[p][a])
    /\ Moves(p, a, "unlocked")
    /\ UNCHANGED <<ledger, closed, record, leases, handle, todo, acquireVars, faultVars>>

\* last locked section of a close that succeeded: the record is gone, and
\* every other thread that had it in hand returns without doing anything
Forget(p, a) ==
    LET r == target[p][a]
        returning == {b \in Agents : target[p][b] = r} IN
    /\ stage[p][a] = "unlocked" /\ LockFree(p)
    /\ record' = [record EXCEPT ![p][r] = NoRecord]
    /\ leases' = [leases EXCEPT ![p][r] = {}]
    /\ stage' = [stage EXCEPT ![p] =
                   [b \in Agents |-> IF b \in returning THEN "none" ELSE stage[p][b]]]
    /\ target' = [target EXCEPT ![p] =
                   [b \in Agents |-> IF b \in returning THEN NoResource ELSE target[p][b]]]
    /\ UNCHANGED <<ledger, flock, closed, handle, todo, acquireVars, faultVars>>

\* Mutant: the record is left in the closing state.
QuarantineClosing(p, a) ==
    LET r == target[p][a] IN
    /\ stage[p][a] = "failed" /\ LockFree(p)
    /\ record' = [record EXCEPT ![p][r].uncertain = TRUE]
    /\ leases' = [leases EXCEPT ![p][r] = {}]
    /\ UNCHANGED <<ledger, flock, closed, handle, todo, acquireVars, faultVars>>
    /\ Moves(p, a, "none")

\* last locked section of a close that failed: the record stays, quarantined, and
\* keeps its flocks
Quarantine(p, a) ==
    LET r == target[p][a] IN
    /\ stage[p][a] = "failed" /\ LockFree(p)
    /\ record' = [record EXCEPT ![p][r].closing = FALSE, ![p][r].uncertain = TRUE]
    /\ leases' = [leases EXCEPT ![p][r] = {}]
    /\ Moves(p, a, "none")
    /\ UNCHANGED <<ledger, flock, closed, handle, todo, acquireVars, faultVars>>

(***************************************************************************)
(* DeviceManager.close, marks, operator, crash                             *)
(***************************************************************************)
\* refuses new leases and takes the records there are; may be tried again
Close(p) ==
    /\ p \in Stopping /\ LockFree(p)
    /\ stage[p][Shutdown] = "none" /\ todo[p] = {}
    /\ closed' = [closed EXCEPT ![p] = TRUE]
    /\ todo' = [todo EXCEPT ![p] = {r \in Resources : record[p][r].present}]
    /\ UNCHANGED <<ledger, flock, record, leases, handle, stage, target, acquireVars, faultVars>>

\* the next record; one that is gone already is passed over
CloseNext(p, r) ==
    /\ stage[p][Shutdown] = "none"
    /\ r \in todo[p]
    /\ todo' = [todo EXCEPT ![p] = @ \ {r}]
    /\ IF record[p][r].present
       THEN /\ stage' = [stage EXCEPT ![p][Shutdown] = "released"]
            /\ target' = [target EXCEPT ![p][Shutdown] = r]
       ELSE UNCHANGED <<stage, target>>
    /\ UNCHANGED <<ledger, flock, closed, record, leases, handle, acquireVars, faultVars>>

\* mark_uncertain: the control service could not stop or hold the robot
MarkUncertain(p, r) ==
    /\ LockFree(p)
    /\ \E c \in Clients : <<p, c, r>> \in Uses
    /\ IF record[p][r].present
       THEN /\ record' = [record EXCEPT ![p][r].uncertain = TRUE, ![p][r].uncertainBefore = TRUE]
            /\ Report(p, r, Needs(r))
       ELSE /\ Report(p, r, {r})
            /\ UNCHANGED record
    /\ UNCHANGED <<flock, closed, leases, handle, agentVars, acquireVars>>

\* clear_uncertainty: an operator verified the recovery
ClearUncertainty(i) ==
    /\ i \in ledger
    /\ ledger' = ledger \ {i}
    /\ fault' = fault \ {i} /\ unseen' = unseen \ {i}
    /\ late' = [q \in Processes |-> late[q] \ {i}]
    /\ UNCHANGED <<flock, closed, record, leases, handle, agentVars, acquireVars>>

\* the process dies and another one is started: flocks and connections go
Crash(p) ==
    /\ flock' = [i \in Identities |->
                   IF \E r \in Resources : flock[i] = <<p, r>> THEN NoOwner ELSE flock[i]]
    /\ closed' = [closed EXCEPT ![p] = FALSE]
    /\ record' = [record EXCEPT ![p] = [r \in Resources |-> NoRecord]]
    /\ leases' = [leases EXCEPT ![p] = [r \in Resources |-> {}]]
    /\ handle' = [handle EXCEPT ![p] = [r \in Resources |-> FALSE]]
    /\ stage' = [stage EXCEPT ![p] = [a \in Agents |-> "none"]]
    /\ target' = [target EXCEPT ![p] = [a \in Agents |-> NoResource]]
    /\ todo' = [todo EXCEPT ![p] = {}]
    /\ unresolved' = [unresolved EXCEPT ![p] = {}]
    /\ asked' = [asked EXCEPT ![p] = FALSE]
    /\ late' = [late EXCEPT ![p] = {}]
    /\ UNCHANGED <<ledger, fault, unseen>>

----------------------------------------------------------------------------
LeaseNext(p, c, r) ==
    \/ AcquireShared(p, c, r) \/ AcquirePrepared(p, c, r) \/ PrepareFails(p, c, r)
    \/ \E prepare \in BOOLEAN : AcquireReads(p, c, r, prepare)
    \/ Release(p, c, r)

AcquireStep(p, c) ==
    \/ AcquireLocks(p, c) \/ AcquireBusy(p, c)
    \/ AcquireOpens(p, c) \/ OpenFails(p, c) \/ OpenFailsHalfway(p, c)

CloseStep(p, a) ==
    \/ CloseBegins(p, a) \/ CloseWaits(p, a) \/ WaitEnds(p, a)
    \/ CloserReturns(p, a) \/ CloserFails(p, a)
    \/ PopUnresolved(p, a) \/ ClearLedger(p, a) \/ Unlock(p, a) \/ Forget(p, a) \/ Quarantine(p, a)

ManagerNext(p) ==
    \/ Close(p) \/ Crash(p)
    \/ \E r \in Resources : CloseNext(p, r) \/ MarkUncertain(p, r)

Next ==
    \/ \E p \in Processes :
          \/ \E c \in Clients, r \in Resources : LeaseNext(p, c, r)
          \/ \E c \in Clients : AcquireStep(p, c)
          \/ \E a \in Agents : CloseStep(p, a)
          \/ ManagerNext(p)
    \/ \E i \in Identities : ClearUncertainty(i)

Spec == Init /\ [][Next]_vars

\* Threads get to run; openers, preparers and closers return, with or without an error.
FairSpec ==
    /\ Spec
    /\ \A p \in Processes, a \in Agents : WF_vars(CloseStep(p, a))
    /\ \A p \in Processes : WF_vars(\E c \in Clients : AcquireStep(p, c))

(***************************************************************************)
(* Properties                                                              *)
(***************************************************************************)
\* The variables have the types of the manager's records, files and threads.
TypeOK ==
    /\ ledger \in SUBSET Identities
    /\ flock \in [Identities -> (Processes \X Resources) \cup {NoOwner}]
    /\ closed \in [Processes -> BOOLEAN]
    /\ record \in [Processes -> [Resources -> Records]]
    /\ leases \in [Processes -> [Resources -> SUBSET Clients]]
    /\ handle \in [Processes -> [Resources -> BOOLEAN]]
    /\ stage \in [Processes -> [Agents -> Stages]]
    /\ target \in [Processes -> [Agents -> Resources \cup {NoResource}]]
    /\ todo \in [Processes -> SUBSET Resources]
    /\ unresolved \in [Processes -> SUBSET Identities]
    /\ asked \in [Processes -> BOOLEAN]
    /\ fault \in SUBSET Identities /\ unseen \in SUBSET Identities
    /\ late \in [Processes -> SUBSET Identities]

\* No physical identity, a shared bus included, is open twice, in one process
\* or in two, also after failed opens and closes; external owners aside.
SingleOwner ==
    \A p, q \in Processes, r, s \in Resources \ External :
        (handle[p][r] /\ handle[q][s] /\ <<p, r>> # <<q, s>>) => Needs(r) \cap Needs(s) = {}

\* A record is being closed by at most one thread: release and shutdown that
\* meet do not both call the closer.
OneCloser ==
    \A p \in Processes, a, b \in Agents :
        (a # b /\ stage[p][a] \in InClose /\ stage[p][b] \in InClose)
            => target[p][a] # target[p][b]

\* A stop, torque, prepare or clean-up failure of a device this node owns stays in
\* the ledger until an operator clears it, whatever is closed, reopened or restarted
\* meanwhile, in this process and in others; but for a failure that is marked too late
\* (unseen).
FaultKept == fault \ unseen \subseteq ledger

\* No device is prepared for motion while such a failure of it, or of one of
\* its components, is uncleared.
NoBlindPrepare ==
    [][\A p \in Processes, r \in Resources :
          (~record[p][r].prepared /\ record'[p][r].prepared)
              => Needs(r) \cap (fault \ unseen) = {}]_vars

\* When first leases are no longer acquired and DeviceManager.close is no longer tried
\* again, every release, shutdown and wait for another thread's close of the same record
\* comes to its end.
ClosesReturn ==
    \A p \in Processes :
        <>[]LockFree(p) /\ <>[][~Close(p)]_vars => <>[](\A a \in Agents : stage[p][a] = "none")
=============================================================================
