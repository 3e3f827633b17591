--------------------------- MODULE ArbiterProofs ---------------------------
(***************************************************************************)
(* Proofs about Arbiter, for any sets of tickets, tasks and threads, any   *)
(* queue capacity, both stop policies and a driver that may fail.          *)
(***************************************************************************)
EXTENDS Arbiter, TLAPS

\* The type invariant in four parts.
FlagsTyped ==
    /\ authority \in Authorities /\ deadman \in BOOLEAN
    /\ holdFlag \in BOOLEAN /\ closed \in BOOLEAN
    /\ portClosed \in BOOLEAN /\ unanswered \in BOOLEAN
TicketsTyped ==
    /\ modelTask \in Tasks \cup {NoTask} /\ tokenSet \subseteq Tasks /\ begun \subseteq Tasks
    /\ overtaken \subseteq Tasks
    /\ status \in [Tickets -> Statuses] /\ owner \in [Tickets -> Tasks \cup {NoTask}]
    /\ cancelled \subseteq Tickets
    /\ modelQueue \in Seq(Tickets) /\ Len(modelQueue) <= QueueCapacity
    /\ manualPending \in Tickets \cup {NoTicket}
WorkerTyped ==
    /\ active \in Tickets \cup {NoTicket} /\ driver \in Tickets \cup {NoTicket}
    /\ worker \in WorkerStates /\ (worker = "idle" <=> active = NoTicket)
ThreadsTyped ==
    /\ job \in [Agents -> Jobs] /\ stop \in [Agents -> Stops]
    /\ finishing \in [Agents -> Tasks \cup {NoTask}]
    /\ fresh \subseteq Agents /\ manualLock \in Threads \cup {NoThread}
    /\ closeReport \in {"none", "clean", "error"} /\ operations \in Nat

\* A ticket that was not submitted is nowhere; one that waits is in its queue, and the
\* queues hold commands of their own side.
PlaceInv ==
    /\ \A x \in Tickets : status[x] = "none" =>
         owner[x] = NoTask /\ x \notin Elements(modelQueue) /\ x # manualPending /\ x # active
    /\ \A x \in Elements(modelQueue) : owner[x] # NoTask
    /\ manualPending # NoTicket => owner[manualPending] = NoTask
    /\ \A x \in Tickets : status[x] = "QUEUED" => x \in Elements(modelQueue) \/ x = manualPending
    /\ \A x \in Tickets : status[x] = "RUNNING" => x = active

\* An overtaken task has lost its token, or is no longer the current one.
TaskInv ==
    /\ overtaken \subseteq begun /\ modelTask \in begun \cup {NoTask}
    /\ modelTask \in overtaken => modelTask \in tokenSet
    /\ OvertakenTaskSilent

\* A reset that may still succeed began after the last latch.
LatchInv ==
    /\ LatchHolds
    /\ \A t \in fresh : job[t] = "reset" => ~unanswered

\* A closed arbiter has nothing left to run, and a closed port takes no more.
CloseInv ==
    /\ closed => modelQueue = <<>> /\ manualPending = NoTicket /\ active \in cancelled \cup {NoTicket}
    /\ portClosed => closed
    /\ \A t \in Agents : job[t] \in {"closing", "close", "port"} => closed
    /\ \A t \in Agents : job[t] = "port" => portClosed
    /\ closeReport = "clean" => portClosed /\ Drained

BaseInv == TypeOK /\ PlaceInv /\ TaskInv /\ LatchInv /\ CloseInv

\* A release keeps the manual lock, and the deadman released, until it returns.
ReleaseInv == \A t \in Agents : job[t] = "release" => manualLock = t /\ ~deadman

\* There is one reset at a time, and until it returns or is overtaken the latch is set.
ResetInv ==
    \A t \in Agents : job[t] = "reset" =>
        /\ t \in Threads
        /\ t \in fresh => authority = "ESTOP"
        /\ \A u \in Agents : job[u] = "reset" => u = t

AuthorityInv ==
    ActiveRespectsAuthority /\ PendingMatchesAuthority /\ ReleaseInv /\ ResetInv

-----------------------------------------------------------------------------

\* What appending a command to the FIFO does.
LEMMA AppendTicket ==
    ASSUME NEW q \in Seq(Tickets), NEW x \in Tickets
    PROVE  /\ Append(q, x) \in Seq(Tickets) /\ Len(Append(q, x)) = Len(q) + 1
           /\ Append(q, x) # <<>>
           /\ Elements(Append(q, x)) = Elements(q) \cup {x}
<1>1. /\ Len(q) \in Nat /\ DOMAIN q = 1..Len(q)
      /\ Append(q, x) \in Seq(Tickets) /\ Len(Append(q, x)) = Len(q) + 1
      /\ DOMAIN Append(q, x) = 1..(Len(q) + 1)
      /\ \A i \in 1..Len(q) : Append(q, x)[i] = q[i]
      /\ Append(q, x)[Len(q) + 1] = x
  OBVIOUS
<1>2. \A i \in 1..(Len(q) + 1) : i \in 1..Len(q) \/ i = Len(q) + 1
  BY <1>1
<1>3. Elements(Append(q, x)) \subseteq Elements(q) \cup {x}
  BY <1>1, <1>2 DEF Elements
<1>4. Elements(q) \cup {x} \subseteq Elements(Append(q, x))
  <2>1. 1..Len(q) \subseteq 1..(Len(q) + 1) /\ Len(q) + 1 \in 1..(Len(q) + 1)
    BY <1>1
  <2> QED
    BY <1>1, <2>1 DEF Elements
<1> QED
  BY <1>1, <1>3, <1>4

\* What taking the first command of the FIFO does.
LEMMA TakeTicket ==
    ASSUME NEW q \in Seq(Tickets), q # <<>>
    PROVE  /\ Head(q) \in Tickets /\ Head(q) \in Elements(q)
           /\ Tail(q) \in Seq(Tickets) /\ Len(Tail(q)) <= Len(q)
           /\ Elements(q) = Elements(Tail(q)) \cup {Head(q)}
<1>1. /\ Len(q) \in Nat \ {0} /\ DOMAIN q = 1..Len(q) /\ Head(q) = q[1]
      /\ Tail(q) \in Seq(Tickets) /\ Len(Tail(q)) = Len(q) - 1
      /\ DOMAIN Tail(q) = 1..(Len(q) - 1)
      /\ \A i \in 1..(Len(q) - 1) : Tail(q)[i] = q[i + 1]
  OBVIOUS
<1>2. 1 \in DOMAIN q
  BY <1>1
<1>3. Elements(Tail(q)) \subseteq Elements(q)
  <2>1. \A i \in 1..(Len(q) - 1) : i + 1 \in 1..Len(q)
    BY <1>1
  <2> QED
    BY <1>1, <2>1 DEF Elements
<1>4. ASSUME NEW i \in DOMAIN q, i # 1 PROVE q[i] \in Elements(Tail(q))
  <2>1. i - 1 \in 1..(Len(q) - 1) /\ (i - 1) + 1 = i
    BY <1>1, <1>4
  <2>2. Tail(q)[i - 1] = q[i]
    BY <1>1, <2>1
  <2> QED
    BY <1>1, <2>1, <2>2 DEF Elements
<1>5. Elements(q) \subseteq Elements(Tail(q)) \cup {Head(q)}
  BY <1>1, <1>4 DEF Elements
<1>6. Head(q) \in Elements(q) /\ Head(q) \in Tickets
  BY <1>1, <1>2 DEF Elements
<1> QED
  BY <1>1, <1>3, <1>5, <1>6

\* The members of the FIFO are tickets.
LEMMA ElementsAreTickets ==
    ASSUME NEW q \in Seq(Tickets) PROVE Elements(q) \subseteq Tickets /\ Elements(<<>>) = {}
  BY DEF Elements

\* What the worker takes, and what it leaves.
TakenFrom(x) ==
    /\ ~closed /\ owner' = owner
    /\ modelQueue' \in Seq(Tickets) /\ Len(modelQueue') <= QueueCapacity
    /\ Elements(modelQueue') \subseteq Elements(modelQueue)
    /\ modelQueue = <<>> => modelQueue' = <<>>
    /\ manualPending' \in {manualPending, NoTicket}
    /\ \A y \in Tickets : y # x =>
         /\ y \in Elements(modelQueue) => y \in Elements(modelQueue')
         /\ y = manualPending => y = manualPending'
    /\ \/ authority = "MANUAL" /\ deadman /\ x = manualPending
       \/ authority = "MODEL" /\ x \in Elements(modelQueue) /\ modelQueue # <<>>

\* The worker takes the operator's command or the first one of the FIFO.
LEMMA Taken ==
    ASSUME TypeOK, NEW x \in Tickets, x = NextTicket, NEW s, Take(x, s)
    PROVE  TakenFrom(x)
<1> USE DEF TakenFrom
<1>1. /\ ~closed
      /\ \/ authority = "MANUAL" /\ deadman /\ x = manualPending
         \/ authority = "MODEL" /\ modelQueue # <<>> /\ x = Head(modelQueue)
  BY NamesAssumption DEF NextTicket, TypeOK, Authorities
<1>2. CASE authority = "MANUAL"
  BY <1>1, <1>2 DEF Take, TypeOK
<1>3. CASE authority = "MODEL"
  <2>1. modelQueue # <<>> /\ x = Head(modelQueue) /\ modelQueue \in Seq(Tickets)
    BY <1>1, <1>3 DEF TypeOK
  <2>2. /\ x \in Elements(modelQueue)
        /\ Tail(modelQueue) \in Seq(Tickets) /\ Len(Tail(modelQueue)) <= Len(modelQueue)
        /\ Elements(modelQueue) = Elements(Tail(modelQueue)) \cup {x}
    BY <2>1, TakeTicket
  <2>3. modelQueue' = Tail(modelQueue) /\ manualPending' = manualPending
    BY <1>3 DEF Take
  <2>4. Len(modelQueue') <= QueueCapacity
    <3>1. Len(modelQueue) \in Nat /\ Len(Tail(modelQueue)) \in Nat
      BY <2>1, <2>2
    <3> QED
      BY <3>1, <2>2, <2>3, BoundsAssumption DEF TypeOK
  <2> QED
    BY <1>1, <1>3, <2>1, <2>2, <2>3, <2>4 DEF Take
<1> QED
  BY <1>1, <1>2, <1>3

\* Every step keeps the flags typed.
LEMMA FlagsStep ==
    ASSUME BaseInv, Next
    PROVE  FlagsTyped'
<1> USE DEF BaseInv
<1>1. ASSUME UNCHANGED <<authority, deadman, holdFlag, closed, portClosed, unanswered>>
      PROVE  FlagsTyped'
  BY <1>1 DEF TypeOK, FlagsTyped
<1>2. ASSUME NEW k \in Tasks, BeginTask(k) \/ SetToken(k) PROVE FlagsTyped'
  BY <1>2, <1>1 DEF BeginTask, SetToken, CancelActiveAutomatic, Automatic, ClearModelQueue,
     Finish, authorityVars, portVars, historyVars
<1>3. ASSUME NEW x \in Tickets, NEW k \in Tasks, SubmitAutomatic(x, k) PROVE FlagsTyped'
  BY <1>3, <1>1 DEF SubmitAutomatic, MaySubmit, QueueHasRoom, authorityVars, portVars, historyVars
<1>4. ASSUME NEW x \in Tickets, SubmitManual(x) \/ Dispatch(x) \/ DispatchNot(x) PROVE FlagsTyped'
  BY <1>4, <1>1 DEF SubmitManual, Dispatch, DispatchNot, Finish, Take, authorityVars, portVars,
     historyVars
<1>5. ASSUME NEW t \in Agents, DetachTask(t) \/ JoinEnds(t) \/ CloseHolds(t) \/ CloseReturns(t)
             \/ StopAdmitted(t) \/ StopBegins(t) \/ StopReturns(t) \/ StopFails(t)
      PROVE  FlagsTyped'
  BY <1>5, <1>1 DEF DetachTask, JoinEnds, CloseHolds, CloseReturns, StopAdmitted, StopBegins,
     StopReturns, StopFails, Return, AskStop, ReportClean, SetStop, authorityVars, portVars,
     historyVars
<1>6. CASE SettleReturned \/ SettleCancelled \/ CommandFails \/ Execute \/ Refuse \/ Withdraw \/
     Abandon \/ DriverReturns
  BY <1>6, <1>1 DEF SettleReturned, SettleCancelled, CommandFails, Execute, Refuse, Withdraw,
     Abandon, DriverReturns, Settle, WorkerMoves, authorityVars, portVars, historyVars
<1>7. CASE PressDeadman
  BY <1>7, NamesAssumption, BoundsAssumption DEF PressDeadman, authorityVars, portVars,
     historyVars, TypeOK, FlagsTyped, Authorities
<1>8. ASSUME NEW t \in Threads, NEW k \in Tasks, CancelTask(t, k) PROVE FlagsTyped'
  BY <1>8, NamesAssumption, BoundsAssumption DEF CancelTask, Enter, ClearModelQueue, Finish,
     AskStop, authorityVars, portVars, historyVars, TypeOK, FlagsTyped, Authorities
<1>9. ASSUME NEW t \in Threads, NEW k \in Tasks, FinishTask(t, k) PROVE FlagsTyped'
  BY <1>9, NamesAssumption, BoundsAssumption DEF FinishTask, Enter, CancelActiveAutomatic,
     Automatic, ClearModelQueue, Finish, AskStop, authorityVars, portVars, historyVars, TypeOK,
     FlagsTyped, Authorities
<1>10. ASSUME NEW t \in Threads, AcquireManual(t) PROVE FlagsTyped'
  BY <1>10, NamesAssumption, BoundsAssumption DEF AcquireManual, EnterManual, Enter,
     CancelActive, ClearBoth, Finish, AskStop, authorityVars, portVars, historyVars, TypeOK,
     FlagsTyped, Authorities
<1>11. ASSUME NEW t \in Threads, ReleaseManual(t) PROVE FlagsTyped'
  BY <1>11, NamesAssumption, BoundsAssumption DEF ReleaseManual, EnterManual, Enter,
     CancelActiveManual, Manual, ClearManual, Finish, AskStop, authorityVars, portVars,
     historyVars, TypeOK, FlagsTyped, Authorities
<1>12. ASSUME NEW t \in Threads, ReleaseDeadman(t) PROVE FlagsTyped'
  BY <1>12, NamesAssumption, BoundsAssumption DEF ReleaseDeadman, EnterManual, Enter,
     DropDeadman, CancelActiveManual, Manual, ClearManual, Finish, AskStop, authorityVars,
     portVars, historyVars, TypeOK, FlagsTyped, Authorities
<1>13. ASSUME NEW t \in Threads, Hold(t) PROVE FlagsTyped'
  BY <1>13, NamesAssumption, BoundsAssumption DEF Hold, Enter, CancelActive, ClearBoth, Finish,
     AskStop, authorityVars, portVars, historyVars, TypeOK, FlagsTyped, Authorities
<1>14. ASSUME NEW t \in Threads, EmergencyStop(t) PROVE FlagsTyped'
  BY <1>14, NamesAssumption, BoundsAssumption DEF EmergencyStop, Enter, EmergencyLatch, Latch,
     CancelActive, ClearBoth, Finish, AskStop, authorityVars, portVars, historyVars, TypeOK,
     FlagsTyped, Authorities
<1>15. ASSUME NEW t \in Threads, Reset(t) PROVE FlagsTyped'
  BY <1>15, NamesAssumption, BoundsAssumption DEF Reset, Enter, AskStop, authorityVars, portVars,
     historyVars, TypeOK, FlagsTyped, Authorities
<1>16. ASSUME NEW t \in Threads, Close(t) PROVE FlagsTyped'
  BY <1>16, NamesAssumption, BoundsAssumption DEF Close, Enter, CancelActive, ClearBoth, Finish,
     authorityVars, portVars, historyVars, TypeOK, FlagsTyped, Authorities
<1>17. CASE DeadmanExpires
  BY <1>17, NamesAssumption, BoundsAssumption DEF DeadmanExpires, DropDeadman,
     CancelActiveManual, Manual, ClearManual, Finish, AskStop, authorityVars, portVars,
     historyVars, TypeOK, FlagsTyped, Authorities
<1>18. ASSUME NEW t \in Agents, EmergencyStopReturns(t) PROVE FlagsTyped'
  BY <1>18, NamesAssumption, BoundsAssumption DEF EmergencyStopReturns, Return, StopEnded,
     authorityVars, portVars, historyVars, TypeOK, FlagsTyped, Authorities
<1>19. ASSUME NEW t \in Agents, HoldSucceeds(t) PROVE FlagsTyped'
  BY <1>19, NamesAssumption, BoundsAssumption DEF HoldSucceeds, ReleasedAuthority, Return,
     authorityVars, portVars, historyVars, TypeOK, FlagsTyped, Authorities
<1>20. ASSUME NEW t \in Agents, HoldFails(t) PROVE FlagsTyped'
  BY <1>20, NamesAssumption, BoundsAssumption DEF HoldFails, Latch, CancelActive, ClearBoth,
     Finish, Return, authorityVars, portVars, historyVars, TypeOK, FlagsTyped, Authorities
<1>21. ASSUME NEW t \in Agents, ResetReturns(t) PROVE FlagsTyped'
  BY <1>21, NamesAssumption, BoundsAssumption DEF ResetReturns, ResetAccepted, StopEnded, Return,
     authorityVars, portVars, historyVars, TypeOK, FlagsTyped, Authorities
<1>22. ASSUME NEW t \in Agents, ClosePort(t) PROVE FlagsTyped'
  BY <1>22, NamesAssumption, BoundsAssumption DEF ClosePort, StopEnded, authorityVars, portVars,
     historyVars, TypeOK, FlagsTyped, Authorities
<1>23. CASE WorkerStops
  BY <1>23, NamesAssumption, BoundsAssumption DEF WorkerStops, EmergencyLatch, Latch,
     CancelActive, ClearBoth, Finish, AskStop, authorityVars, portVars, historyVars, TypeOK,
     FlagsTyped, Authorities
<1>24. CASE SettleFailed
  BY <1>24, NamesAssumption, BoundsAssumption DEF SettleFailed, Settle, Return, StopEnded,
     authorityVars, portVars, historyVars, TypeOK, FlagsTyped, Authorities
<1> QED
  BY <1>2, <1>3, <1>4, <1>5, <1>6, <1>7, <1>8, <1>9, <1>10, <1>11, <1>12, <1>13, <1>14, <1>15,
     <1>16, <1>17, <1>18, <1>19, <1>20, <1>21, <1>22, <1>23, <1>24
     DEF Next, Request,
     Continue, WorkerStep, PortStop, PortCommand

\* Every step keeps tickets, tasks and queues typed, and the FIFO in its capacity.
LEMMA TicketsStep ==
    ASSUME BaseInv, Next
    PROVE  TicketsTyped'
<1> USE DEF BaseInv
<1>1. ASSUME UNCHANGED <<modelTask, tokenSet, begun, overtaken, status, owner, cancelled,
             modelQueue, manualPending>>
      PROVE  TicketsTyped'
  BY <1>1 DEF TypeOK, TicketsTyped
<1>2. CASE PressDeadman \/ CommandFails \/ Execute \/ Refuse \/ Abandon \/ DriverReturns
  BY <1>2, <1>1 DEF PressDeadman, CommandFails, Execute, Refuse, Abandon, DriverReturns,
     WorkerMoves, taskVars, pendingVars, historyVars
<1>3. ASSUME NEW t \in Threads, Reset(t) PROVE TicketsTyped'
  BY <1>3, <1>1 DEF Reset, Enter, AskStop, taskVars, pendingVars, historyVars
<1>4. ASSUME NEW t \in Agents, JoinEnds(t) \/ EmergencyStopReturns(t) \/ HoldSucceeds(t) \/
             ResetReturns(t) \/ CloseHolds(t) \/ ClosePort(t) \/ CloseReturns(t) \/
             StopAdmitted(t) \/ StopBegins(t) \/ StopReturns(t) \/ StopFails(t)
      PROVE  TicketsTyped'
  BY <1>4, <1>1 DEF JoinEnds, EmergencyStopReturns, HoldSucceeds, ResetReturns, CloseHolds,
     ClosePort, CloseReturns, StopAdmitted, StopBegins, StopReturns, StopFails, Return,
     StopEnded, ReleasedAuthority, ResetAccepted, AskStop, ReportClean, SetStop, taskVars,
     pendingVars, historyVars
<1>5. ASSUME NEW k \in Tasks, BeginTask(k) PROVE TicketsTyped'
  BY <1>5, NamesAssumption, BoundsAssumption, ElementsAreTickets DEF BeginTask,
     CancelActiveAutomatic, Automatic, ClearModelQueue, Finish, taskVars, pendingVars,
     historyVars, TypeOK, TicketsTyped, Terminal, Statuses
<1>6. ASSUME NEW k \in Tasks, SetToken(k) PROVE TicketsTyped'
  BY <1>6, NamesAssumption, BoundsAssumption, ElementsAreTickets DEF SetToken, taskVars,
     pendingVars, historyVars, TypeOK, TicketsTyped, Terminal, Statuses
<1>7. ASSUME NEW x \in Tickets, NEW k \in Tasks, SubmitAutomatic(x, k) PROVE TicketsTyped'
  BY <1>7, AppendTicket, NamesAssumption, BoundsAssumption DEF SubmitAutomatic, MaySubmit,
     QueueHasRoom, taskVars, pendingVars, historyVars, TypeOK, TicketsTyped, Terminal, Statuses
<1>8. ASSUME NEW x \in Tickets, SubmitManual(x) PROVE TicketsTyped'
  BY <1>8, NamesAssumption, BoundsAssumption, ElementsAreTickets DEF SubmitManual, Finish,
     taskVars, pendingVars, historyVars, TypeOK, TicketsTyped, Terminal, Statuses
<1>9. ASSUME NEW t \in Threads, NEW k \in Tasks, CancelTask(t, k) PROVE TicketsTyped'
  BY <1>9, NamesAssumption, BoundsAssumption, ElementsAreTickets DEF CancelTask, Enter,
     ClearModelQueue, Finish, AskStop, taskVars, pendingVars, historyVars, TypeOK, TicketsTyped,
     Terminal, Statuses
<1>10. ASSUME NEW t \in Threads, NEW k \in Tasks, FinishTask(t, k) PROVE TicketsTyped'
  BY <1>10, NamesAssumption, BoundsAssumption, ElementsAreTickets DEF FinishTask, Enter,
     CancelActiveAutomatic, Automatic, ClearModelQueue, Finish, AskStop, taskVars, pendingVars,
     historyVars, TypeOK, TicketsTyped, Terminal, Statuses
<1>11. ASSUME NEW t \in Threads, AcquireManual(t) PROVE TicketsTyped'
  BY <1>11, NamesAssumption, BoundsAssumption, ElementsAreTickets DEF AcquireManual, EnterManual,
     Enter, CancelActive, ClearBoth, Finish, AskStop, taskVars, pendingVars, historyVars, TypeOK,
     TicketsTyped, Terminal, Statuses
<1>12. ASSUME NEW t \in Threads, ReleaseManual(t) PROVE TicketsTyped'
  BY <1>12, NamesAssumption, BoundsAssumption, ElementsAreTickets DEF ReleaseManual, EnterManual,
     Enter, CancelActiveManual, Manual, ClearManual, Finish, AskStop, taskVars, pendingVars,
     historyVars, TypeOK, TicketsTyped, Terminal, Statuses
<1>13. ASSUME NEW t \in Threads, ReleaseDeadman(t) PROVE TicketsTyped'
  BY <1>13, NamesAssumption, BoundsAssumption, ElementsAreTickets DEF ReleaseDeadman,
     EnterManual, Enter, DropDeadman, CancelActiveManual, Manual, ClearManual, Finish, AskStop,
     taskVars, pendingVars, historyVars, TypeOK, TicketsTyped, Terminal, Statuses
<1>14. ASSUME NEW t \in Threads, Hold(t) PROVE TicketsTyped'
  BY <1>14, NamesAssumption, BoundsAssumption, ElementsAreTickets DEF Hold, Enter, CancelActive,
     ClearBoth, Finish, AskStop, taskVars, pendingVars, historyVars, TypeOK, TicketsTyped,
     Terminal, Statuses
<1>15. ASSUME NEW t \in Threads, EmergencyStop(t) PROVE TicketsTyped'
  BY <1>15, NamesAssumption, BoundsAssumption, ElementsAreTickets DEF EmergencyStop, Enter,
     EmergencyLatch, Latch, CancelActive, ClearBoth, Finish, AskStop, taskVars, pendingVars,
     historyVars, TypeOK, TicketsTyped, Terminal, Statuses
<1>16. ASSUME NEW t \in Threads, Close(t) PROVE TicketsTyped'
  BY <1>16, NamesAssumption, BoundsAssumption, ElementsAreTickets DEF Close, Enter, CancelActive,
     ClearBoth, Finish, taskVars, pendingVars, historyVars, TypeOK, TicketsTyped, Terminal, Statuses
<1>17. CASE DeadmanExpires
  BY <1>17, NamesAssumption, BoundsAssumption, ElementsAreTickets DEF DeadmanExpires,
     DropDeadman, CancelActiveManual, Manual, ClearManual, Finish, AskStop, taskVars,
     pendingVars, historyVars, TypeOK, TicketsTyped, Terminal, Statuses
<1>18. ASSUME NEW t \in Agents, DetachTask(t) PROVE TicketsTyped'
  BY <1>18, NamesAssumption, BoundsAssumption, ElementsAreTickets DEF DetachTask, Return,
     taskVars, pendingVars, historyVars, TypeOK, TicketsTyped, Terminal, Statuses
<1>19. ASSUME NEW t \in Agents, HoldFails(t) PROVE TicketsTyped'
  BY <1>19, NamesAssumption, BoundsAssumption, ElementsAreTickets DEF HoldFails, Latch,
     CancelActive, ClearBoth, Finish, Return, taskVars, pendingVars, historyVars, TypeOK,
     TicketsTyped, Terminal, Statuses
<1>20. ASSUME NEW x \in Tickets, Dispatch(x) PROVE TicketsTyped'
  <2>1. TakenFrom(x)
    BY <1>20, Taken DEF Dispatch
  <2> QED
    BY <1>20, <2>1, NamesAssumption, BoundsAssumption DEF Dispatch, TakenFrom, Take, taskVars,
     pendingVars, historyVars, TypeOK, TicketsTyped, Terminal, Statuses
<1>21. ASSUME NEW x \in Tickets, DispatchNot(x) PROVE TicketsTyped'
  <2>1. TakenFrom(x)
    BY <1>21, Taken DEF DispatchNot
  <2> QED
    BY <1>21, <2>1, NamesAssumption, BoundsAssumption DEF DispatchNot, TakenFrom, Take, taskVars,
     pendingVars, historyVars, TypeOK, TicketsTyped, Terminal, Statuses
<1>22. CASE SettleReturned
  BY <1>22, NamesAssumption, BoundsAssumption, ElementsAreTickets DEF SettleReturned, Settle,
     taskVars, pendingVars, historyVars, TypeOK, TicketsTyped, Terminal, Statuses
<1>23. CASE SettleCancelled
  BY <1>23, NamesAssumption, BoundsAssumption, ElementsAreTickets DEF SettleCancelled, Settle,
     taskVars, pendingVars, historyVars, TypeOK, TicketsTyped, Terminal, Statuses
<1>24. CASE WorkerStops
  BY <1>24, NamesAssumption, BoundsAssumption, ElementsAreTickets DEF WorkerStops,
     EmergencyLatch, Latch, CancelActive, ClearBoth, Finish, AskStop, taskVars, pendingVars,
     historyVars, TypeOK, TicketsTyped, Terminal, Statuses
<1>25. CASE SettleFailed
  BY <1>25, NamesAssumption, BoundsAssumption, ElementsAreTickets DEF SettleFailed, Settle,
     Return, StopEnded, taskVars, pendingVars, historyVars, TypeOK, TicketsTyped, Terminal, Statuses
<1>26. CASE Withdraw
  BY <1>26, NamesAssumption, BoundsAssumption, ElementsAreTickets DEF Withdraw, Settle, taskVars,
     pendingVars, historyVars, TypeOK, TicketsTyped, Terminal, Statuses
<1> QED
  BY <1>2, <1>3, <1>4, <1>5, <1>6, <1>7, <1>8, <1>9, <1>10, <1>11, <1>12, <1>13, <1>14, <1>15,
     <1>16, <1>17, <1>18, <1>19, <1>20, <1>21, <1>22, <1>23, <1>24, <1>25, <1>26
     DEF Next,
     Request, Continue, WorkerStep, PortStop, PortCommand

\* Every step keeps the worker and the driver typed.
LEMMA WorkerTypeStep ==
    ASSUME BaseInv, Next
    PROVE  WorkerTyped'
<1> USE DEF BaseInv
<1>1. ASSUME UNCHANGED <<active, worker, driver>> PROVE WorkerTyped'
  BY <1>1 DEF TypeOK, WorkerTyped
<1>2. ASSUME NEW k \in Tasks, BeginTask(k) \/ SetToken(k) PROVE WorkerTyped'
  BY <1>2, <1>1 DEF BeginTask, SetToken, CancelActiveAutomatic, Automatic, ClearModelQueue,
     Finish, portVars
<1>3. ASSUME NEW x \in Tickets, NEW k \in Tasks, SubmitAutomatic(x, k) PROVE WorkerTyped'
  BY <1>3, <1>1 DEF SubmitAutomatic, MaySubmit, QueueHasRoom, portVars
<1>4. CASE PressDeadman \/ DeadmanExpires
  BY <1>4, <1>1 DEF PressDeadman, DeadmanExpires, DropDeadman, CancelActiveManual, Manual,
     ClearManual, Finish, AskStop, portVars
<1>5. ASSUME NEW x \in Tickets, SubmitManual(x) \/ DispatchNot(x) PROVE WorkerTyped'
  BY <1>5, <1>1 DEF SubmitManual, DispatchNot, Finish, Take, portVars
<1>6. ASSUME NEW t \in Threads, NEW k \in Tasks, CancelTask(t, k) \/ FinishTask(t, k)
      PROVE  WorkerTyped'
  BY <1>6, <1>1 DEF CancelTask, FinishTask, Enter, ClearModelQueue, Finish, AskStop,
     CancelActiveAutomatic, Automatic, portVars
<1>7. ASSUME NEW t \in Threads, AcquireManual(t) \/ ReleaseManual(t) \/ ReleaseDeadman(t) \/
             Hold(t) \/ EmergencyStop(t) \/ Reset(t) \/ Close(t)
      PROVE  WorkerTyped'
  BY <1>7, <1>1 DEF AcquireManual, ReleaseManual, ReleaseDeadman, Hold, EmergencyStop, Reset,
     Close, EnterManual, Enter, CancelActive, ClearBoth, Finish, AskStop, CancelActiveManual,
     Manual, ClearManual, DropDeadman, EmergencyLatch, Latch, portVars
<1>8. ASSUME NEW t \in Agents, DetachTask(t) \/ JoinEnds(t) \/ EmergencyStopReturns(t) \/
             HoldSucceeds(t) \/ HoldFails(t) \/ ResetReturns(t) \/ CloseHolds(t) \/ ClosePort(t)
             \/ CloseReturns(t) \/ StopAdmitted(t) \/ StopBegins(t) \/ StopReturns(t) \/
             StopFails(t)
      PROVE  WorkerTyped'
  BY <1>8, <1>1 DEF DetachTask, JoinEnds, EmergencyStopReturns, HoldSucceeds, HoldFails,
     ResetReturns, CloseHolds, ClosePort, CloseReturns, StopAdmitted, StopBegins, StopReturns,
     StopFails, Return, StopEnded, ReleasedAuthority, Latch, CancelActive, ClearBoth, Finish,
     ResetAccepted, AskStop, ReportClean, SetStop, portVars
<1>9. ASSUME NEW x \in Tickets, Dispatch(x) PROVE WorkerTyped'
  BY <1>9, NamesAssumption DEF Dispatch, Take, portVars, TypeOK, WorkerTyped, WorkerStates
<1>10. CASE SettleReturned
  BY <1>10, NamesAssumption DEF SettleReturned, Settle, portVars, TypeOK, WorkerTyped, WorkerStates
<1>11. CASE SettleCancelled
  BY <1>11, NamesAssumption DEF SettleCancelled, Settle, portVars, TypeOK, WorkerTyped, WorkerStates
<1>12. CASE CommandFails
  BY <1>12, NamesAssumption DEF CommandFails, portVars, TypeOK, WorkerTyped, WorkerStates
<1>13. CASE WorkerStops
  BY <1>13, NamesAssumption DEF WorkerStops, EmergencyLatch, Latch, CancelActive, ClearBoth,
     Finish, AskStop, portVars, TypeOK, WorkerTyped, WorkerStates
<1>14. CASE SettleFailed
  BY <1>14, NamesAssumption DEF SettleFailed, Settle, Return, StopEnded, portVars, TypeOK,
     WorkerTyped, WorkerStates
<1>15. CASE Execute
  BY <1>15, NamesAssumption DEF Execute, WorkerMoves, portVars, TypeOK, WorkerTyped, WorkerStates
<1>16. CASE Refuse
  BY <1>16, NamesAssumption DEF Refuse, WorkerMoves, portVars, TypeOK, WorkerTyped, WorkerStates
<1>17. CASE Withdraw
  BY <1>17, NamesAssumption DEF Withdraw, Settle, portVars, TypeOK, WorkerTyped, WorkerStates
<1>18. CASE Abandon
  BY <1>18, NamesAssumption DEF Abandon, WorkerMoves, portVars, TypeOK, WorkerTyped, WorkerStates
<1>19. CASE DriverReturns
  BY <1>19, NamesAssumption DEF DriverReturns, WorkerMoves, portVars, TypeOK, WorkerTyped,
     WorkerStates
<1> QED
  BY <1>2, <1>3, <1>4, <1>5, <1>6, <1>7, <1>8, <1>9, <1>10, <1>11, <1>12, <1>13, <1>14, <1>15,
     <1>16, <1>17, <1>18, <1>19
     DEF Next, Request, Continue, WorkerStep, PortStop, PortCommand

\* Every step keeps the threads typed.
LEMMA ThreadsStep ==
    ASSUME BaseInv, Next
    PROVE  ThreadsTyped'
<1> USE DEF BaseInv
<1>1. ASSUME UNCHANGED <<job, stop, finishing, fresh, manualLock, closeReport, operations>>
      PROVE  ThreadsTyped'
  BY <1>1 DEF TypeOK, ThreadsTyped
<1>2. ASSUME NEW k \in Tasks, BeginTask(k) \/ SetToken(k) PROVE ThreadsTyped'
  BY <1>2, <1>1 DEF BeginTask, SetToken, CancelActiveAutomatic, Automatic, ClearModelQueue,
     Finish, threadVars
<1>3. ASSUME NEW x \in Tickets, NEW k \in Tasks, SubmitAutomatic(x, k) PROVE ThreadsTyped'
  BY <1>3, <1>1 DEF SubmitAutomatic, MaySubmit, QueueHasRoom, threadVars
<1>4. CASE PressDeadman \/ SettleReturned \/ SettleCancelled \/ CommandFails \/ Execute \/ Refuse
     \/ Withdraw \/ Abandon \/ DriverReturns
  BY <1>4, <1>1 DEF PressDeadman, SettleReturned, SettleCancelled, CommandFails, Execute, Refuse,
     Withdraw, Abandon, DriverReturns, Settle, WorkerMoves, threadVars
<1>5. ASSUME NEW x \in Tickets, SubmitManual(x) \/ Dispatch(x) \/ DispatchNot(x) PROVE ThreadsTyped'
  BY <1>5, <1>1 DEF SubmitManual, Dispatch, DispatchNot, Finish, Take, threadVars
<1>6. ASSUME NEW t \in Threads, NEW k \in Tasks, CancelTask(t, k) PROVE ThreadsTyped'
  BY <1>6, NamesAssumption, BoundsAssumption DEF CancelTask, Enter, ClearModelQueue, Finish,
     AskStop, threadVars, TypeOK, ThreadsTyped, Jobs, Stops, Agents
<1>7. ASSUME NEW t \in Threads, NEW k \in Tasks, FinishTask(t, k) PROVE ThreadsTyped'
  BY <1>7, NamesAssumption, BoundsAssumption DEF FinishTask, Enter, CancelActiveAutomatic,
     Automatic, ClearModelQueue, Finish, AskStop, threadVars, TypeOK, ThreadsTyped, Jobs, Stops,
     Agents
<1>8. ASSUME NEW t \in Threads, AcquireManual(t) PROVE ThreadsTyped'
  BY <1>8, NamesAssumption, BoundsAssumption DEF AcquireManual, EnterManual, Enter, CancelActive,
     ClearBoth, Finish, AskStop, threadVars, TypeOK, ThreadsTyped, Jobs, Stops, Agents
<1>9. ASSUME NEW t \in Threads, ReleaseManual(t) PROVE ThreadsTyped'
  BY <1>9, NamesAssumption, BoundsAssumption DEF ReleaseManual, EnterManual, Enter,
     CancelActiveManual, Manual, ClearManual, Finish, AskStop, threadVars, TypeOK, ThreadsTyped,
     Jobs, Stops, Agents
<1>10. ASSUME NEW t \in Threads, ReleaseDeadman(t) PROVE ThreadsTyped'
  BY <1>10, NamesAssumption, BoundsAssumption DEF ReleaseDeadman, EnterManual, Enter,
     DropDeadman, CancelActiveManual, Manual, ClearManual, Finish, AskStop, threadVars, TypeOK,
     ThreadsTyped, Jobs, Stops, Agents
<1>11. ASSUME NEW t \in Threads, Hold(t) PROVE ThreadsTyped'
  BY <1>11, NamesAssumption, BoundsAssumption DEF Hold, Enter, CancelActive, ClearBoth, Finish,
     AskStop, threadVars, TypeOK, ThreadsTyped, Jobs, Stops, Agents
<1>12. ASSUME NEW t \in Threads, EmergencyStop(t) PROVE ThreadsTyped'
  BY <1>12, NamesAssumption, BoundsAssumption DEF EmergencyStop, Enter, EmergencyLatch, Latch,
     CancelActive, ClearBoth, Finish, AskStop, threadVars, TypeOK, ThreadsTyped, Jobs, Stops, Agents
<1>13. ASSUME NEW t \in Threads, Reset(t) PROVE ThreadsTyped'
  BY <1>13, NamesAssumption, BoundsAssumption DEF Reset, Enter, AskStop, threadVars, TypeOK,
     ThreadsTyped, Jobs, Stops, Agents
<1>14. ASSUME NEW t \in Threads, Close(t) PROVE ThreadsTyped'
  BY <1>14, NamesAssumption, BoundsAssumption DEF Close, Enter, CancelActive, ClearBoth, Finish,
     threadVars, TypeOK, ThreadsTyped, Jobs, Stops, Agents
<1>15. CASE DeadmanExpires
  BY <1>15, NamesAssumption, BoundsAssumption DEF DeadmanExpires, DropDeadman,
     CancelActiveManual, Manual, ClearManual, Finish, AskStop, threadVars, TypeOK, ThreadsTyped,
     Jobs, Stops, Agents
<1>16. ASSUME NEW t \in Agents, DetachTask(t) PROVE ThreadsTyped'
  BY <1>16, NamesAssumption, BoundsAssumption DEF DetachTask, Return, threadVars, TypeOK,
     ThreadsTyped, Jobs, Stops, Agents
<1>17. ASSUME NEW t \in Agents, JoinEnds(t) PROVE ThreadsTyped'
  BY <1>17, NamesAssumption, BoundsAssumption DEF JoinEnds, Return, threadVars, TypeOK,
     ThreadsTyped, Jobs, Stops, Agents
<1>18. ASSUME NEW t \in Agents, EmergencyStopReturns(t) PROVE ThreadsTyped'
  BY <1>18, NamesAssumption, BoundsAssumption DEF EmergencyStopReturns, Return, StopEnded,
     threadVars, TypeOK, ThreadsTyped, Jobs, Stops, Agents
<1>19. ASSUME NEW t \in Agents, HoldSucceeds(t) PROVE ThreadsTyped'
  BY <1>19, NamesAssumption, BoundsAssumption DEF HoldSucceeds, ReleasedAuthority, Return,
     threadVars, TypeOK, ThreadsTyped, Jobs, Stops, Agents
<1>20. ASSUME NEW t \in Agents, HoldFails(t) PROVE ThreadsTyped'
  BY <1>20, NamesAssumption, BoundsAssumption DEF HoldFails, Latch, CancelActive, ClearBoth,
     Finish, Return, threadVars, TypeOK, ThreadsTyped, Jobs, Stops, Agents
<1>21. ASSUME NEW t \in Agents, ResetReturns(t) PROVE ThreadsTyped'
  BY <1>21, NamesAssumption, BoundsAssumption DEF ResetReturns, ResetAccepted, StopEnded, Return,
     threadVars, TypeOK, ThreadsTyped, Jobs, Stops, Agents
<1>22. ASSUME NEW t \in Agents, CloseHolds(t) PROVE ThreadsTyped'
  BY <1>22, NamesAssumption, BoundsAssumption DEF CloseHolds, AskStop, threadVars, TypeOK,
     ThreadsTyped, Jobs, Stops, Agents
<1>23. ASSUME NEW t \in Agents, ClosePort(t) PROVE ThreadsTyped'
  BY <1>23, NamesAssumption, BoundsAssumption DEF ClosePort, StopEnded, threadVars, TypeOK,
     ThreadsTyped, Jobs, Stops, Agents
<1>24. ASSUME NEW t \in Agents, CloseReturns(t) PROVE ThreadsTyped'
  BY <1>24, NamesAssumption, BoundsAssumption DEF CloseReturns, ReportClean, Return, threadVars,
     TypeOK, ThreadsTyped, Jobs, Stops, Agents
<1>25. CASE WorkerStops
  BY <1>25, NamesAssumption, BoundsAssumption DEF WorkerStops, EmergencyLatch, Latch,
     CancelActive, ClearBoth, Finish, AskStop, threadVars, TypeOK, ThreadsTyped, Jobs, Stops, Agents
<1>26. CASE SettleFailed
  BY <1>26, NamesAssumption, BoundsAssumption DEF SettleFailed, Settle, Return, StopEnded,
     threadVars, TypeOK, ThreadsTyped, Jobs, Stops, Agents
<1>27. ASSUME NEW t \in Agents, StopAdmitted(t) PROVE ThreadsTyped'
  BY <1>27, NamesAssumption, BoundsAssumption DEF StopAdmitted, SetStop, threadVars, TypeOK,
     ThreadsTyped, Jobs, Stops, Agents
<1>28. ASSUME NEW t \in Agents, StopBegins(t) PROVE ThreadsTyped'
  BY <1>28, NamesAssumption, BoundsAssumption DEF StopBegins, SetStop, threadVars, TypeOK,
     ThreadsTyped, Jobs, Stops, Agents
<1>29. ASSUME NEW t \in Agents, StopReturns(t) PROVE ThreadsTyped'
  BY <1>29, NamesAssumption, BoundsAssumption DEF StopReturns, SetStop, threadVars, TypeOK,
     ThreadsTyped, Jobs, Stops, Agents
<1>30. ASSUME NEW t \in Agents, StopFails(t) PROVE ThreadsTyped'
  BY <1>30, NamesAssumption, BoundsAssumption DEF StopFails, SetStop, threadVars, TypeOK,
     ThreadsTyped, Jobs, Stops, Agents
<1> QED
  BY <1>2, <1>3, <1>4, <1>5, <1>6, <1>7, <1>8, <1>9, <1>10, <1>11, <1>12, <1>13, <1>14, <1>15,
     <1>16, <1>17, <1>18, <1>19, <1>20, <1>21, <1>22, <1>23, <1>24, <1>25, <1>26, <1>27, <1>28,
     <1>29, <1>30
     DEF Next, Request, Continue, WorkerStep, PortStop, PortCommand

\* Every step keeps the types.
LEMMA TypeStep ==
    ASSUME BaseInv, Next
    PROVE  TypeOK'
  BY FlagsStep, TicketsStep, WorkerTypeStep, ThreadsStep
     DEF TypeOK, FlagsTyped, TicketsTyped, WorkerTyped, ThreadsTyped

\* Every step keeps the tickets in their places.
LEMMA PlaceStep ==
    ASSUME BaseInv, Next
    PROVE  PlaceInv'
<1> USE DEF BaseInv
<1>1. ASSUME UNCHANGED <<status, owner, modelQueue, manualPending, active>> PROVE PlaceInv'
  BY <1>1 DEF PlaceInv
<1>2. ASSUME NEW k \in Tasks, SetToken(k) PROVE PlaceInv'
  BY <1>2, <1>1 DEF SetToken, pendingVars
<1>3. CASE PressDeadman \/ CommandFails \/ Execute \/ Refuse \/ Abandon \/ DriverReturns
  BY <1>3, <1>1 DEF PressDeadman, CommandFails, Execute, Refuse, Abandon, DriverReturns,
     WorkerMoves, pendingVars
<1>4. ASSUME NEW t \in Threads, Reset(t) PROVE PlaceInv'
  BY <1>4, <1>1 DEF Reset, Enter, AskStop, pendingVars
<1>5. ASSUME NEW t \in Agents, DetachTask(t) \/ JoinEnds(t) \/ EmergencyStopReturns(t) \/
             HoldSucceeds(t) \/ ResetReturns(t) \/ CloseHolds(t) \/ ClosePort(t) \/
             CloseReturns(t) \/ StopAdmitted(t) \/ StopBegins(t) \/ StopReturns(t) \/ StopFails(t)
      PROVE  PlaceInv'
  BY <1>5, <1>1 DEF DetachTask, JoinEnds, EmergencyStopReturns, HoldSucceeds, ResetReturns,
     CloseHolds, ClosePort, CloseReturns, StopAdmitted, StopBegins, StopReturns, StopFails,
     Return, StopEnded, ReleasedAuthority, ResetAccepted, AskStop, ReportClean, SetStop, pendingVars
<1>6. ASSUME NEW k \in Tasks, BeginTask(k) PROVE PlaceInv'
  BY <1>6, NamesAssumption, ElementsAreTickets DEF BeginTask, CancelActiveAutomatic, Automatic,
     ClearModelQueue, Finish, pendingVars, PlaceInv, TypeOK
<1>7. ASSUME NEW x \in Tickets, NEW k \in Tasks, SubmitAutomatic(x, k) PROVE PlaceInv'
  BY <1>7, AppendTicket, NamesAssumption, ElementsAreTickets DEF SubmitAutomatic, MaySubmit,
     QueueHasRoom, pendingVars, PlaceInv, TypeOK
<1>8. ASSUME NEW x \in Tickets, SubmitManual(x) PROVE PlaceInv'
  BY <1>8, NamesAssumption, ElementsAreTickets DEF SubmitManual, Finish, pendingVars, PlaceInv,
     TypeOK
<1>9. ASSUME NEW t \in Threads, NEW k \in Tasks, CancelTask(t, k) PROVE PlaceInv'
  BY <1>9, NamesAssumption, ElementsAreTickets DEF CancelTask, Enter, ClearModelQueue, Finish,
     AskStop, pendingVars, PlaceInv, TypeOK
<1>10. ASSUME NEW t \in Threads, NEW k \in Tasks, FinishTask(t, k) PROVE PlaceInv'
  BY <1>10, NamesAssumption, ElementsAreTickets DEF FinishTask, Enter, CancelActiveAutomatic,
     Automatic, ClearModelQueue, Finish, AskStop, pendingVars, PlaceInv, TypeOK
<1>11. ASSUME NEW t \in Threads, AcquireManual(t) PROVE PlaceInv'
  BY <1>11, NamesAssumption, ElementsAreTickets DEF AcquireManual, EnterManual, Enter,
     CancelActive, ClearBoth, Finish, AskStop, pendingVars, PlaceInv, TypeOK
<1>12. ASSUME NEW t \in Threads, ReleaseManual(t) PROVE PlaceInv'
  BY <1>12, NamesAssumption, ElementsAreTickets DEF ReleaseManual, EnterManual, Enter,
     CancelActiveManual, Manual, ClearManual, Finish, AskStop, pendingVars, PlaceInv, TypeOK
<1>13. ASSUME NEW t \in Threads, ReleaseDeadman(t) PROVE PlaceInv'
  BY <1>13, NamesAssumption, ElementsAreTickets DEF ReleaseDeadman, EnterManual, Enter,
     DropDeadman, CancelActiveManual, Manual, ClearManual, Finish, AskStop, pendingVars,
     PlaceInv, TypeOK
<1>14. ASSUME NEW t \in Threads, Hold(t) PROVE PlaceInv'
  BY <1>14, NamesAssumption, ElementsAreTickets DEF Hold, Enter, CancelActive, ClearBoth, Finish,
     AskStop, pendingVars, PlaceInv, TypeOK
<1>15. ASSUME NEW t \in Threads, EmergencyStop(t) PROVE PlaceInv'
  BY <1>15, NamesAssumption, ElementsAreTickets DEF EmergencyStop, Enter, EmergencyLatch, Latch,
     CancelActive, ClearBoth, Finish, AskStop, pendingVars, PlaceInv, TypeOK
<1>16. ASSUME NEW t \in Threads, Close(t) PROVE PlaceInv'
  BY <1>16, NamesAssumption, ElementsAreTickets DEF Close, Enter, CancelActive, ClearBoth,
     Finish, pendingVars, PlaceInv, TypeOK
<1>17. CASE DeadmanExpires
  BY <1>17, NamesAssumption, ElementsAreTickets DEF DeadmanExpires, DropDeadman,
     CancelActiveManual, Manual, ClearManual, Finish, AskStop, pendingVars, PlaceInv, TypeOK
<1>18. ASSUME NEW t \in Agents, HoldFails(t) PROVE PlaceInv'
  BY <1>18, NamesAssumption, ElementsAreTickets DEF HoldFails, Latch, CancelActive, ClearBoth,
     Finish, Return, pendingVars, PlaceInv, TypeOK
<1>19. ASSUME NEW x \in Tickets, Dispatch(x) PROVE PlaceInv'
  <2>1. TakenFrom(x)
    BY <1>19, Taken DEF Dispatch
  <2> QED
    BY <1>19, <2>1, NamesAssumption, ElementsAreTickets DEF Dispatch, TakenFrom, Take,
     pendingVars, PlaceInv, TypeOK
<1>20. ASSUME NEW x \in Tickets, DispatchNot(x) PROVE PlaceInv'
  <2>1. TakenFrom(x)
    BY <1>20, Taken DEF DispatchNot
  <2> QED
    BY <1>20, <2>1, NamesAssumption, ElementsAreTickets DEF DispatchNot, TakenFrom, Take,
     pendingVars, PlaceInv, TypeOK
<1>21. CASE SettleReturned
  BY <1>21, NamesAssumption, ElementsAreTickets DEF SettleReturned, Settle, pendingVars,
     PlaceInv, TypeOK
<1>22. CASE SettleCancelled
  BY <1>22, NamesAssumption, ElementsAreTickets DEF SettleCancelled, Settle, pendingVars,
     PlaceInv, TypeOK
<1>23. CASE WorkerStops
  BY <1>23, NamesAssumption, ElementsAreTickets DEF WorkerStops, EmergencyLatch, Latch,
     CancelActive, ClearBoth, Finish, AskStop, pendingVars, PlaceInv, TypeOK
<1>24. CASE SettleFailed
  BY <1>24, NamesAssumption, ElementsAreTickets DEF SettleFailed, Settle, Return, StopEnded,
     pendingVars, PlaceInv, TypeOK
<1>25. CASE Withdraw
  BY <1>25, NamesAssumption, ElementsAreTickets DEF Withdraw, Settle, pendingVars, PlaceInv, TypeOK
<1> QED
  BY <1>2, <1>3, <1>4, <1>5, <1>6, <1>7, <1>8, <1>9, <1>10, <1>11, <1>12, <1>13, <1>14, <1>15,
     <1>16, <1>17, <1>18, <1>19, <1>20, <1>21, <1>22, <1>23, <1>24, <1>25
     DEF Next, Request,
     Continue, WorkerStep, PortStop, PortCommand

\* Every step keeps overtaken tasks silent.
LEMMA TaskStep ==
    ASSUME BaseInv, Next
    PROVE  TaskInv'
<1> USE DEF BaseInv
<1>1. ASSUME UNCHANGED <<modelTask, tokenSet, begun, owner, modelQueue, active, cancelled,
             overtaken>>
      PROVE  TaskInv'
  BY <1>1 DEF TaskInv, OvertakenTaskSilent
<1>2. CASE PressDeadman \/ CommandFails \/ Execute \/ Refuse \/ Abandon \/ DriverReturns
  BY <1>2, <1>1 DEF PressDeadman, CommandFails, Execute, Refuse, Abandon, DriverReturns,
     WorkerMoves, taskVars, pendingVars, historyVars
<1>3. ASSUME NEW x \in Tickets, SubmitManual(x) PROVE TaskInv'
  BY <1>3, <1>1 DEF SubmitManual, Finish, taskVars, pendingVars, historyVars
<1>4. ASSUME NEW t \in Threads, Reset(t) PROVE TaskInv'
  BY <1>4, <1>1 DEF Reset, Enter, AskStop, taskVars, pendingVars, historyVars
<1>5. ASSUME NEW t \in Agents, JoinEnds(t) \/ EmergencyStopReturns(t) \/ HoldSucceeds(t) \/
             ResetReturns(t) \/ CloseHolds(t) \/ ClosePort(t) \/ CloseReturns(t) \/
             StopAdmitted(t) \/ StopBegins(t) \/ StopReturns(t) \/ StopFails(t)
      PROVE  TaskInv'
  BY <1>5, <1>1 DEF JoinEnds, EmergencyStopReturns, HoldSucceeds, ResetReturns, CloseHolds,
     ClosePort, CloseReturns, StopAdmitted, StopBegins, StopReturns, StopFails, Return,
     StopEnded, ReleasedAuthority, ResetAccepted, AskStop, ReportClean, SetStop, taskVars,
     pendingVars, historyVars
<1>6. ASSUME NEW k \in Tasks, BeginTask(k) PROVE TaskInv'
  BY <1>6, NamesAssumption, ElementsAreTickets DEF BeginTask, CancelActiveAutomatic, Automatic,
     ClearModelQueue, Finish, taskVars, pendingVars, historyVars, TaskInv, OvertakenTaskSilent,
     PlaceInv, TypeOK
<1>7. ASSUME NEW k \in Tasks, SetToken(k) PROVE TaskInv'
  BY <1>7, NamesAssumption, ElementsAreTickets DEF SetToken, taskVars, pendingVars, historyVars,
     TaskInv, OvertakenTaskSilent, PlaceInv, TypeOK
<1>8. ASSUME NEW x \in Tickets, NEW k \in Tasks, SubmitAutomatic(x, k) PROVE TaskInv'
  BY <1>8, AppendTicket, NamesAssumption, ElementsAreTickets DEF SubmitAutomatic, MaySubmit,
     QueueHasRoom, taskVars, pendingVars, historyVars, TaskInv, OvertakenTaskSilent, PlaceInv,
     TypeOK
<1>9. ASSUME NEW t \in Threads, NEW k \in Tasks, CancelTask(t, k) PROVE TaskInv'
  BY <1>9, NamesAssumption, ElementsAreTickets DEF CancelTask, Enter, ClearModelQueue, Finish,
     AskStop, taskVars, pendingVars, historyVars, TaskInv, OvertakenTaskSilent, PlaceInv, TypeOK
<1>10. ASSUME NEW t \in Threads, NEW k \in Tasks, FinishTask(t, k) PROVE TaskInv'
  BY <1>10, NamesAssumption, ElementsAreTickets DEF FinishTask, Enter, CancelActiveAutomatic,
     Automatic, ClearModelQueue, Finish, AskStop, taskVars, pendingVars, historyVars, TaskInv,
     OvertakenTaskSilent, PlaceInv, TypeOK
<1>11. ASSUME NEW t \in Threads, AcquireManual(t) PROVE TaskInv'
  BY <1>11, NamesAssumption, ElementsAreTickets DEF AcquireManual, EnterManual, Enter,
     CancelActive, ClearBoth, Finish, AskStop, taskVars, pendingVars, historyVars, TaskInv,
     OvertakenTaskSilent, PlaceInv, TypeOK
<1>12. ASSUME NEW t \in Threads, ReleaseManual(t) PROVE TaskInv'
  BY <1>12, NamesAssumption, ElementsAreTickets DEF ReleaseManual, EnterManual, Enter,
     CancelActiveManual, Manual, ClearManual, Finish, AskStop, taskVars, pendingVars,
     historyVars, TaskInv, OvertakenTaskSilent, PlaceInv, TypeOK
<1>13. ASSUME NEW t \in Threads, ReleaseDeadman(t) PROVE TaskInv'
  BY <1>13, NamesAssumption, ElementsAreTickets DEF ReleaseDeadman, EnterManual, Enter,
     DropDeadman, CancelActiveManual, Manual, ClearManual, Finish, AskStop, taskVars,
     pendingVars, historyVars, TaskInv, OvertakenTaskSilent, PlaceInv, TypeOK
<1>14. ASSUME NEW t \in Threads, Hold(t) PROVE TaskInv'
  BY <1>14, NamesAssumption, ElementsAreTickets DEF Hold, Enter, CancelActive, ClearBoth, Finish,
     AskStop, taskVars, pendingVars, historyVars, TaskInv, OvertakenTaskSilent, PlaceInv, TypeOK
<1>15. ASSUME NEW t \in Threads, EmergencyStop(t) PROVE TaskInv'
  BY <1>15, NamesAssumption, ElementsAreTickets DEF EmergencyStop, Enter, EmergencyLatch, Latch,
     CancelActive, ClearBoth, Finish, AskStop, taskVars, pendingVars, historyVars, TaskInv,
     OvertakenTaskSilent, PlaceInv, TypeOK
<1>16. ASSUME NEW t \in Threads, Close(t) PROVE TaskInv'
  BY <1>16, NamesAssumption, ElementsAreTickets DEF Close, Enter, CancelActive, ClearBoth,
     Finish, taskVars, pendingVars, historyVars, TaskInv, OvertakenTaskSilent, PlaceInv, TypeOK
<1>17. CASE DeadmanExpires
  BY <1>17, NamesAssumption, ElementsAreTickets DEF DeadmanExpires, DropDeadman,
     CancelActiveManual, Manual, ClearManual, Finish, AskStop, taskVars, pendingVars,
     historyVars, TaskInv, OvertakenTaskSilent, PlaceInv, TypeOK
<1>18. ASSUME NEW t \in Agents, DetachTask(t) PROVE TaskInv'
  BY <1>18, NamesAssumption, ElementsAreTickets DEF DetachTask, Return, taskVars, pendingVars,
     historyVars, TaskInv, OvertakenTaskSilent, PlaceInv, TypeOK
<1>19. ASSUME NEW t \in Agents, HoldFails(t) PROVE TaskInv'
  BY <1>19, NamesAssumption, ElementsAreTickets DEF HoldFails, Latch, CancelActive, ClearBoth,
     Finish, Return, taskVars, pendingVars, historyVars, TaskInv, OvertakenTaskSilent, PlaceInv,
     TypeOK
<1>20. ASSUME NEW x \in Tickets, Dispatch(x) PROVE TaskInv'
  <2>1. TakenFrom(x)
    BY <1>20, Taken DEF Dispatch
  <2> QED
    BY <1>20, <2>1, NamesAssumption, ElementsAreTickets DEF Dispatch, TakenFrom, Take, taskVars,
     pendingVars, historyVars, TaskInv, OvertakenTaskSilent, PlaceInv, TypeOK
<1>21. ASSUME NEW x \in Tickets, DispatchNot(x) PROVE TaskInv'
  <2>1. TakenFrom(x)
    BY <1>21, Taken DEF DispatchNot
  <2> QED
    BY <1>21, <2>1, NamesAssumption, ElementsAreTickets DEF DispatchNot, TakenFrom, Take,
     taskVars, pendingVars, historyVars, TaskInv, OvertakenTaskSilent, PlaceInv, TypeOK
<1>22. CASE SettleReturned
  BY <1>22, NamesAssumption, ElementsAreTickets DEF SettleReturned, Settle, taskVars,
     pendingVars, historyVars, TaskInv, OvertakenTaskSilent, PlaceInv, TypeOK
<1>23. CASE SettleCancelled
  BY <1>23, NamesAssumption, ElementsAreTickets DEF SettleCancelled, Settle, taskVars,
     pendingVars, historyVars, TaskInv, OvertakenTaskSilent, PlaceInv, TypeOK
<1>24. CASE WorkerStops
  BY <1>24, NamesAssumption, ElementsAreTickets DEF WorkerStops, EmergencyLatch, Latch,
     CancelActive, ClearBoth, Finish, AskStop, taskVars, pendingVars, historyVars, TaskInv,
     OvertakenTaskSilent, PlaceInv, TypeOK
<1>25. CASE SettleFailed
  BY <1>25, NamesAssumption, ElementsAreTickets DEF SettleFailed, Settle, Return, StopEnded,
     taskVars, pendingVars, historyVars, TaskInv, OvertakenTaskSilent, PlaceInv, TypeOK
<1>26. CASE Withdraw
  BY <1>26, NamesAssumption, ElementsAreTickets DEF Withdraw, Settle, taskVars, pendingVars,
     historyVars, TaskInv, OvertakenTaskSilent, PlaceInv, TypeOK
<1> QED
  BY <1>2, <1>3, <1>4, <1>5, <1>6, <1>7, <1>8, <1>9, <1>10, <1>11, <1>12, <1>13, <1>14, <1>15,
     <1>16, <1>17, <1>18, <1>19, <1>20, <1>21, <1>22, <1>23, <1>24, <1>25, <1>26
     DEF Next,
     Request, Continue, WorkerStep, PortStop, PortCommand

\* Every step respects the latch.
LEMMA LatchStep ==
    ASSUME BaseInv, Next
    PROVE  LatchInv'
<1> USE DEF BaseInv
<1>1. ASSUME UNCHANGED <<authority, fresh, job, unanswered>> PROVE LatchInv'
  BY <1>1 DEF LatchInv, LatchHolds
<1>2. ASSUME NEW k \in Tasks, BeginTask(k) \/ SetToken(k) PROVE LatchInv'
  BY <1>2, <1>1 DEF BeginTask, SetToken, CancelActiveAutomatic, Automatic, ClearModelQueue,
     Finish, authorityVars, threadVars, historyVars
<1>3. ASSUME NEW x \in Tickets, NEW k \in Tasks, SubmitAutomatic(x, k) PROVE LatchInv'
  BY <1>3, <1>1 DEF SubmitAutomatic, MaySubmit, QueueHasRoom, authorityVars, threadVars, historyVars
<1>4. CASE PressDeadman \/ SettleReturned \/ SettleCancelled \/ CommandFails \/ Execute \/ Refuse
     \/ Withdraw \/ Abandon \/ DriverReturns
  BY <1>4, <1>1 DEF PressDeadman, SettleReturned, SettleCancelled, CommandFails, Execute, Refuse,
     Withdraw, Abandon, DriverReturns, Settle, WorkerMoves, authorityVars, threadVars, historyVars
<1>5. ASSUME NEW x \in Tickets, SubmitManual(x) \/ Dispatch(x) \/ DispatchNot(x) PROVE LatchInv'
  BY <1>5, <1>1 DEF SubmitManual, Dispatch, DispatchNot, Finish, Take, authorityVars, threadVars,
     historyVars
<1>6. ASSUME NEW t \in Agents, StopAdmitted(t) \/ StopBegins(t) \/ StopReturns(t) \/ StopFails(t)
      PROVE  LatchInv'
  BY <1>6, <1>1 DEF StopAdmitted, StopBegins, StopReturns, StopFails, SetStop, authorityVars,
     threadVars, historyVars
<1>7. ASSUME NEW t \in Threads, NEW k \in Tasks, CancelTask(t, k) PROVE LatchInv'
  BY <1>7, NamesAssumption DEF CancelTask, Enter, ClearModelQueue, Finish, AskStop,
     authorityVars, threadVars, historyVars, LatchInv, LatchHolds, TypeOK, Agents
<1>8. ASSUME NEW t \in Threads, NEW k \in Tasks, FinishTask(t, k) PROVE LatchInv'
  BY <1>8, NamesAssumption DEF FinishTask, Enter, CancelActiveAutomatic, Automatic,
     ClearModelQueue, Finish, AskStop, authorityVars, threadVars, historyVars, LatchInv,
     LatchHolds, TypeOK, Agents
<1>9. ASSUME NEW t \in Threads, AcquireManual(t) PROVE LatchInv'
  BY <1>9, NamesAssumption DEF AcquireManual, EnterManual, Enter, CancelActive, ClearBoth,
     Finish, AskStop, authorityVars, threadVars, historyVars, LatchInv, LatchHolds, TypeOK, Agents
<1>10. ASSUME NEW t \in Threads, ReleaseManual(t) PROVE LatchInv'
  BY <1>10, NamesAssumption DEF ReleaseManual, EnterManual, Enter, CancelActiveManual, Manual,
     ClearManual, Finish, AskStop, authorityVars, threadVars, historyVars, LatchInv, LatchHolds,
     TypeOK, Agents
<1>11. ASSUME NEW t \in Threads, ReleaseDeadman(t) PROVE LatchInv'
  BY <1>11, NamesAssumption DEF ReleaseDeadman, EnterManual, Enter, DropDeadman,
     CancelActiveManual, Manual, ClearManual, Finish, AskStop, authorityVars, threadVars,
     historyVars, LatchInv, LatchHolds, TypeOK, Agents
<1>12. ASSUME NEW t \in Threads, Hold(t) PROVE LatchInv'
  BY <1>12, NamesAssumption DEF Hold, Enter, CancelActive, ClearBoth, Finish, AskStop,
     authorityVars, threadVars, historyVars, LatchInv, LatchHolds, TypeOK, Agents
<1>13. ASSUME NEW t \in Threads, EmergencyStop(t) PROVE LatchInv'
  BY <1>13, NamesAssumption DEF EmergencyStop, Enter, EmergencyLatch, Latch, CancelActive,
     ClearBoth, Finish, AskStop, authorityVars, threadVars, historyVars, LatchInv, LatchHolds,
     TypeOK, Agents
<1>14. ASSUME NEW t \in Threads, Reset(t) PROVE LatchInv'
  BY <1>14, NamesAssumption DEF Reset, Enter, AskStop, authorityVars, threadVars, historyVars,
     LatchInv, LatchHolds, TypeOK, Agents
<1>15. ASSUME NEW t \in Threads, Close(t) PROVE LatchInv'
  BY <1>15, NamesAssumption DEF Close, Enter, CancelActive, ClearBoth, Finish, authorityVars,
     threadVars, historyVars, LatchInv, LatchHolds, TypeOK, Agents
<1>16. CASE DeadmanExpires
  BY <1>16, NamesAssumption DEF DeadmanExpires, DropDeadman, CancelActiveManual, Manual,
     ClearManual, Finish, AskStop, authorityVars, threadVars, historyVars, LatchInv, LatchHolds,
     TypeOK, Agents
<1>17. ASSUME NEW t \in Agents, DetachTask(t) PROVE LatchInv'
  BY <1>17, NamesAssumption DEF DetachTask, Return, authorityVars, threadVars, historyVars,
     LatchInv, LatchHolds, TypeOK, Agents
<1>18. ASSUME NEW t \in Agents, JoinEnds(t) PROVE LatchInv'
  BY <1>18, NamesAssumption DEF JoinEnds, Return, authorityVars, threadVars, historyVars,
     LatchInv, LatchHolds, TypeOK, Agents
<1>19. ASSUME NEW t \in Agents, EmergencyStopReturns(t) PROVE LatchInv'
  BY <1>19, NamesAssumption DEF EmergencyStopReturns, Return, StopEnded, authorityVars,
     threadVars, historyVars, LatchInv, LatchHolds, TypeOK, Agents
<1>20. ASSUME NEW t \in Agents, HoldSucceeds(t) PROVE LatchInv'
  BY <1>20, NamesAssumption DEF HoldSucceeds, ReleasedAuthority, Return, authorityVars,
     threadVars, historyVars, LatchInv, LatchHolds, TypeOK, Agents
<1>21. ASSUME NEW t \in Agents, HoldFails(t) PROVE LatchInv'
  BY <1>21, NamesAssumption DEF HoldFails, Latch, CancelActive, ClearBoth, Finish, Return,
     authorityVars, threadVars, historyVars, LatchInv, LatchHolds, TypeOK, Agents
<1>22. ASSUME NEW t \in Agents, ResetReturns(t) PROVE LatchInv'
  BY <1>22, NamesAssumption DEF ResetReturns, ResetAccepted, StopEnded, Return, authorityVars,
     threadVars, historyVars, LatchInv, LatchHolds, TypeOK, Agents
<1>23. ASSUME NEW t \in Agents, CloseHolds(t) PROVE LatchInv'
  BY <1>23, NamesAssumption DEF CloseHolds, AskStop, authorityVars, threadVars, historyVars,
     LatchInv, LatchHolds, TypeOK, Agents
<1>24. ASSUME NEW t \in Agents, ClosePort(t) PROVE LatchInv'
  BY <1>24, NamesAssumption DEF ClosePort, StopEnded, authorityVars, threadVars, historyVars,
     LatchInv, LatchHolds, TypeOK, Agents
<1>25. ASSUME NEW t \in Agents, CloseReturns(t) PROVE LatchInv'
  BY <1>25, NamesAssumption DEF CloseReturns, ReportClean, Return, authorityVars, threadVars,
     historyVars, LatchInv, LatchHolds, TypeOK, Agents
<1>26. CASE WorkerStops
  BY <1>26, NamesAssumption DEF WorkerStops, EmergencyLatch, Latch, CancelActive, ClearBoth,
     Finish, AskStop, authorityVars, threadVars, historyVars, LatchInv, LatchHolds, TypeOK, Agents
<1>27. CASE SettleFailed
  BY <1>27, NamesAssumption DEF SettleFailed, Settle, Return, StopEnded, authorityVars,
     threadVars, historyVars, LatchInv, LatchHolds, TypeOK, Agents
<1> QED
  BY <1>2, <1>3, <1>4, <1>5, <1>6, <1>7, <1>8, <1>9, <1>10, <1>11, <1>12, <1>13, <1>14, <1>15,
     <1>16, <1>17, <1>18, <1>19, <1>20, <1>21, <1>22, <1>23, <1>24, <1>25, <1>26, <1>27
     DEF
     Next, Request, Continue, WorkerStep, PortStop, PortCommand

\* Nothing is started after close().
LEMMA CloseStep ==
    ASSUME BaseInv, Next
    PROVE  CloseInv'
<1> USE DEF BaseInv
<1>1. ASSUME UNCHANGED <<closed, modelQueue, manualPending, active, cancelled, portClosed, job,
             stop, closeReport, driver>>
      PROVE  CloseInv'
  BY <1>1 DEF CloseInv, Drained
<1>2. ASSUME NEW k \in Tasks, SetToken(k) PROVE CloseInv'
  BY <1>2, <1>1 DEF SetToken, authorityVars, pendingVars, threadVars, portVars
<1>3. CASE PressDeadman \/ CommandFails \/ Refuse \/ Abandon
  BY <1>3, <1>1 DEF PressDeadman, CommandFails, Refuse, Abandon, WorkerMoves, authorityVars,
     pendingVars, threadVars, portVars
<1>4. ASSUME NEW k \in Tasks, BeginTask(k) PROVE CloseInv'
  BY <1>4, NamesAssumption DEF BeginTask, CancelActiveAutomatic, Automatic, ClearModelQueue,
     Finish, authorityVars, pendingVars, threadVars, portVars, CloseInv, Drained, TypeOK, Agents
<1>5. ASSUME NEW x \in Tickets, NEW k \in Tasks, SubmitAutomatic(x, k) PROVE CloseInv'
  BY <1>5, AppendTicket, NamesAssumption DEF SubmitAutomatic, MaySubmit, QueueHasRoom,
     authorityVars, pendingVars, threadVars, portVars, CloseInv, Drained, TypeOK, Agents
<1>6. ASSUME NEW x \in Tickets, SubmitManual(x) PROVE CloseInv'
  BY <1>6, NamesAssumption DEF SubmitManual, Finish, authorityVars, pendingVars, threadVars,
     portVars, CloseInv, Drained, TypeOK, Agents
<1>7. ASSUME NEW t \in Threads, NEW k \in Tasks, CancelTask(t, k) PROVE CloseInv'
  BY <1>7, NamesAssumption DEF CancelTask, Enter, ClearModelQueue, Finish, AskStop,
     authorityVars, pendingVars, threadVars, portVars, CloseInv, Drained, TypeOK, Agents
<1>8. ASSUME NEW t \in Threads, NEW k \in Tasks, FinishTask(t, k) PROVE CloseInv'
  BY <1>8, NamesAssumption DEF FinishTask, Enter, CancelActiveAutomatic, Automatic,
     ClearModelQueue, Finish, AskStop, authorityVars, pendingVars, threadVars, portVars,
     CloseInv, Drained, TypeOK, Agents
<1>9. ASSUME NEW t \in Threads, AcquireManual(t) PROVE CloseInv'
  BY <1>9, NamesAssumption DEF AcquireManual, EnterManual, Enter, CancelActive, ClearBoth,
     Finish, AskStop, authorityVars, pendingVars, threadVars, portVars, CloseInv, Drained,
     TypeOK, Agents
<1>10. ASSUME NEW t \in Threads, ReleaseManual(t) PROVE CloseInv'
  BY <1>10, NamesAssumption DEF ReleaseManual, EnterManual, Enter, CancelActiveManual, Manual,
     ClearManual, Finish, AskStop, authorityVars, pendingVars, threadVars, portVars, CloseInv,
     Drained, TypeOK, Agents
<1>11. ASSUME NEW t \in Threads, ReleaseDeadman(t) PROVE CloseInv'
  BY <1>11, NamesAssumption DEF ReleaseDeadman, EnterManual, Enter, DropDeadman,
     CancelActiveManual, Manual, ClearManual, Finish, AskStop, authorityVars, pendingVars,
     threadVars, portVars, CloseInv, Drained, TypeOK, Agents
<1>12. ASSUME NEW t \in Threads, Hold(t) PROVE CloseInv'
  BY <1>12, NamesAssumption DEF Hold, Enter, CancelActive, ClearBoth, Finish, AskStop,
     authorityVars, pendingVars, threadVars, portVars, CloseInv, Drained, TypeOK, Agents
<1>13. ASSUME NEW t \in Threads, EmergencyStop(t) PROVE CloseInv'
  BY <1>13, NamesAssumption DEF EmergencyStop, Enter, EmergencyLatch, Latch, CancelActive,
     ClearBoth, Finish, AskStop, authorityVars, pendingVars, threadVars, portVars, CloseInv,
     Drained, TypeOK, Agents
<1>14. ASSUME NEW t \in Threads, Reset(t) PROVE CloseInv'
  BY <1>14, NamesAssumption DEF Reset, Enter, AskStop, authorityVars, pendingVars, threadVars,
     portVars, CloseInv, Drained, TypeOK, Agents
<1>15. ASSUME NEW t \in Threads, Close(t) PROVE CloseInv'
  BY <1>15, NamesAssumption DEF Close, Enter, CancelActive, ClearBoth, Finish, authorityVars,
     pendingVars, threadVars, portVars, CloseInv, Drained, TypeOK, Agents
<1>16. CASE DeadmanExpires
  BY <1>16, NamesAssumption DEF DeadmanExpires, DropDeadman, CancelActiveManual, Manual,
     ClearManual, Finish, AskStop, authorityVars, pendingVars, threadVars, portVars, CloseInv,
     Drained, TypeOK, Agents
<1>17. ASSUME NEW t \in Agents, DetachTask(t) PROVE CloseInv'
  BY <1>17, NamesAssumption DEF DetachTask, Return, authorityVars, pendingVars, threadVars,
     portVars, CloseInv, Drained, TypeOK, Agents
<1>18. ASSUME NEW t \in Agents, JoinEnds(t) PROVE CloseInv'
  BY <1>18, NamesAssumption DEF JoinEnds, Return, authorityVars, pendingVars, threadVars,
     portVars, CloseInv, Drained, TypeOK, Agents
<1>19. ASSUME NEW t \in Agents, EmergencyStopReturns(t) PROVE CloseInv'
  BY <1>19, NamesAssumption DEF EmergencyStopReturns, Return, StopEnded, authorityVars,
     pendingVars, threadVars, portVars, CloseInv, Drained, TypeOK, Agents
<1>20. ASSUME NEW t \in Agents, HoldSucceeds(t) PROVE CloseInv'
  BY <1>20, NamesAssumption DEF HoldSucceeds, ReleasedAuthority, Return, authorityVars,
     pendingVars, threadVars, portVars, CloseInv, Drained, TypeOK, Agents
<1>21. ASSUME NEW t \in Agents, HoldFails(t) PROVE CloseInv'
  BY <1>21, NamesAssumption DEF HoldFails, Latch, CancelActive, ClearBoth, Finish, Return,
     authorityVars, pendingVars, threadVars, portVars, CloseInv, Drained, TypeOK, Agents
<1>22. ASSUME NEW t \in Agents, ResetReturns(t) PROVE CloseInv'
  BY <1>22, NamesAssumption DEF ResetReturns, ResetAccepted, StopEnded, Return, authorityVars,
     pendingVars, threadVars, portVars, CloseInv, Drained, TypeOK, Agents
<1>23. ASSUME NEW t \in Agents, CloseHolds(t) PROVE CloseInv'
  BY <1>23, NamesAssumption DEF CloseHolds, AskStop, authorityVars, pendingVars, threadVars,
     portVars, CloseInv, Drained, TypeOK, Agents
<1>24. ASSUME NEW t \in Agents, ClosePort(t) PROVE CloseInv'
  BY <1>24, NamesAssumption DEF ClosePort, StopEnded, authorityVars, pendingVars, threadVars,
     portVars, CloseInv, Drained, TypeOK, Agents
<1>25. ASSUME NEW t \in Agents, CloseReturns(t) PROVE CloseInv'
  BY <1>25, NamesAssumption DEF CloseReturns, ReportClean, Return, authorityVars, pendingVars,
     threadVars, portVars, CloseInv, Drained, TypeOK, Agents
<1>26. ASSUME NEW x \in Tickets, Dispatch(x) PROVE CloseInv'
  <2>1. TakenFrom(x)
    BY <1>26, Taken DEF Dispatch
  <2> QED
    BY <1>26, <2>1, NamesAssumption DEF Dispatch, TakenFrom, Take, authorityVars, pendingVars,
     threadVars, portVars, CloseInv, Drained, TypeOK, Agents
<1>27. ASSUME NEW x \in Tickets, DispatchNot(x) PROVE CloseInv'
  <2>1. TakenFrom(x)
    BY <1>27, Taken DEF DispatchNot
  <2> QED
    BY <1>27, <2>1, NamesAssumption DEF DispatchNot, TakenFrom, Take, authorityVars, pendingVars,
     threadVars, portVars, CloseInv, Drained, TypeOK, Agents
<1>28. CASE SettleReturned
  BY <1>28, NamesAssumption DEF SettleReturned, Settle, authorityVars, pendingVars, threadVars,
     portVars, CloseInv, Drained, TypeOK, Agents
<1>29. CASE SettleCancelled
  BY <1>29, NamesAssumption DEF SettleCancelled, Settle, authorityVars, pendingVars, threadVars,
     portVars, CloseInv, Drained, TypeOK, Agents
<1>30. CASE WorkerStops
  BY <1>30, NamesAssumption DEF WorkerStops, EmergencyLatch, Latch, CancelActive, ClearBoth,
     Finish, AskStop, authorityVars, pendingVars, threadVars, portVars, CloseInv, Drained,
     TypeOK, Agents
<1>31. CASE SettleFailed
  BY <1>31, NamesAssumption DEF SettleFailed, Settle, Return, StopEnded, authorityVars,
     pendingVars, threadVars, portVars, CloseInv, Drained, TypeOK, Agents
<1>32. CASE Execute
  BY <1>32, NamesAssumption DEF Execute, WorkerMoves, authorityVars, pendingVars, threadVars,
     portVars, CloseInv, Drained, TypeOK, Agents
<1>33. CASE Withdraw
  BY <1>33, NamesAssumption DEF Withdraw, Settle, authorityVars, pendingVars, threadVars,
     portVars, CloseInv, Drained, TypeOK, Agents
<1>34. CASE DriverReturns
  BY <1>34, NamesAssumption DEF DriverReturns, WorkerMoves, authorityVars, pendingVars,
     threadVars, portVars, CloseInv, Drained, TypeOK, Agents
<1>35. ASSUME NEW t \in Agents, StopAdmitted(t) PROVE CloseInv'
  BY <1>35, NamesAssumption DEF StopAdmitted, SetStop, authorityVars, pendingVars, threadVars,
     portVars, CloseInv, Drained, TypeOK, Agents
<1>36. ASSUME NEW t \in Agents, StopBegins(t) PROVE CloseInv'
  BY <1>36, NamesAssumption DEF StopBegins, SetStop, authorityVars, pendingVars, threadVars,
     portVars, CloseInv, Drained, TypeOK, Agents
<1>37. ASSUME NEW t \in Agents, StopReturns(t) PROVE CloseInv'
  BY <1>37, NamesAssumption DEF StopReturns, SetStop, authorityVars, pendingVars, threadVars,
     portVars, CloseInv, Drained, TypeOK, Agents
<1>38. ASSUME NEW t \in Agents, StopFails(t) PROVE CloseInv'
  BY <1>38, NamesAssumption DEF StopFails, SetStop, authorityVars, pendingVars, threadVars,
     portVars, CloseInv, Drained, TypeOK, Agents
<1> QED
  BY <1>2, <1>3, <1>4, <1>5, <1>6, <1>7, <1>8, <1>9, <1>10, <1>11, <1>12, <1>13, <1>14, <1>15,
     <1>16, <1>17, <1>18, <1>19, <1>20, <1>21, <1>22, <1>23, <1>24, <1>25, <1>26, <1>27, <1>28,
     <1>29, <1>30, <1>31, <1>32, <1>33, <1>34, <1>35, <1>36, <1>37, <1>38
     DEF Next, Request,
     Continue, WorkerStep, PortStop, PortCommand

\* If resets do not overlap, every step keeps commands and authority together.
LEMMA AuthorityStep ==
    ASSUME BaseInv, AuthorityInv, ~OverlappingResets, Next
    PROVE  AuthorityInv'
<1>1. ASSUME UNCHANGED <<authority, deadman, closed, active, cancelled, modelQueue,
             manualPending, owner, job, manualLock, fresh>>
      PROVE  AuthorityInv'
  BY <1>1 DEF AuthorityInv, ActiveRespectsAuthority, PendingMatchesAuthority, ReleaseInv,
     ResetInv, Automatic
<1>2. ASSUME NEW k \in Tasks, SetToken(k) PROVE AuthorityInv'
  BY <1>2, <1>1 DEF SetToken, authorityVars, pendingVars, threadVars
<1>3. CASE CommandFails \/ Execute \/ Refuse \/ Abandon \/ DriverReturns
  BY <1>3, <1>1 DEF CommandFails, Execute, Refuse, Abandon, DriverReturns, WorkerMoves,
     authorityVars, pendingVars, threadVars
<1>4. ASSUME NEW t \in Agents, StopAdmitted(t) \/ StopBegins(t) \/ StopReturns(t) \/ StopFails(t)
      PROVE  AuthorityInv'
  BY <1>4, <1>1 DEF StopAdmitted, StopBegins, StopReturns, StopFails, SetStop, authorityVars,
     pendingVars, threadVars
<1>5. ASSUME NEW k \in Tasks, BeginTask(k) PROVE AuthorityInv'
  BY <1>5, NamesAssumption DEF BeginTask, CancelActiveAutomatic, Automatic, ClearModelQueue,
     Finish, authorityVars, pendingVars, threadVars, AuthorityInv, ActiveRespectsAuthority,
     PendingMatchesAuthority, ReleaseInv, ResetInv, Manual, BaseInv, TypeOK, PlaceInv, Agents
<1>6. ASSUME NEW x \in Tickets, NEW k \in Tasks, SubmitAutomatic(x, k) PROVE AuthorityInv'
  BY <1>6, AppendTicket, NamesAssumption, ElementsAreTickets DEF SubmitAutomatic, MaySubmit,
     QueueHasRoom, authorityVars, pendingVars, threadVars, AuthorityInv, ActiveRespectsAuthority,
     PendingMatchesAuthority, ReleaseInv, ResetInv, Automatic, Manual, BaseInv, TypeOK, PlaceInv,
     Agents
<1>7. CASE PressDeadman
  BY <1>7, NamesAssumption DEF PressDeadman, authorityVars, pendingVars, threadVars,
     AuthorityInv, ActiveRespectsAuthority, PendingMatchesAuthority, ReleaseInv, ResetInv,
     Automatic, Manual, BaseInv, TypeOK, PlaceInv, Agents
<1>8. ASSUME NEW x \in Tickets, SubmitManual(x) PROVE AuthorityInv'
  BY <1>8, NamesAssumption DEF SubmitManual, Finish, authorityVars, pendingVars, threadVars,
     AuthorityInv, ActiveRespectsAuthority, PendingMatchesAuthority, ReleaseInv, ResetInv,
     Automatic, Manual, BaseInv, TypeOK, PlaceInv, Agents
<1>9. ASSUME NEW t \in Threads, NEW k \in Tasks, CancelTask(t, k) PROVE AuthorityInv'
  BY <1>9, NamesAssumption DEF CancelTask, Enter, ClearModelQueue, Finish, AskStop,
     authorityVars, pendingVars, threadVars, AuthorityInv, ActiveRespectsAuthority,
     PendingMatchesAuthority, ReleaseInv, ResetInv, Automatic, Manual, BaseInv, TypeOK, PlaceInv,
     Agents
<1>10. ASSUME NEW t \in Threads, NEW k \in Tasks, FinishTask(t, k) PROVE AuthorityInv'
  BY <1>10, NamesAssumption DEF FinishTask, Enter, CancelActiveAutomatic, Automatic,
     ClearModelQueue, Finish, AskStop, authorityVars, pendingVars, threadVars, AuthorityInv,
     ActiveRespectsAuthority, PendingMatchesAuthority, ReleaseInv, ResetInv, Manual, BaseInv,
     TypeOK, PlaceInv, Agents
<1>11. ASSUME NEW t \in Threads, AcquireManual(t) PROVE AuthorityInv'
  BY <1>11, NamesAssumption DEF AcquireManual, EnterManual, Enter, CancelActive, ClearBoth,
     Finish, AskStop, authorityVars, pendingVars, threadVars, AuthorityInv,
     ActiveRespectsAuthority, PendingMatchesAuthority, ReleaseInv, ResetInv, Automatic, Manual,
     BaseInv, TypeOK, PlaceInv, Agents
<1>12. ASSUME NEW t \in Threads, ReleaseManual(t) PROVE AuthorityInv'
  BY <1>12, NamesAssumption DEF ReleaseManual, EnterManual, Enter, CancelActiveManual, Manual,
     ClearManual, Finish, AskStop, authorityVars, pendingVars, threadVars, AuthorityInv,
     ActiveRespectsAuthority, PendingMatchesAuthority, ReleaseInv, ResetInv, Automatic, BaseInv,
     TypeOK, PlaceInv, Agents
<1>13. ASSUME NEW t \in Threads, ReleaseDeadman(t) PROVE AuthorityInv'
  BY <1>13, NamesAssumption DEF ReleaseDeadman, EnterManual, Enter, DropDeadman,
     CancelActiveManual, Manual, ClearManual, Finish, AskStop, authorityVars, pendingVars,
     threadVars, AuthorityInv, ActiveRespectsAuthority, PendingMatchesAuthority, ReleaseInv,
     ResetInv, Automatic, BaseInv, TypeOK, PlaceInv, Agents
<1>14. ASSUME NEW t \in Threads, Hold(t) PROVE AuthorityInv'
  BY <1>14, NamesAssumption DEF Hold, Enter, CancelActive, ClearBoth, Finish, AskStop,
     authorityVars, pendingVars, threadVars, AuthorityInv, ActiveRespectsAuthority,
     PendingMatchesAuthority, ReleaseInv, ResetInv, Automatic, Manual, BaseInv, TypeOK, PlaceInv,
     Agents
<1>15. ASSUME NEW t \in Threads, EmergencyStop(t) PROVE AuthorityInv'
  BY <1>15, NamesAssumption DEF EmergencyStop, Enter, EmergencyLatch, Latch, CancelActive,
     ClearBoth, Finish, AskStop, authorityVars, pendingVars, threadVars, AuthorityInv,
     ActiveRespectsAuthority, PendingMatchesAuthority, ReleaseInv, ResetInv, Automatic, Manual,
     BaseInv, TypeOK, PlaceInv, Agents
<1>16. ASSUME NEW t \in Threads, Reset(t) PROVE AuthorityInv'
  BY <1>16, NamesAssumption DEF Reset, Enter, AskStop, authorityVars, pendingVars, threadVars,
     AuthorityInv, ActiveRespectsAuthority, PendingMatchesAuthority, ReleaseInv, ResetInv,
     Automatic, Manual, BaseInv, TypeOK, PlaceInv, Agents
<1>17. ASSUME NEW t \in Threads, Close(t) PROVE AuthorityInv'
  BY <1>17, NamesAssumption DEF Close, Enter, CancelActive, ClearBoth, Finish, authorityVars,
     pendingVars, threadVars, AuthorityInv, ActiveRespectsAuthority, PendingMatchesAuthority,
     ReleaseInv, ResetInv, Automatic, Manual, BaseInv, TypeOK, PlaceInv, Agents
<1>18. CASE DeadmanExpires
  BY <1>18, NamesAssumption DEF DeadmanExpires, DropDeadman, CancelActiveManual, Manual,
     ClearManual, Finish, AskStop, authorityVars, pendingVars, threadVars, AuthorityInv,
     ActiveRespectsAuthority, PendingMatchesAuthority, ReleaseInv, ResetInv, Automatic, BaseInv,
     TypeOK, PlaceInv, Agents
<1>19. ASSUME NEW t \in Agents, DetachTask(t) PROVE AuthorityInv'
  BY <1>19, NamesAssumption DEF DetachTask, Return, authorityVars, pendingVars, threadVars,
     AuthorityInv, ActiveRespectsAuthority, PendingMatchesAuthority, ReleaseInv, ResetInv,
     Automatic, Manual, BaseInv, TypeOK, PlaceInv, Agents
<1>20. ASSUME NEW t \in Agents, JoinEnds(t) PROVE AuthorityInv'
  BY <1>20, NamesAssumption DEF JoinEnds, Return, authorityVars, pendingVars, threadVars,
     AuthorityInv, ActiveRespectsAuthority, PendingMatchesAuthority, ReleaseInv, ResetInv,
     Automatic, Manual, BaseInv, TypeOK, PlaceInv, Agents
<1>21. ASSUME NEW t \in Agents, EmergencyStopReturns(t) PROVE AuthorityInv'
  BY <1>21, NamesAssumption DEF EmergencyStopReturns, Return, StopEnded, authorityVars,
     pendingVars, threadVars, AuthorityInv, ActiveRespectsAuthority, PendingMatchesAuthority,
     ReleaseInv, ResetInv, Automatic, Manual, BaseInv, TypeOK, PlaceInv, Agents
<1>22. ASSUME NEW t \in Agents, HoldSucceeds(t) PROVE AuthorityInv'
  BY <1>22, NamesAssumption DEF HoldSucceeds, ReleasedAuthority, Return, authorityVars,
     pendingVars, threadVars, AuthorityInv, ActiveRespectsAuthority, PendingMatchesAuthority,
     ReleaseInv, ResetInv, Automatic, Manual, BaseInv, TypeOK, PlaceInv, Agents
<1>23. ASSUME NEW t \in Agents, HoldFails(t) PROVE AuthorityInv'
  BY <1>23, NamesAssumption DEF HoldFails, Latch, CancelActive, ClearBoth, Finish, Return,
     authorityVars, pendingVars, threadVars, AuthorityInv, ActiveRespectsAuthority,
     PendingMatchesAuthority, ReleaseInv, ResetInv, Automatic, Manual, BaseInv, TypeOK, PlaceInv,
     Agents
<1>24. ASSUME NEW t \in Agents, ResetReturns(t) PROVE AuthorityInv'
  BY <1>24, NamesAssumption DEF ResetReturns, ResetAccepted, StopEnded, Return, authorityVars,
     pendingVars, threadVars, AuthorityInv, ActiveRespectsAuthority, PendingMatchesAuthority,
     ReleaseInv, ResetInv, Automatic, Manual, BaseInv, TypeOK, PlaceInv, Agents
<1>25. ASSUME NEW t \in Agents, CloseHolds(t) PROVE AuthorityInv'
  BY <1>25, NamesAssumption DEF CloseHolds, AskStop, authorityVars, pendingVars, threadVars,
     AuthorityInv, ActiveRespectsAuthority, PendingMatchesAuthority, ReleaseInv, ResetInv,
     Automatic, Manual, BaseInv, TypeOK, PlaceInv, Agents
<1>26. ASSUME NEW t \in Agents, ClosePort(t) PROVE AuthorityInv'
  BY <1>26, NamesAssumption DEF ClosePort, StopEnded, authorityVars, pendingVars, threadVars,
     AuthorityInv, ActiveRespectsAuthority, PendingMatchesAuthority, ReleaseInv, ResetInv,
     Automatic, Manual, BaseInv, TypeOK, PlaceInv, Agents
<1>27. ASSUME NEW t \in Agents, CloseReturns(t) PROVE AuthorityInv'
  BY <1>27, NamesAssumption DEF CloseReturns, ReportClean, Return, authorityVars, pendingVars,
     threadVars, AuthorityInv, ActiveRespectsAuthority, PendingMatchesAuthority, ReleaseInv,
     ResetInv, Automatic, Manual, BaseInv, TypeOK, PlaceInv, Agents
<1>28. ASSUME NEW x \in Tickets, Dispatch(x) PROVE AuthorityInv'
  <2>1. TakenFrom(x)
    BY <1>28, Taken DEF Dispatch, BaseInv
  <2> QED
    BY <1>28, <2>1, NamesAssumption, ElementsAreTickets DEF Dispatch, TakenFrom, Take,
     authorityVars, pendingVars, threadVars, AuthorityInv, ActiveRespectsAuthority,
     PendingMatchesAuthority, ReleaseInv, ResetInv, Automatic, Manual, BaseInv, TypeOK, PlaceInv,
     Agents
<1>29. ASSUME NEW x \in Tickets, DispatchNot(x) PROVE AuthorityInv'
  <2>1. TakenFrom(x)
    BY <1>29, Taken DEF DispatchNot, BaseInv
  <2> QED
    BY <1>29, <2>1, NamesAssumption, ElementsAreTickets DEF DispatchNot, TakenFrom, Take,
     authorityVars, pendingVars, threadVars, AuthorityInv, ActiveRespectsAuthority,
     PendingMatchesAuthority, ReleaseInv, ResetInv, Automatic, Manual, BaseInv, TypeOK, PlaceInv,
     Agents
<1>30. CASE SettleReturned
  BY <1>30, NamesAssumption DEF SettleReturned, Settle, authorityVars, pendingVars, threadVars,
     AuthorityInv, ActiveRespectsAuthority, PendingMatchesAuthority, ReleaseInv, ResetInv,
     Automatic, Manual, BaseInv, TypeOK, PlaceInv, Agents
<1>31. CASE SettleCancelled
  BY <1>31, NamesAssumption DEF SettleCancelled, Settle, authorityVars, pendingVars, threadVars,
     AuthorityInv, ActiveRespectsAuthority, PendingMatchesAuthority, ReleaseInv, ResetInv,
     Automatic, Manual, BaseInv, TypeOK, PlaceInv, Agents
<1>32. CASE WorkerStops
  BY <1>32, NamesAssumption DEF WorkerStops, EmergencyLatch, Latch, CancelActive, ClearBoth,
     Finish, AskStop, authorityVars, pendingVars, threadVars, AuthorityInv,
     ActiveRespectsAuthority, PendingMatchesAuthority, ReleaseInv, ResetInv, Automatic, Manual,
     BaseInv, TypeOK, PlaceInv, Agents
<1>33. CASE SettleFailed
  BY <1>33, NamesAssumption DEF SettleFailed, Settle, Return, StopEnded, authorityVars,
     pendingVars, threadVars, AuthorityInv, ActiveRespectsAuthority, PendingMatchesAuthority,
     ReleaseInv, ResetInv, Automatic, Manual, BaseInv, TypeOK, PlaceInv, Agents
<1>34. CASE Withdraw
  BY <1>34, NamesAssumption DEF Withdraw, Settle, authorityVars, pendingVars, threadVars,
     AuthorityInv, ActiveRespectsAuthority, PendingMatchesAuthority, ReleaseInv, ResetInv,
     Automatic, Manual, BaseInv, TypeOK, PlaceInv, Agents
<1> QED
  BY <1>2, <1>3, <1>4, <1>5, <1>6, <1>7, <1>8, <1>9, <1>10, <1>11, <1>12, <1>13, <1>14, <1>15,
     <1>16, <1>17, <1>18, <1>19, <1>20, <1>21, <1>22, <1>23, <1>24, <1>25, <1>26, <1>27, <1>28,
     <1>29, <1>30, <1>31, <1>32, <1>33, <1>34
     DEF Next, Request, Continue, WorkerStep,
     PortStop, PortCommand

\* A cancelled command does not get to the driver.
LEMMA CancelDriver ==
    ASSUME BaseInv, NEW x \in Tickets, x \in cancelled, Next
    PROVE  driver # x => driver' # x
<1> USE DEF BaseInv
<1>1. ASSUME UNCHANGED <<driver>> PROVE driver # x => driver' # x
  BY <1>1 DEF TypeOK
<1>2. ASSUME NEW k \in Tasks, BeginTask(k) \/ SetToken(k) PROVE driver # x => driver' # x
  BY <1>2, <1>1 DEF BeginTask, SetToken, CancelActiveAutomatic, Automatic, ClearModelQueue,
     Finish, portVars
<1>3. ASSUME NEW y \in Tickets, NEW k \in Tasks, SubmitAutomatic(y, k)
      PROVE  driver # x => driver' # x
  BY <1>3, <1>1 DEF SubmitAutomatic, MaySubmit, QueueHasRoom, portVars
<1>4. CASE PressDeadman \/ DeadmanExpires \/ SettleReturned \/ SettleCancelled \/ CommandFails \/
     WorkerStops \/ SettleFailed \/ Refuse \/ Withdraw \/ Abandon
  BY <1>4, <1>1 DEF PressDeadman, DeadmanExpires, SettleReturned, SettleCancelled, CommandFails,
     WorkerStops, SettleFailed, Refuse, Withdraw, Abandon, DropDeadman, CancelActiveManual,
     Manual, ClearManual, Finish, AskStop, Settle, EmergencyLatch, Latch, CancelActive,
     ClearBoth, Return, StopEnded, WorkerMoves, portVars
<1>5. ASSUME NEW y \in Tickets, SubmitManual(y) \/ Dispatch(y) \/ DispatchNot(y)
      PROVE  driver # x => driver' # x
  BY <1>5, <1>1 DEF SubmitManual, Dispatch, DispatchNot, Finish, Take, portVars
<1>6. ASSUME NEW t \in Threads, NEW k \in Tasks, CancelTask(t, k) \/ FinishTask(t, k)
      PROVE  driver # x => driver' # x
  BY <1>6, <1>1 DEF CancelTask, FinishTask, Enter, ClearModelQueue, Finish, AskStop,
     CancelActiveAutomatic, Automatic, portVars
<1>7. ASSUME NEW t \in Threads, AcquireManual(t) \/ ReleaseManual(t) \/ ReleaseDeadman(t) \/
             Hold(t) \/ EmergencyStop(t) \/ Reset(t) \/ Close(t)
      PROVE  driver # x => driver' # x
  BY <1>7, <1>1 DEF AcquireManual, ReleaseManual, ReleaseDeadman, Hold, EmergencyStop, Reset,
     Close, EnterManual, Enter, CancelActive, ClearBoth, Finish, AskStop, CancelActiveManual,
     Manual, ClearManual, DropDeadman, EmergencyLatch, Latch, portVars
<1>8. ASSUME NEW t \in Agents, DetachTask(t) \/ JoinEnds(t) \/ EmergencyStopReturns(t) \/
             HoldSucceeds(t) \/ HoldFails(t) \/ ResetReturns(t) \/ CloseHolds(t) \/ ClosePort(t)
             \/ CloseReturns(t) \/ StopAdmitted(t) \/ StopBegins(t) \/ StopReturns(t) \/
             StopFails(t)
      PROVE  driver # x => driver' # x
  BY <1>8, <1>1 DEF DetachTask, JoinEnds, EmergencyStopReturns, HoldSucceeds, HoldFails,
     ResetReturns, CloseHolds, ClosePort, CloseReturns, StopAdmitted, StopBegins, StopReturns,
     StopFails, Return, StopEnded, ReleasedAuthority, Latch, CancelActive, ClearBoth, Finish,
     ResetAccepted, AskStop, ReportClean, SetStop, portVars
<1>9. CASE Execute
  BY <1>9, NamesAssumption DEF Execute, WorkerMoves, portVars, TypeOK
<1>10. CASE DriverReturns
  BY <1>10, NamesAssumption DEF DriverReturns, WorkerMoves, portVars, TypeOK
<1> QED
  BY <1>2, <1>3, <1>4, <1>5, <1>6, <1>7, <1>8, <1>9, <1>10
     DEF Next, Request, Continue,
     WorkerStep, PortStop, PortCommand

\* A cancelled command does not end as executed.
LEMMA CancelStatus ==
    ASSUME BaseInv, NEW x \in Tickets, x \in cancelled, Next
    PROVE  status[x] # "EXECUTED" => status'[x] # "EXECUTED"
<1> USE DEF BaseInv
<1>1. ASSUME UNCHANGED <<status>> PROVE status[x] # "EXECUTED" => status'[x] # "EXECUTED"
  BY <1>1 DEF TypeOK
<1>2. ASSUME NEW k \in Tasks, SetToken(k) PROVE status[x] # "EXECUTED" => status'[x] # "EXECUTED"
  BY <1>2, <1>1 DEF SetToken, pendingVars
<1>3. CASE PressDeadman \/ CommandFails \/ Execute \/ Refuse \/ Abandon \/ DriverReturns
  BY <1>3, <1>1 DEF PressDeadman, CommandFails, Execute, Refuse, Abandon, DriverReturns,
     WorkerMoves, pendingVars
<1>4. ASSUME NEW t \in Threads, Reset(t) PROVE status[x] # "EXECUTED" => status'[x] # "EXECUTED"
  BY <1>4, <1>1 DEF Reset, Enter, AskStop, pendingVars
<1>5. ASSUME NEW t \in Agents, DetachTask(t) \/ JoinEnds(t) \/ EmergencyStopReturns(t) \/
             HoldSucceeds(t) \/ ResetReturns(t) \/ CloseHolds(t) \/ ClosePort(t) \/
             CloseReturns(t) \/ StopAdmitted(t) \/ StopBegins(t) \/ StopReturns(t) \/ StopFails(t)
      PROVE  status[x] # "EXECUTED" => status'[x] # "EXECUTED"
  BY <1>5, <1>1 DEF DetachTask, JoinEnds, EmergencyStopReturns, HoldSucceeds, ResetReturns,
     CloseHolds, ClosePort, CloseReturns, StopAdmitted, StopBegins, StopReturns, StopFails,
     Return, StopEnded, ReleasedAuthority, ResetAccepted, AskStop, ReportClean, SetStop, pendingVars
<1>6. ASSUME NEW k \in Tasks, BeginTask(k) PROVE status[x] # "EXECUTED" => status'[x] # "EXECUTED"
  BY <1>6, NamesAssumption DEF BeginTask, CancelActiveAutomatic, Automatic, ClearModelQueue,
     Finish, pendingVars, TypeOK
<1>7. ASSUME NEW y \in Tickets, NEW k \in Tasks, SubmitAutomatic(y, k)
      PROVE  status[x] # "EXECUTED" => status'[x] # "EXECUTED"
  BY <1>7, NamesAssumption DEF SubmitAutomatic, MaySubmit, QueueHasRoom, pendingVars, TypeOK
<1>8. ASSUME NEW y \in Tickets, SubmitManual(y)
      PROVE  status[x] # "EXECUTED" => status'[x] # "EXECUTED"
  BY <1>8, NamesAssumption DEF SubmitManual, Finish, pendingVars, TypeOK
<1>9. ASSUME NEW t \in Threads, NEW k \in Tasks, CancelTask(t, k)
      PROVE  status[x] # "EXECUTED" => status'[x] # "EXECUTED"
  BY <1>9, NamesAssumption DEF CancelTask, Enter, ClearModelQueue, Finish, AskStop, pendingVars,
     TypeOK
<1>10. ASSUME NEW t \in Threads, NEW k \in Tasks, FinishTask(t, k)
      PROVE  status[x] # "EXECUTED" => status'[x] # "EXECUTED"
  BY <1>10, NamesAssumption DEF FinishTask, Enter, CancelActiveAutomatic, Automatic,
     ClearModelQueue, Finish, AskStop, pendingVars, TypeOK
<1>11. ASSUME NEW t \in Threads, AcquireManual(t)
      PROVE  status[x] # "EXECUTED" => status'[x] # "EXECUTED"
  BY <1>11, NamesAssumption DEF AcquireManual, EnterManual, Enter, CancelActive, ClearBoth,
     Finish, AskStop, pendingVars, TypeOK
<1>12. ASSUME NEW t \in Threads, ReleaseManual(t)
      PROVE  status[x] # "EXECUTED" => status'[x] # "EXECUTED"
  BY <1>12, NamesAssumption DEF ReleaseManual, EnterManual, Enter, CancelActiveManual, Manual,
     ClearManual, Finish, AskStop, pendingVars, TypeOK
<1>13. ASSUME NEW t \in Threads, ReleaseDeadman(t)
      PROVE  status[x] # "EXECUTED" => status'[x] # "EXECUTED"
  BY <1>13, NamesAssumption DEF ReleaseDeadman, EnterManual, Enter, DropDeadman,
     CancelActiveManual, Manual, ClearManual, Finish, AskStop, pendingVars, TypeOK
<1>14. ASSUME NEW t \in Threads, Hold(t) PROVE status[x] # "EXECUTED" => status'[x] # "EXECUTED"
  BY <1>14, NamesAssumption DEF Hold, Enter, CancelActive, ClearBoth, Finish, AskStop,
     pendingVars, TypeOK
<1>15. ASSUME NEW t \in Threads, EmergencyStop(t)
      PROVE  status[x] # "EXECUTED" => status'[x] # "EXECUTED"
  BY <1>15, NamesAssumption DEF EmergencyStop, Enter, EmergencyLatch, Latch, CancelActive,
     ClearBoth, Finish, AskStop, pendingVars, TypeOK
<1>16. ASSUME NEW t \in Threads, Close(t) PROVE status[x] # "EXECUTED" => status'[x] # "EXECUTED"
  BY <1>16, NamesAssumption DEF Close, Enter, CancelActive, ClearBoth, Finish, pendingVars, TypeOK
<1>17. CASE DeadmanExpires
  BY <1>17, NamesAssumption DEF DeadmanExpires, DropDeadman, CancelActiveManual, Manual,
     ClearManual, Finish, AskStop, pendingVars, TypeOK
<1>18. ASSUME NEW t \in Agents, HoldFails(t) PROVE status[x] # "EXECUTED" => status'[x] # "EXECUTED"
  BY <1>18, NamesAssumption DEF HoldFails, Latch, CancelActive, ClearBoth, Finish, Return,
     pendingVars, TypeOK
<1>19. ASSUME NEW y \in Tickets, Dispatch(y) PROVE status[x] # "EXECUTED" => status'[x] # "EXECUTED"
  BY <1>19, NamesAssumption DEF Dispatch, Take, pendingVars, TypeOK
<1>20. ASSUME NEW y \in Tickets, DispatchNot(y)
      PROVE  status[x] # "EXECUTED" => status'[x] # "EXECUTED"
  BY <1>20, NamesAssumption DEF DispatchNot, Take, pendingVars, TypeOK
<1>21. CASE SettleReturned
  BY <1>21, NamesAssumption DEF SettleReturned, Settle, pendingVars, TypeOK
<1>22. CASE SettleCancelled
  BY <1>22, NamesAssumption DEF SettleCancelled, Settle, pendingVars, TypeOK
<1>23. CASE WorkerStops
  BY <1>23, NamesAssumption DEF WorkerStops, EmergencyLatch, Latch, CancelActive, ClearBoth,
     Finish, AskStop, pendingVars, TypeOK
<1>24. CASE SettleFailed
  BY <1>24, NamesAssumption DEF SettleFailed, Settle, Return, StopEnded, pendingVars, TypeOK
<1>25. CASE Withdraw
  BY <1>25, NamesAssumption DEF Withdraw, Settle, pendingVars, TypeOK
<1> QED
  BY <1>2, <1>3, <1>4, <1>5, <1>6, <1>7, <1>8, <1>9, <1>10, <1>11, <1>12, <1>13, <1>14, <1>15,
     <1>16, <1>17, <1>18, <1>19, <1>20, <1>21, <1>22, <1>23, <1>24, <1>25
     DEF Next, Request,
     Continue, WorkerStep, PortStop, PortCommand

-----------------------------------------------------------------------------

\* The part of the inductive invariant that does not depend on how resets are called.
LEMMA BaseInvariance == Spec => []BaseInv
<1>1. Init => BaseInv
  <2> SUFFICES ASSUME Init PROVE BaseInv
    OBVIOUS
  <2>1. Elements(<<>>) = {}
    BY DEF Elements
  <2>2. <<>> \in Seq(Tickets) /\ Len(<<>>) = 0
    OBVIOUS
  <2>3. FlagsTyped /\ WorkerTyped
    BY NamesAssumption DEF Init, FlagsTyped, WorkerTyped, Authorities, WorkerStates
  <2>4. TicketsTyped
    BY <2>2, BoundsAssumption DEF Init, TicketsTyped, Statuses
  <2>5. ThreadsTyped
    BY NamesAssumption DEF Init, ThreadsTyped, Jobs, Stops, Agents
  <2>6. TypeOK
    BY <2>3, <2>4, <2>5 DEF TypeOK, FlagsTyped, WorkerTyped, TicketsTyped, ThreadsTyped
  <2> QED
    BY <2>1, <2>6, NamesAssumption
       DEF Init, BaseInv, PlaceInv, TaskInv, OvertakenTaskSilent, LatchInv, LatchHolds, CloseInv, Agents
<1>2. BaseInv /\ [Next]_vars => BaseInv'
  <2> SUFFICES ASSUME BaseInv, [Next]_vars PROVE BaseInv'
    OBVIOUS
  <2>1. CASE Next
    BY <2>1, TypeStep, PlaceStep, TaskStep, LatchStep, CloseStep DEF BaseInv
  <2>2. CASE UNCHANGED vars
    BY <2>2 DEF vars, authorityVars, taskVars, pendingVars, threadVars, portVars, historyVars,
       BaseInv, TypeOK, PlaceInv, TaskInv, OvertakenTaskSilent, LatchInv, LatchHolds, CloseInv, Drained
  <2> QED
    BY <2>1, <2>2
<1> QED
  BY <1>1, <1>2, PTL DEF Spec

\* Every variable of the arbiter keeps its type, the FIFO its capacity.
THEOREM TypeCorrect == Spec => []TypeOK
<1>1. BaseInv => TypeOK
  BY DEF BaseInv
<1> QED
  BY <1>1, BaseInvariance, PTL

\* No task is resumed after a takeover or a latch, however late its threads submit.
THEOREM OvertakenTasksStaySilent == Spec => []OvertakenTaskSilent
<1>1. BaseInv => OvertakenTaskSilent
  BY DEF BaseInv, TaskInv
<1> QED
  BY <1>1, BaseInvariance, PTL

\* Only a reset that began after the last latch ends the emergency stop.
THEOREM LatchStaysSet == Spec => []LatchHolds
<1>1. BaseInv => LatchHolds
  BY DEF BaseInv, LatchInv
<1> QED
  BY <1>1, BaseInvariance, PTL

\* A close() without error is final.
THEOREM CleanCloseStaysFinal == Spec => []CleanCloseIsFinal
<1>1. BaseInv => CleanCloseIsFinal
  <2> SUFFICES ASSUME BaseInv, closeReport = "clean" PROVE CleanCloseIsFinal
    BY DEF CleanCloseIsFinal
  <2>1. closed /\ Drained /\ Elements(modelQueue) = {} /\ manualPending = NoTicket
    BY DEF BaseInv, CloseInv, Elements
  <2> QED
    BY <2>1, NamesAssumption DEF BaseInv, CloseInv, PlaceInv, TypeOK, CleanCloseIsFinal
<1> QED
  BY <1>1, BaseInvariance, PTL

\* What an operator relies on: a latched stop stays, and a clean close is over.
THEOREM StopsStayFinal == Spec => []StopsAreFinal
BY LatchStaysSet, CleanCloseStaysFinal, PTL DEF StopsAreFinal

\* A command cancelled before the driver got it never starts.
THEOREM CancelledStaysOut == Spec => CancelledNeverStarts
<1>1. BaseInv /\ [Next]_vars =>
        [\A x \in Tickets :
          /\ x \in cancelled /\ driver # x => driver' # x
          /\ x \in cancelled /\ status[x] # "EXECUTED" => status'[x] # "EXECUTED"]_vars
  <2> SUFFICES ASSUME BaseInv, Next, NEW x \in Tickets, x \in cancelled
               PROVE  /\ driver # x => driver' # x
                      /\ status[x] # "EXECUTED" => status'[x] # "EXECUTED"
    OBVIOUS
  <2>1. driver # x => driver' # x
    BY CancelDriver
  <2>2. status[x] # "EXECUTED" => status'[x] # "EXECUTED"
    BY CancelStatus
  <2> QED
    BY <2>1, <2>2
<1> QED
  BY <1>1, BaseInvariance, PTL DEF Spec, CancelledNeverStarts

-----------------------------------------------------------------------------

\* With resets that do not overlap, the whole inductive invariant.
LEMMA AuthorityInvariance ==
    ASSUME ~OverlappingResets PROVE Spec => []AuthorityInv
<1>1. Init => AuthorityInv
  BY NamesAssumption DEF Init, AuthorityInv, ActiveRespectsAuthority, PendingMatchesAuthority,
     ReleaseInv, ResetInv
<1>2. BaseInv /\ AuthorityInv /\ [Next]_vars => AuthorityInv'
  <2> SUFFICES ASSUME BaseInv, AuthorityInv, [Next]_vars PROVE AuthorityInv'
    OBVIOUS
  <2>1. CASE Next
    BY <2>1, AuthorityStep
  <2>2. CASE UNCHANGED vars
    BY <2>2 DEF vars, authorityVars, taskVars, pendingVars, threadVars, AuthorityInv,
       ActiveRespectsAuthority, PendingMatchesAuthority, ReleaseInv, ResetInv, Automatic
  <2> QED
    BY <2>1, <2>2
<1> QED
  BY <1>1, <1>2, BaseInvariance, PTL DEF Spec

\* If resets do not overlap, every command that is under way or waits belongs to the
\* side that has the authority, with the deadman held for a manual one.
THEOREM CommandsKeepToAuthority ==
    ASSUME ~OverlappingResets PROVE Spec => []AuthorityRespected
<1>1. AuthorityInv => AuthorityRespected
  BY DEF AuthorityInv, AuthorityRespected
<1> QED
  BY <1>1, AuthorityInvariance, PTL

=============================================================================
