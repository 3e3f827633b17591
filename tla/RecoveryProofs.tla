--------------------------- MODULE RecoveryProofs ---------------------------
(***************************************************************************)
(* Proofs about what outlives a process: JobRegistry, for any sets of jobs *)
(* and processes, and below it Deployment, for any pids, agents, commands  *)
(* and bounds.                                                             *)
(*                                                                         *)
(* JobRegistry.                                                            *)
(* IInv is inductive.  OwnerInv: two processes never both own the database *)
(* file, threads live only in an owner, and a close() that is joining has  *)
(* taken every thread that is alive.  RunInv: the worker that executes in  *)
(* the open registry has an unfinished row, and a row that was never       *)
(* dispatched has never been executed.  The rest are the properties        *)
(* themselves.                                                             *)
(*                                                                         *)
(* Deployment.                                                             *)
(* DeploymentInv is inductive.  ProcessInv: processes that exist differ in *)
(* their births, and only a service has its birth in the identity file.    *)
(* AgentInv: a child keeps its pid while its agent is at work, and what an *)
(* agent is about to signal was a service when it looked.  FilesInv: how   *)
(* the two files stand to the services at each stage of an agent that is   *)
(* alone at work.  RecordInv: whether some command, or the record, or a    *)
(* history tells of each service that runs, if commands never met.         *)
(***************************************************************************)
EXTENDS JobRegistry, Deployment, TLAPS

OwnerInv ==
    /\ \A p, q \in Processes :
          p # q => ~(phase[p] \in {"open", "closed"} /\ phase[q] \in {"open", "closed"})
    /\ \A p \in Processes : \A k \in Keys :
          /\ worker[p][k] # "none" => phase[p] \in {"open", "closed"}
          /\ canceller[p][k] \in {"registered", "running"} => phase[p] \in {"open", "closed"}
    /\ \A p \in Processes : joining[p].busy =>
          /\ phase[p] = "closed"
          /\ \A k \in Keys :
                /\ worker[p][k] # "none" => <<"worker", k>> \in joining[p].threads
                /\ canceller[p][k] \in {"registered", "running"}
                      => <<"callback", k>> \in joining[p].threads

RunInv ==
    /\ \A p \in Processes : \A k \in Keys :
          (worker[p][k] = "executing" /\ phase[p] = "open")
             => row[k].status \in {"running", "cancel_requested"}
    /\ \A k \in Keys :
          /\ executed[k] <= 1
          /\ row[k].status \in {"absent", "accepted"} => executed[k] = 0

IInv == TypeOK /\ OwnerInv /\ RunInv /\ CancelDiscardsResult /\ StopNotOverclaimed
        /\ StopDoubtPersists

\* What close() and the recovery make of a row.
LEMMA MarkedRow ==
    ASSUME NEW r \in Rows
    PROVE  /\ MarkUnknown(r) \in Rows
           /\ MarkUnknown(r).cancelRequested = r.cancelRequested
           /\ r.status \in Unfinished => /\ MarkUnknown(r).status = "unknown"
                                         /\ MarkUnknown(r).physical = PhysicalOfUnknown(r)
           /\ r.status \notin Unfinished => MarkUnknown(r) = r
<1>1. PhysicalOfUnknown(r) \in {"stop_unconfirmed", "unknown"}
  BY DEF PhysicalOfUnknown
<1>2. CASE r.status \in Unfinished
  BY <1>1, <1>2 DEF MarkUnknown, Rows, Statuses, Terminal, Physicals
<1>3. CASE r.status \notin Unfinished
  BY <1>3 DEF MarkUnknown
<1> QED
  BY <1>2, <1>3

\* What a worker records when execute() ended in time.
LEMMA EndedRow ==
    ASSUME TypeOK, NEW p \in Processes, NEW k \in Keys, WorkerEnds(p, k)
    PROVE  \E r \in Rows :
             /\ Settle(p, k, r)
             /\ r.cancelRequested = row[k].cancelRequested
             /\ r.status \in {"completed", "failed", "cancelled"}
             /\ r.cancelRequested => r.status = "cancelled"
             /\ r.status = "cancelled" =>
                   r.physical = row[k].physical \/ r.physical = "stop_unconfirmed"
             /\ r.physical = "stopped" => row[k].physical = "stopped"
<1> DEFINE c == [row[k] EXCEPT !.status = "cancelled", !.physical = PhysicalOfCancelled(row[k])]
           f == [row[k] EXCEPT !.status = "failed", !.physical = "unknown"]
           d(x) == [row[k] EXCEPT !.status = "completed", !.physical = x]
<1>1. row[k] \in Rows
  BY DEF TypeOK
<1>2. CASE WasCancelled(p, k)
  <2>1. Settle(p, k, c)
    BY <1>2 DEF WorkerEnds
  <2>2. PhysicalOfCancelled(row[k]) \in Physicals
    BY <1>1 DEF PhysicalOfCancelled, Rows, Physicals
  <2>3. c \in Rows
    BY <1>1, <2>2 DEF Rows, Statuses, Terminal
  <2> QED
    BY <1>1, <2>1, <2>3 DEF Rows, PhysicalOfCancelled
<1>3. CASE ~WasCancelled(p, k)
  <2>1. ~row[k].cancelRequested
    BY <1>3 DEF WasCancelled
  <2>2. CASE Settle(p, k, f)
    <3>1. f \in Rows
      BY <1>1 DEF Rows, Statuses, Terminal, Physicals
    <3> QED
      BY <1>1, <2>1, <2>2, <3>1 DEF Rows
  <2>3. ASSUME NEW x \in CompletedPhysicals, Settle(p, k, d(x))
        PROVE  \E r \in Rows :
                 /\ Settle(p, k, r)
                 /\ r.cancelRequested = row[k].cancelRequested
                 /\ r.status = "completed"
                 /\ r.physical # "stopped"
    <3>1. d(x) \in Rows
      BY <1>1, <2>3 DEF Rows, Statuses, Terminal, Physicals, CompletedPhysicals
    <3> QED
      BY <1>1, <2>3, <3>1 DEF Rows, CompletedPhysicals
  <2> HIDE DEF c, f, d
  <2>4. Settle(p, k, f) \/ \E x \in CompletedPhysicals : Settle(p, k, d(x))
    BY <1>3 DEF WorkerEnds, f, d
  <2> QED
    BY <2>1, <2>2, <2>3, <2>4
<1> QED
  BY <1>2, <1>3

\* Changing fields of one runtime entry keeps the type.
LEMMA RuntimeFields ==
    ASSUME NEW f \in [Processes -> [Keys -> Runtimes]], NEW p \in Processes, NEW k \in Keys
    PROVE  /\ [f EXCEPT ![p][k].held = FALSE] \in [Processes -> [Keys -> Runtimes]]
           /\ [f EXCEPT ![p][k].cancelEvent = TRUE, ![p][k].cancelInvoked = TRUE]
                 \in [Processes -> [Keys -> Runtimes]]
<1>0. f[p][k] \in Runtimes
  OBVIOUS
<1>1. [f[p][k] EXCEPT !.held = FALSE] \in Runtimes
  BY <1>0 DEF Runtimes
<1>2. [f[p][k] EXCEPT !.cancelEvent = TRUE, !.cancelInvoked = TRUE] \in Runtimes
  BY <1>0 DEF Runtimes
<1> QED
  BY <1>1, <1>2

\* Every action keeps the types.
LEMMA TypeStep ==
    ASSUME IInv, Next
    PROVE  TypeOK'
<1> USE DEF IInv
<1>1. ASSUME UNCHANGED <<row, phase, worker, runtime, canceller, joining, waiter,
             executed, stopped, confirmed>>
      PROVE  TypeOK'
  BY <1>1 DEF TypeOK, Rows, Runtimes, Statuses, Terminal, Unfinished, Physicals, Phases,
     WorkerStates, CancellerStates, WaiterStates, NoRow, NoRuntime, NotJoining,
     CompletedPhysicals, CancelAnswers, JobThreads
<1>2. ASSUME NEW p \in Processes, Open(p) PROVE TypeOK'
  <2>1. [k \in Keys |-> MarkUnknown(row[k])] \in [Keys -> Rows]
    BY MarkedRow DEF TypeOK
  <2>2. NoRuntime \in Runtimes
    BY DEF NoRuntime, Runtimes
  <2>3. TypeOK'
    BY <1>2, <2>1, <2>2 DEF Open, NewThreads, historyVars, TypeOK, Phases, WorkerStates,
     CancellerStates,
       WaiterStates, NotJoining
  <2> QED
    BY <2>3
<1>3. ASSUME NEW p \in Processes, Die(p) PROVE TypeOK'
  BY <1>3 DEF Die, NewThreads, threadVars, historyVars, TypeOK, Rows, Runtimes, Statuses,
     Terminal, Unfinished, Physicals, Phases, WorkerStates, CancellerStates,
     WaiterStates, NoRow, NoRuntime, NotJoining, CompletedPhysicals, CancelAnswers,
     JobThreads
<1>4. ASSUME NEW p \in Processes, CloseBegins(p) PROVE TypeOK'
  <2>1. ToJoin(p) \in SUBSET JobThreads
    BY DEF ToJoin, LiveThreads
  <2>2. [k \in Keys |-> MarkUnknown(row[k])] \in [Keys -> Rows]
    BY MarkedRow DEF TypeOK
  <2>3. runtime' \in [Processes -> [Keys -> Runtimes]]
    <3>1. \A j \in Keys : runtime[p][j] \in Runtimes
      BY DEF TypeOK
    <3>2. \A j \in Keys : [runtime[p][j] EXCEPT
                            !.cancelEvent = @ \/ runtime[p][j].held] \in Runtimes
      BY <3>1 DEF Runtimes
    <3> QED
      BY <1>4, <3>2 DEF CloseBegins, TypeOK
  <2> QED
    BY <1>4, <2>1, <2>2, <2>3 DEF CloseBegins, NotifyAll, historyVars, TypeOK, Phases,
     WaiterStates
<1>5. ASSUME NEW p \in Processes, CloseRetried(p) PROVE TypeOK'
  <2>1. ToJoin(p) \in SUBSET JobThreads
    BY DEF ToJoin, LiveThreads
  <2> QED
    BY <1>5, <2>1 DEF CloseRetried, historyVars, TypeOK
<1>6. ASSUME NEW p \in Processes, CloseGivesUp(p) PROVE TypeOK'
  BY <1>6 DEF CloseGivesUp, threadVars, historyVars, TypeOK, Rows, Runtimes, Statuses,
     Terminal, Unfinished, Physicals, Phases, WorkerStates, CancellerStates,
     WaiterStates, NoRow, NoRuntime, NotJoining, CompletedPhysicals, CancelAnswers,
     JobThreads
<1>7. ASSUME NEW p \in Processes, CloseReleases(p) PROVE TypeOK'
  BY <1>7 DEF CloseReleases, threadVars, historyVars, TypeOK, Rows, Runtimes, Statuses,
     Terminal, Unfinished, Physicals, Phases, WorkerStates, CancellerStates,
     WaiterStates, NoRow, NoRuntime, NotJoining, CompletedPhysicals, CancelAnswers,
     JobThreads
<1>8. ASSUME NEW p \in Processes, NEW k \in Keys, Submit(p, k) PROVE TypeOK'
  BY <1>8 DEF Submit, NotifyAll, IsNew, threadVars, historyVars, TypeOK, Rows, Runtimes,
     Statuses, Terminal, Unfinished, Physicals, Phases, WorkerStates, CancellerStates,
     WaiterStates, NoRow, NoRuntime, NotJoining, CompletedPhysicals, CancelAnswers,
     JobThreads
<1>9. ASSUME NEW p \in Processes, NEW k \in Keys, Resubmit(p, k) PROVE TypeOK'
  BY <1>9 DEF Resubmit, NotifyAll, threadVars, historyVars, TypeOK, Rows, Runtimes,
     Statuses, Terminal, Unfinished, Physicals, Phases, WorkerStates, CancellerStates,
     WaiterStates, NoRow, NoRuntime, NotJoining, CompletedPhysicals, CancelAnswers,
     JobThreads
<1>10. ASSUME NEW p \in Processes, NEW k \in Keys, WorkerStarts(p, k) PROVE TypeOK'
  <2>1. row' \in [Keys -> Rows]
    BY <1>10 DEF WorkerStarts, TypeOK, Rows, Statuses, Unfinished
  <2> QED
    BY <1>10, <2>1 DEF WorkerStarts, NotifyAll, TypeOK, WorkerStates, WaiterStates
<1>11. ASSUME NEW p \in Processes, NEW k \in Keys, WorkerSkips(p, k) PROVE TypeOK'
  <2>1. runtime' \in [Processes -> [Keys -> Runtimes]]
    BY <1>11, RuntimeFields DEF WorkerSkips, Settle, TypeOK
  <2>2. row' \in [Keys -> Rows]
    <3> DEFINE r == [row[k] EXCEPT !.status = "cancelled",
                 !.physical = IF k \in Stoppable THEN "stop_requested" ELSE
     "stop_unconfirmed"]
    <3>1. row[k] \in Rows
      BY DEF TypeOK
    <3>2. r \in Rows
      BY <3>1 DEF Rows, Statuses, Terminal, Physicals
    <3> QED
      BY <1>11, <3>2 DEF WorkerSkips, Settle, TypeOK
  <2> QED
    BY <1>11, <2>1, <2>2 DEF WorkerSkips, Settle, NotifyAll, historyVars, TypeOK,
     WorkerStates, WaiterStates
<1>12. ASSUME NEW p \in Processes, NEW k \in Keys, WorkerReturns(p, k) PROVE TypeOK'
  BY <1>12 DEF WorkerReturns, threadVars, historyVars, TypeOK, Rows, Runtimes, Statuses,
     Terminal, Unfinished, Physicals, Phases, WorkerStates, CancellerStates,
     WaiterStates, NoRow, NoRuntime, NotJoining, CompletedPhysicals, CancelAnswers,
     JobThreads
<1>13. ASSUME NEW p \in Processes, NEW k \in Keys, WorkerEnds(p, k) PROVE TypeOK'
  <2>1. PICK r \in Rows : Settle(p, k, r)
    BY <1>13, EndedRow
  <2>2. row' \in [Keys -> Rows] /\ runtime' \in [Processes -> [Keys -> Runtimes]]
    BY <2>1, RuntimeFields DEF Settle, TypeOK
  <2> QED
    <3>1. worker' = [worker EXCEPT ![p][k] = "none"] /\ UNCHANGED <<phase, canceller,
     joining, historyVars>>
      BY <1>13 DEF WorkerEnds
    <3> QED
      BY <2>1, <2>2, <3>1 DEF Settle, NotifyAll, historyVars, TypeOK, WorkerStates,
     WaiterStates
<1>14. ASSUME NEW p \in Processes, NEW k \in Keys, WorkerEndsLate(p, k) PROVE TypeOK'
  <2>1. row' \in [Keys -> Rows] /\ runtime' \in [Processes -> [Keys -> Runtimes]]
    BY <1>14, RuntimeFields DEF WorkerEndsLate, Settle, TypeOK
  <2> QED
    BY <1>14, <2>1 DEF WorkerEndsLate, Settle, NotifyAll, historyVars, TypeOK,
     WorkerStates, WaiterStates
<1>15. ASSUME NEW p \in Processes, NEW k \in Keys, WorkerLost(p, k) PROVE TypeOK'
  BY <1>15 DEF WorkerLost, threadVars, historyVars, TypeOK, Rows, Runtimes, Statuses,
     Terminal, Unfinished, Physicals, Phases, WorkerStates, CancellerStates,
     WaiterStates, NoRow, NoRuntime, NotJoining, CompletedPhysicals, CancelAnswers,
     JobThreads
<1>16. ASSUME NEW p \in Processes, NEW k \in Keys, Cancel(p, k) PROVE TypeOK'
  <2>1. runtime' \in [Processes -> [Keys -> Runtimes]]
    BY <1>16, RuntimeFields DEF Cancel, TypeOK
  <2>2. row' \in [Keys -> Rows]
    BY <1>16 DEF Cancel, TypeOK, Rows, Statuses, Unfinished, Physicals
  <2> QED
    BY <1>16, <2>1, <2>2 DEF Cancel, NotifyAll, historyVars, TypeOK, CancellerStates,
     WaiterStates
<1>17. ASSUME NEW p \in Processes, NEW k \in Keys, CancelFails(p, k) PROVE TypeOK'
  <2>1. runtime' \in [Processes -> [Keys -> Runtimes]]
    BY <1>17, RuntimeFields DEF CancelFails, TypeOK
  <2> QED
    BY <1>17, <2>1 DEF CancelFails, historyVars, TypeOK
<1>18. ASSUME NEW p \in Processes, NEW k \in Keys, RegisterCallback(p, k) PROVE TypeOK'
  BY <1>18 DEF RegisterCallback, MayRegister, threadVars, historyVars, TypeOK, Rows,
     Runtimes, Statuses, Terminal, Unfinished, Physicals, Phases, WorkerStates,
     CancellerStates, WaiterStates, NoRow, NoRuntime, NotJoining, CompletedPhysicals,
     CancelAnswers, JobThreads
<1>19. ASSUME NEW p \in Processes, NEW k \in Keys, StartCallback(p, k) PROVE TypeOK'
  BY <1>19 DEF StartCallback, threadVars, historyVars, TypeOK, Rows, Runtimes, Statuses,
     Terminal, Unfinished, Physicals, Phases, WorkerStates, CancellerStates,
     WaiterStates, NoRow, NoRuntime, NotJoining, CompletedPhysicals, CancelAnswers,
     JobThreads
<1>20. ASSUME NEW p \in Processes, NEW k \in Keys, CallbackEnds(p, k) PROVE TypeOK'
  BY <1>20 DEF CallbackEnds, NotifyAll, threadVars, historyVars, TypeOK, Rows, Runtimes,
     Statuses, Terminal, Unfinished, Physicals, Phases, WorkerStates, CancellerStates,
     WaiterStates, NoRow, NoRuntime, NotJoining, CompletedPhysicals, CancelAnswers,
     JobThreads
<1>21. ASSUME NEW p \in Processes, NEW k \in Keys, Wait(p, k) PROVE TypeOK'
  BY <1>21 DEF Wait, threadVars, historyVars, TypeOK, Rows, Runtimes, Statuses, Terminal,
     Unfinished, Physicals, Phases, WorkerStates, CancellerStates, WaiterStates, NoRow,
     NoRuntime, NotJoining, CompletedPhysicals, CancelAnswers, JobThreads
<1>22. ASSUME NEW p \in Processes, NEW k \in Keys, WaitChecks(p, k) PROVE TypeOK'
  BY <1>22 DEF WaitChecks, threadVars, historyVars, TypeOK, Rows, Runtimes, Statuses,
     Terminal, Unfinished, Physicals, Phases, WorkerStates, CancellerStates,
     WaiterStates, NoRow, NoRuntime, NotJoining, CompletedPhysicals, CancelAnswers,
     JobThreads
<1>23. ASSUME NEW p \in Processes, NEW k \in Keys, WaitTimesOut(p, k) PROVE TypeOK'
  BY <1>23 DEF WaitTimesOut, threadVars, historyVars, TypeOK, Rows, Runtimes, Statuses,
     Terminal, Unfinished, Physicals, Phases, WorkerStates, CancellerStates,
     WaiterStates, NoRow, NoRuntime, NotJoining, CompletedPhysicals, CancelAnswers,
     JobThreads
<1> QED
  BY <1>2, <1>3, <1>4, <1>5, <1>6, <1>7, <1>8, <1>9, <1>10, <1>11, <1>12, <1>13, <1>14,
     <1>15, <1>16, <1>17, <1>18, <1>19, <1>20, <1>21, <1>22, <1>23 DEF Next, ProcessNext,
     JobNext, WorkerNext, CallbackNext

\* The flock has one owner, which has all the live threads.
LEMMA OwnerStep ==
    ASSUME IInv, Next
    PROVE  OwnerInv'
<1> USE DEF IInv
<1>1. ASSUME UNCHANGED <<phase, worker, canceller, joining>> PROVE OwnerInv'
  BY <1>1 DEF OwnerInv, TypeOK, NotJoining
<1>2. ASSUME NEW p \in Processes, NEW k \in Keys, Resubmit(p, k) \/ CancelFails(p, k) \/
             Wait(p, k) \/ WaitChecks(p, k) \/ WaitTimesOut(p, k)
      PROVE  OwnerInv'
  BY <1>2, <1>1 DEF Resubmit, CancelFails, Wait, WaitChecks, WaitTimesOut, NotifyAll,
     Cancellable, threadVars
<1>3. ASSUME NEW p \in Processes, Open(p) PROVE OwnerInv'
  <2>1. \A q \in Processes \ {p} : /\ phase'[q] = phase[q] /\ joining'[q] = joining[q]
                                   /\ worker'[q] = worker[q] /\ canceller'[q] = canceller[q]
    BY <1>3 DEF Open, NewThreads, TypeOK
  <2>2. phase'[p] = "open" /\ ~joining'[p].busy
    BY <1>3 DEF Open, NewThreads, TypeOK, NotJoining
  <2>3. \A q \in Processes : phase[q] \notin {"open", "closed"}
    BY <1>3 DEF Open
  <2>4. \A j \in Keys : worker'[p][j] = "none" /\ canceller'[p][j] = "none"
    BY <1>3 DEF Open, NewThreads, TypeOK
  <2> QED
    BY <2>1, <2>2, <2>3, <2>4 DEF OwnerInv
<1>4. ASSUME NEW p \in Processes, Die(p) PROVE OwnerInv'
  BY <1>4 DEF Die, NewThreads, threadVars, OwnerInv, TypeOK, NotJoining
<1>5. ASSUME NEW p \in Processes, CloseBegins(p) PROVE OwnerInv'
  <2>1. \A j \in Keys :
           /\ worker[p][j] # "none" <=> <<"worker", j>> \in LiveThreads(p)
           /\ canceller[p][j] \in {"registered", "running"}
                 <=> <<"callback", j>> \in LiveThreads(p)
    BY DEF LiveThreads, JobThreads
  <2>2. LiveThreads(p) \in SUBSET JobThreads
    BY DEF LiveThreads
  <2> QED
    BY <1>5, <2>1, <2>2 DEF CloseBegins, historyVars, OwnerInv, TypeOK, ToJoin, NotJoining
<1>6. ASSUME NEW p \in Processes, CloseRetried(p) PROVE OwnerInv'
  <2>1. \A j \in Keys :
           /\ worker[p][j] # "none" <=> <<"worker", j>> \in LiveThreads(p)
           /\ canceller[p][j] \in {"registered", "running"}
                 <=> <<"callback", j>> \in LiveThreads(p)
    BY DEF LiveThreads, JobThreads
  <2>2. LiveThreads(p) \in SUBSET JobThreads
    BY DEF LiveThreads
  <2> QED
    BY <1>6, <2>1, <2>2 DEF CloseRetried, historyVars, OwnerInv, TypeOK, ToJoin, NotJoining
<1>7. ASSUME NEW p \in Processes, CloseGivesUp(p) PROVE OwnerInv'
  BY <1>7 DEF CloseGivesUp, threadVars, OwnerInv, TypeOK, NotJoining
<1>8. ASSUME NEW p \in Processes, CloseReleases(p) PROVE OwnerInv'
  <2>1. \A j \in Keys :
           /\ worker[p][j] # "none" <=> <<"worker", j>> \in LiveThreads(p)
           /\ canceller[p][j] \in {"registered", "running"}
                 <=> <<"callback", j>> \in LiveThreads(p)
    BY DEF LiveThreads, JobThreads
  <2>2. LiveThreads(p) \in SUBSET JobThreads
    BY DEF LiveThreads
  <2>3. \A j \in Keys : worker[p][j] = "none" /\ canceller[p][j] \notin {"registered",
     "running"}
    BY <1>8, <2>1 DEF CloseReleases, OwnerInv
  <2>4. \A q \in Processes \ {p} : phase'[q] = phase[q] /\ joining'[q] = joining[q]
    BY <1>8 DEF CloseReleases, TypeOK
  <2>5. phase'[p] = "released" /\ ~joining'[p].busy /\ UNCHANGED <<worker, canceller>>
    BY <1>8 DEF CloseReleases, TypeOK, NotJoining
  <2> QED
    BY <2>3, <2>4, <2>5 DEF OwnerInv, TypeOK
<1>9. ASSUME NEW p \in Processes, NEW k \in Keys, Submit(p, k) PROVE OwnerInv'
  BY <1>9 DEF Submit, NotifyAll, IsNew, threadVars, OwnerInv, TypeOK, NotJoining
<1>10. ASSUME NEW p \in Processes, NEW k \in Keys, WorkerStarts(p, k) PROVE OwnerInv'
  BY <1>10 DEF WorkerStarts, NotifyAll, threadVars, OwnerInv, TypeOK, NotJoining
<1>11. ASSUME NEW p \in Processes, NEW k \in Keys, WorkerSkips(p, k) PROVE OwnerInv'
  BY <1>11 DEF WorkerSkips, Settle, NotifyAll, threadVars, OwnerInv, TypeOK, NotJoining
<1>12. ASSUME NEW p \in Processes, NEW k \in Keys, WorkerReturns(p, k) PROVE OwnerInv'
  BY <1>12 DEF WorkerReturns, threadVars, OwnerInv, TypeOK, NotJoining
<1>13. ASSUME NEW p \in Processes, NEW k \in Keys, WorkerEnds(p, k) PROVE OwnerInv'
  BY <1>13 DEF WorkerEnds, Settle, NotifyAll, WasCancelled, PhysicalOfCancelled, Late,
     threadVars, OwnerInv, TypeOK, NotJoining
<1>14. ASSUME NEW p \in Processes, NEW k \in Keys, WorkerEndsLate(p, k) PROVE OwnerInv'
  BY <1>14 DEF WorkerEndsLate, Settle, NotifyAll, Late, threadVars, OwnerInv, TypeOK,
     NotJoining
<1>15. ASSUME NEW p \in Processes, NEW k \in Keys, WorkerLost(p, k) PROVE OwnerInv'
  BY <1>15 DEF WorkerLost, threadVars, OwnerInv, TypeOK, NotJoining
<1>16. ASSUME NEW p \in Processes, NEW k \in Keys, Cancel(p, k) PROVE OwnerInv'
  BY <1>16 DEF Cancel, NotifyAll, Cancellable, CallsBack, threadVars, OwnerInv, TypeOK,
     NotJoining
<1>17. ASSUME NEW p \in Processes, NEW k \in Keys, RegisterCallback(p, k) PROVE OwnerInv'
  BY <1>17 DEF RegisterCallback, MayRegister, threadVars, OwnerInv, TypeOK, NotJoining
<1>18. ASSUME NEW p \in Processes, NEW k \in Keys, StartCallback(p, k) PROVE OwnerInv'
  BY <1>18 DEF StartCallback, threadVars, OwnerInv, TypeOK, NotJoining
<1>19. ASSUME NEW p \in Processes, NEW k \in Keys, CallbackEnds(p, k) PROVE OwnerInv'
  BY <1>19 DEF CallbackEnds, NotifyAll, threadVars, OwnerInv, TypeOK, NotJoining
<1> QED
  BY <1>2, <1>3, <1>4, <1>5, <1>6, <1>7, <1>8, <1>9, <1>10, <1>11, <1>12, <1>13, <1>14,
     <1>15, <1>16, <1>17, <1>18, <1>19 DEF Next, ProcessNext, JobNext, WorkerNext,
     CallbackNext

\* A job is executed at most once, and unfinished while it is.
LEMMA RunStep ==
    ASSUME IInv, Next
    PROVE  RunInv'
<1> USE DEF IInv
<1>1. ASSUME UNCHANGED <<row, phase, worker, executed>> PROVE RunInv'
  BY <1>1 DEF RunInv, OwnerInv, TypeOK, Rows, Statuses, Terminal, Unfinished, NoRow
<1>2. ASSUME NEW p \in Processes, CloseRetried(p) \/ CloseGivesUp(p) PROVE RunInv'
  BY <1>2, <1>1 DEF CloseRetried, CloseGivesUp, ToJoin, threadVars, historyVars
<1>3. ASSUME NEW p \in Processes, NEW k \in Keys, Resubmit(p, k) \/ CancelFails(p, k) \/
             RegisterCallback(p, k) \/ StartCallback(p, k) \/ Wait(p, k) \/ WaitChecks(p,
             k) \/ WaitTimesOut(p, k)
      PROVE  RunInv'
  BY <1>3, <1>1 DEF Resubmit, CancelFails, RegisterCallback, StartCallback, Wait,
     WaitChecks, WaitTimesOut, NotifyAll, Cancellable, MayRegister, threadVars, historyVars
<1>4. ASSUME NEW p \in Processes, Open(p) PROVE RunInv'
  <2>1. \A j \in Keys : row[j] \in Rows
    BY DEF TypeOK
  <2>2. \A j \in Keys : row'[j] = MarkUnknown(row[j])
    BY <1>4 DEF Open
  <2>3. /\ phase'[p] = "open" /\ UNCHANGED historyVars
        /\ \A j \in Keys : worker'[p][j] = "none" /\ runtime'[p][j] = NoRuntime
                            /\ canceller'[p][j] = "none"
        /\ \A q \in Processes : q # p => phase'[q] # "open" /\ canceller'[q] = canceller[q]
    BY <1>4 DEF Open, NewThreads, TypeOK
  <2>4. \A j \in Keys :
           /\ row'[j].cancelRequested = row[j].cancelRequested
           /\ row[j].status \in Unfinished =>
                 row'[j].status = "unknown" /\ row'[j].physical = PhysicalOfUnknown(row[j])
           /\ row[j].status \notin Unfinished => row'[j] = row[j]
    BY <2>1, <2>2, MarkedRow
  <2> QED
    BY <2>1, <2>3, <2>4 DEF historyVars, RunInv, OwnerInv, TypeOK, Unfinished
<1>5. ASSUME NEW p \in Processes, Die(p) PROVE RunInv'
  BY <1>5 DEF Die, NewThreads, threadVars, historyVars, RunInv, OwnerInv, TypeOK, Rows,
     Statuses, Terminal, Unfinished, NoRow
<1>6. ASSUME NEW p \in Processes, CloseBegins(p) PROVE RunInv'
  <2>1. \A j \in Keys : row[j] \in Rows
    BY DEF TypeOK
  <2>2. \A j \in Keys : row'[j] = MarkUnknown(row[j])
    BY <1>6 DEF CloseBegins
  <2>3. UNCHANGED <<worker, canceller, historyVars>> /\ \A q \in Processes : phase'[q] #
     "open"
    BY <1>6 DEF CloseBegins, OwnerInv, TypeOK
  <2>4. \A j \in Keys :
           /\ row'[j].cancelRequested = row[j].cancelRequested
           /\ row[j].status \in Unfinished =>
                 row'[j].status = "unknown" /\ row'[j].physical = PhysicalOfUnknown(row[j])
           /\ row[j].status \notin Unfinished => row'[j] = row[j]
    BY <2>1, <2>2, MarkedRow
  <2> QED
    BY <2>1, <2>3, <2>4 DEF historyVars, RunInv, OwnerInv, TypeOK, Unfinished
<1>7. ASSUME NEW p \in Processes, CloseReleases(p) PROVE RunInv'
  BY <1>7 DEF CloseReleases, threadVars, historyVars, RunInv, OwnerInv, TypeOK, Rows,
     Statuses, Terminal, Unfinished, NoRow
<1>8. ASSUME NEW p \in Processes, NEW k \in Keys, Submit(p, k) PROVE RunInv'
  BY <1>8 DEF Submit, NotifyAll, IsNew, threadVars, historyVars, RunInv, OwnerInv,
     TypeOK, Rows, Statuses, Terminal, Unfinished, NoRow
<1>9. ASSUME NEW p \in Processes, NEW k \in Keys, WorkerStarts(p, k) PROVE RunInv'
  BY <1>9 DEF WorkerStarts, NotifyAll, threadVars, historyVars, RunInv, OwnerInv, TypeOK,
     Rows, Statuses, Terminal, Unfinished, NoRow
<1>10. ASSUME NEW p \in Processes, NEW k \in Keys, WorkerSkips(p, k) PROVE RunInv'
  BY <1>10 DEF WorkerSkips, Settle, NotifyAll, threadVars, historyVars, RunInv, OwnerInv,
     TypeOK, Rows, Statuses, Terminal, Unfinished, NoRow
<1>11. ASSUME NEW p \in Processes, NEW k \in Keys, WorkerReturns(p, k) PROVE RunInv'
  BY <1>11 DEF WorkerReturns, threadVars, historyVars, RunInv, OwnerInv, TypeOK, Rows,
     Statuses, Terminal, Unfinished, NoRow
<1>12. ASSUME NEW p \in Processes, NEW k \in Keys, WorkerEnds(p, k) PROVE RunInv'
  <2>1. PICK r \in Rows :
           /\ Settle(p, k, r)
           /\ r.cancelRequested = row[k].cancelRequested
           /\ r.status \in {"completed", "failed", "cancelled"}
           /\ r.cancelRequested => r.status = "cancelled"
           /\ r.status = "cancelled" =>
                 r.physical = row[k].physical \/ r.physical = "stop_unconfirmed"
           /\ r.physical = "stopped" => row[k].physical = "stopped"
    BY <1>12, EndedRow
  <2>2. /\ worker[p][k] = "executing" /\ phase[p] = "open"
        /\ worker' = [worker EXCEPT ![p][k] = "none"]
        /\ UNCHANGED <<phase, canceller, joining, executed, stopped, confirmed>>
    BY <1>12 DEF WorkerEnds, Late, historyVars
  <2>3. row' = [row EXCEPT ![k] = r] /\ runtime' = [runtime EXCEPT ![p][k].held = FALSE]
    BY <2>1 DEF Settle
  <2> QED
    BY <2>1, <2>2, <2>3 DEF RunInv, OwnerInv, TypeOK, Unfinished
<1>13. ASSUME NEW p \in Processes, NEW k \in Keys, WorkerEndsLate(p, k) PROVE RunInv'
  BY <1>13 DEF WorkerEndsLate, Settle, NotifyAll, Late, threadVars, historyVars, RunInv,
     OwnerInv, TypeOK, Rows, Statuses, Terminal, Unfinished, NoRow
<1>14. ASSUME NEW p \in Processes, NEW k \in Keys, WorkerLost(p, k) PROVE RunInv'
  BY <1>14 DEF WorkerLost, threadVars, historyVars, RunInv, OwnerInv, TypeOK, Rows,
     Statuses, Terminal, Unfinished, NoRow
<1>15. ASSUME NEW p \in Processes, NEW k \in Keys, Cancel(p, k) PROVE RunInv'
  BY <1>15 DEF Cancel, NotifyAll, Cancellable, CallsBack, threadVars, historyVars,
     RunInv, OwnerInv, TypeOK, Rows, Statuses, Terminal, Unfinished, NoRow
<1>16. ASSUME NEW p \in Processes, NEW k \in Keys, CallbackEnds(p, k) PROVE RunInv'
  BY <1>16 DEF CallbackEnds, NotifyAll, threadVars, historyVars, RunInv, OwnerInv,
     TypeOK, Rows, Statuses, Terminal, Unfinished, NoRow
<1> QED
  BY <1>2, <1>3, <1>4, <1>5, <1>6, <1>7, <1>8, <1>9, <1>10, <1>11, <1>12, <1>13, <1>14,
     <1>15, <1>16 DEF Next, ProcessNext, JobNext, WorkerNext, CallbackNext

\* A result that comes after the cancellation is dropped.
LEMMA CancelStep ==
    ASSUME IInv, Next
    PROVE  CancelDiscardsResult'
<1> USE DEF IInv
<1>1. ASSUME UNCHANGED <<row>> PROVE CancelDiscardsResult'
  BY <1>1 DEF CancelDiscardsResult, TypeOK, Rows, Statuses, Terminal, Unfinished, NoRow
<1>2. ASSUME NEW p \in Processes, Die(p) \/ CloseRetried(p) \/ CloseGivesUp(p) \/
             CloseReleases(p)
      PROVE  CancelDiscardsResult'
  BY <1>2, <1>1 DEF Die, CloseRetried, CloseGivesUp, CloseReleases, NewThreads, ToJoin
<1>3. ASSUME NEW p \in Processes, NEW k \in Keys, Resubmit(p, k) \/ WorkerReturns(p, k)
             \/ WorkerLost(p, k) \/ CancelFails(p, k) \/ RegisterCallback(p, k) \/
             StartCallback(p, k) \/ Wait(p, k) \/ WaitChecks(p, k) \/ WaitTimesOut(p, k)
      PROVE  CancelDiscardsResult'
  BY <1>3, <1>1 DEF Resubmit, WorkerReturns, WorkerLost, CancelFails, RegisterCallback,
     StartCallback, Wait, WaitChecks, WaitTimesOut, NotifyAll, Cancellable, MayRegister
<1>4. ASSUME NEW p \in Processes, Open(p) PROVE CancelDiscardsResult'
  <2>1. \A j \in Keys : row[j] \in Rows
    BY DEF TypeOK
  <2>2. \A j \in Keys : row'[j] = MarkUnknown(row[j])
    BY <1>4 DEF Open
  <2>3. /\ phase'[p] = "open" /\ UNCHANGED historyVars
        /\ \A j \in Keys : worker'[p][j] = "none" /\ runtime'[p][j] = NoRuntime
                            /\ canceller'[p][j] = "none"
        /\ \A q \in Processes : q # p => phase'[q] # "open" /\ canceller'[q] = canceller[q]
    BY <1>4 DEF Open, NewThreads, TypeOK
  <2>4. \A j \in Keys :
           /\ row'[j].cancelRequested = row[j].cancelRequested
           /\ row[j].status \in Unfinished =>
                 row'[j].status = "unknown" /\ row'[j].physical = PhysicalOfUnknown(row[j])
           /\ row[j].status \notin Unfinished => row'[j] = row[j]
    BY <2>1, <2>2, MarkedRow
  <2> QED
    BY <2>1, <2>3, <2>4 DEF historyVars, CancelDiscardsResult, TypeOK, Unfinished
<1>5. ASSUME NEW p \in Processes, CloseBegins(p) PROVE CancelDiscardsResult'
  <2>1. \A j \in Keys : row[j] \in Rows
    BY DEF TypeOK
  <2>2. \A j \in Keys : row'[j] = MarkUnknown(row[j])
    BY <1>5 DEF CloseBegins
  <2>3. UNCHANGED <<worker, canceller, historyVars>> /\ \A q \in Processes : phase'[q] #
     "open"
    BY <1>5 DEF CloseBegins, OwnerInv, TypeOK
  <2>4. \A j \in Keys :
           /\ row'[j].cancelRequested = row[j].cancelRequested
           /\ row[j].status \in Unfinished =>
                 row'[j].status = "unknown" /\ row'[j].physical = PhysicalOfUnknown(row[j])
           /\ row[j].status \notin Unfinished => row'[j] = row[j]
    BY <2>1, <2>2, MarkedRow
  <2> QED
    BY <2>1, <2>3, <2>4 DEF historyVars, CancelDiscardsResult, TypeOK, Unfinished
<1>6. ASSUME NEW p \in Processes, NEW k \in Keys, Submit(p, k) PROVE CancelDiscardsResult'
  BY <1>6 DEF Submit, NotifyAll, IsNew, CancelDiscardsResult, TypeOK, Rows, Statuses,
     Terminal, Unfinished, NoRow
<1>7. ASSUME NEW p \in Processes, NEW k \in Keys, WorkerStarts(p, k)
      PROVE  CancelDiscardsResult'
  BY <1>7 DEF WorkerStarts, NotifyAll, CancelDiscardsResult, TypeOK, Rows, Statuses,
     Terminal, Unfinished, NoRow
<1>8. ASSUME NEW p \in Processes, NEW k \in Keys, WorkerSkips(p, k)
      PROVE  CancelDiscardsResult'
  BY <1>8 DEF WorkerSkips, Settle, NotifyAll, CancelDiscardsResult, TypeOK, Rows,
     Statuses, Terminal, Unfinished, NoRow
<1>9. ASSUME NEW p \in Processes, NEW k \in Keys, WorkerEnds(p, k)
      PROVE  CancelDiscardsResult'
  <2>1. PICK r \in Rows :
           /\ Settle(p, k, r)
           /\ r.cancelRequested = row[k].cancelRequested
           /\ r.status \in {"completed", "failed", "cancelled"}
           /\ r.cancelRequested => r.status = "cancelled"
           /\ r.status = "cancelled" =>
                 r.physical = row[k].physical \/ r.physical = "stop_unconfirmed"
           /\ r.physical = "stopped" => row[k].physical = "stopped"
    BY <1>9, EndedRow
  <2>2. /\ worker[p][k] = "executing" /\ phase[p] = "open"
        /\ worker' = [worker EXCEPT ![p][k] = "none"]
        /\ UNCHANGED <<phase, canceller, joining, executed, stopped, confirmed>>
    BY <1>9 DEF WorkerEnds, Late, historyVars
  <2>3. row' = [row EXCEPT ![k] = r] /\ runtime' = [runtime EXCEPT ![p][k].held = FALSE]
    BY <2>1 DEF Settle
  <2> QED
    BY <2>1, <2>2, <2>3 DEF CancelDiscardsResult, TypeOK, Unfinished
<1>10. ASSUME NEW p \in Processes, NEW k \in Keys, WorkerEndsLate(p, k)
      PROVE  CancelDiscardsResult'
  BY <1>10 DEF WorkerEndsLate, Settle, NotifyAll, Late, CancelDiscardsResult, TypeOK,
     Rows, Statuses, Terminal, Unfinished, NoRow
<1>11. ASSUME NEW p \in Processes, NEW k \in Keys, Cancel(p, k) PROVE CancelDiscardsResult'
  BY <1>11 DEF Cancel, NotifyAll, Cancellable, CallsBack, CancelDiscardsResult, TypeOK,
     Rows, Statuses, Terminal, Unfinished, NoRow
<1>12. ASSUME NEW p \in Processes, NEW k \in Keys, CallbackEnds(p, k)
      PROVE  CancelDiscardsResult'
  BY <1>12 DEF CallbackEnds, NotifyAll, CancelDiscardsResult, TypeOK, Rows, Statuses,
     Terminal, Unfinished, NoRow
<1> QED
  BY <1>2, <1>3, <1>4, <1>5, <1>6, <1>7, <1>8, <1>9, <1>10, <1>11, <1>12 DEF Next,
     ProcessNext, JobNext, WorkerNext, CallbackNext

\* Only the cancel callback confirms a stop.
LEMMA ClaimStep ==
    ASSUME IInv, Next
    PROVE  StopNotOverclaimed'
<1> USE DEF IInv
<1>1. ASSUME UNCHANGED <<row, confirmed>> PROVE StopNotOverclaimed'
  BY <1>1 DEF StopNotOverclaimed, TypeOK, Rows, NoRow, CompletedPhysicals
<1>2. ASSUME NEW p \in Processes, Die(p) \/ CloseRetried(p) \/ CloseGivesUp(p) \/
             CloseReleases(p)
      PROVE  StopNotOverclaimed'
  BY <1>2, <1>1 DEF Die, CloseRetried, CloseGivesUp, CloseReleases, NewThreads, ToJoin,
     historyVars
<1>3. ASSUME NEW p \in Processes, NEW k \in Keys, Resubmit(p, k) \/ WorkerReturns(p, k)
             \/ WorkerLost(p, k) \/ CancelFails(p, k) \/ RegisterCallback(p, k) \/
             StartCallback(p, k) \/ Wait(p, k) \/ WaitChecks(p, k) \/ WaitTimesOut(p, k)
      PROVE  StopNotOverclaimed'
  BY <1>3, <1>1 DEF Resubmit, WorkerReturns, WorkerLost, CancelFails, RegisterCallback,
     StartCallback, Wait, WaitChecks, WaitTimesOut, NotifyAll, Cancellable, MayRegister,
     historyVars
<1>4. ASSUME NEW p \in Processes, Open(p) PROVE StopNotOverclaimed'
  <2>1. \A j \in Keys : row[j] \in Rows
    BY DEF TypeOK
  <2>2. \A j \in Keys : row'[j] = MarkUnknown(row[j])
    BY <1>4 DEF Open
  <2>3. /\ phase'[p] = "open" /\ UNCHANGED historyVars
        /\ \A j \in Keys : worker'[p][j] = "none" /\ runtime'[p][j] = NoRuntime
                            /\ canceller'[p][j] = "none"
        /\ \A q \in Processes : q # p => phase'[q] # "open" /\ canceller'[q] = canceller[q]
    BY <1>4 DEF Open, NewThreads, TypeOK
  <2>4. \A j \in Keys :
           /\ row'[j].cancelRequested = row[j].cancelRequested
           /\ row[j].status \in Unfinished =>
                 row'[j].status = "unknown" /\ row'[j].physical = PhysicalOfUnknown(row[j])
           /\ row[j].status \notin Unfinished => row'[j] = row[j]
    BY <2>1, <2>2, MarkedRow
  <2> QED
    BY <2>1, <2>3, <2>4 DEF historyVars, StopNotOverclaimed, TypeOK, Unfinished,
     PhysicalOfUnknown
<1>5. ASSUME NEW p \in Processes, CloseBegins(p) PROVE StopNotOverclaimed'
  <2>1. \A j \in Keys : row[j] \in Rows
    BY DEF TypeOK
  <2>2. \A j \in Keys : row'[j] = MarkUnknown(row[j])
    BY <1>5 DEF CloseBegins
  <2>3. UNCHANGED <<worker, canceller, historyVars>> /\ \A q \in Processes : phase'[q] #
     "open"
    BY <1>5 DEF CloseBegins, OwnerInv, TypeOK
  <2>4. \A j \in Keys :
           /\ row'[j].cancelRequested = row[j].cancelRequested
           /\ row[j].status \in Unfinished =>
                 row'[j].status = "unknown" /\ row'[j].physical = PhysicalOfUnknown(row[j])
           /\ row[j].status \notin Unfinished => row'[j] = row[j]
    BY <2>1, <2>2, MarkedRow
  <2> QED
    BY <2>1, <2>3, <2>4 DEF historyVars, StopNotOverclaimed, TypeOK, Unfinished,
     PhysicalOfUnknown
<1>6. ASSUME NEW p \in Processes, NEW k \in Keys, Submit(p, k) PROVE StopNotOverclaimed'
  BY <1>6 DEF Submit, NotifyAll, IsNew, historyVars, StopNotOverclaimed, TypeOK, Rows,
     NoRow, CompletedPhysicals
<1>7. ASSUME NEW p \in Processes, NEW k \in Keys, WorkerStarts(p, k)
      PROVE  StopNotOverclaimed'
  BY <1>7 DEF WorkerStarts, NotifyAll, historyVars, StopNotOverclaimed, TypeOK, Rows,
     NoRow, CompletedPhysicals
<1>8. ASSUME NEW p \in Processes, NEW k \in Keys, WorkerSkips(p, k)
      PROVE  StopNotOverclaimed'
  BY <1>8 DEF WorkerSkips, Settle, NotifyAll, historyVars, StopNotOverclaimed, TypeOK,
     Rows, NoRow, CompletedPhysicals
<1>9. ASSUME NEW p \in Processes, NEW k \in Keys, WorkerEnds(p, k) PROVE StopNotOverclaimed'
  <2>1. PICK r \in Rows :
           /\ Settle(p, k, r)
           /\ r.cancelRequested = row[k].cancelRequested
           /\ r.status \in {"completed", "failed", "cancelled"}
           /\ r.cancelRequested => r.status = "cancelled"
           /\ r.status = "cancelled" =>
                 r.physical = row[k].physical \/ r.physical = "stop_unconfirmed"
           /\ r.physical = "stopped" => row[k].physical = "stopped"
    BY <1>9, EndedRow
  <2>2. /\ worker[p][k] = "executing" /\ phase[p] = "open"
        /\ worker' = [worker EXCEPT ![p][k] = "none"]
        /\ UNCHANGED <<phase, canceller, joining, executed, stopped, confirmed>>
    BY <1>9 DEF WorkerEnds, Late, historyVars
  <2>3. row' = [row EXCEPT ![k] = r] /\ runtime' = [runtime EXCEPT ![p][k].held = FALSE]
    BY <2>1 DEF Settle
  <2> QED
    BY <2>1, <2>2, <2>3 DEF StopNotOverclaimed, TypeOK, Unfinished, PhysicalOfUnknown
<1>10. ASSUME NEW p \in Processes, NEW k \in Keys, WorkerEndsLate(p, k)
      PROVE  StopNotOverclaimed'
  BY <1>10 DEF WorkerEndsLate, Settle, NotifyAll, Late, historyVars, StopNotOverclaimed,
     TypeOK, Rows, NoRow, CompletedPhysicals
<1>11. ASSUME NEW p \in Processes, NEW k \in Keys, Cancel(p, k) PROVE StopNotOverclaimed'
  BY <1>11 DEF Cancel, NotifyAll, Cancellable, CallsBack, historyVars,
     StopNotOverclaimed, TypeOK, Rows, NoRow, CompletedPhysicals
<1>12. ASSUME NEW p \in Processes, NEW k \in Keys, CallbackEnds(p, k)
      PROVE  StopNotOverclaimed'
  BY <1>12 DEF CallbackEnds, NotifyAll, historyVars, StopNotOverclaimed, TypeOK, Rows,
     NoRow, CompletedPhysicals
<1> QED
  BY <1>2, <1>3, <1>4, <1>5, <1>6, <1>7, <1>8, <1>9, <1>10, <1>11, <1>12 DEF Next,
     ProcessNext, JobNext, WorkerNext, CallbackNext

\* A requested stop stays on record.
LEMMA DoubtStep ==
    ASSUME IInv, Next
    PROVE  StopDoubtPersists'
<1> USE DEF IInv
<1>1. ASSUME UNCHANGED <<row>> PROVE StopDoubtPersists'
  BY <1>1 DEF StopDoubtPersists, CancelDiscardsResult, TypeOK, Rows, Unfinished, NoRow,
     CancelAnswers
<1>2. ASSUME NEW p \in Processes, Die(p) \/ CloseRetried(p) \/ CloseGivesUp(p) \/
             CloseReleases(p)
      PROVE  StopDoubtPersists'
  BY <1>2, <1>1 DEF Die, CloseRetried, CloseGivesUp, CloseReleases, NewThreads, ToJoin
<1>3. ASSUME NEW p \in Processes, NEW k \in Keys, Resubmit(p, k) \/ WorkerReturns(p, k)
             \/ WorkerLost(p, k) \/ CancelFails(p, k) \/ RegisterCallback(p, k) \/
             StartCallback(p, k) \/ Wait(p, k) \/ WaitChecks(p, k) \/ WaitTimesOut(p, k)
      PROVE  StopDoubtPersists'
  BY <1>3, <1>1 DEF Resubmit, WorkerReturns, WorkerLost, CancelFails, RegisterCallback,
     StartCallback, Wait, WaitChecks, WaitTimesOut, NotifyAll, Cancellable, MayRegister
<1>4. ASSUME NEW p \in Processes, Open(p) PROVE StopDoubtPersists'
  <2>1. \A j \in Keys : row[j] \in Rows
    BY DEF TypeOK
  <2>2. \A j \in Keys : row'[j] = MarkUnknown(row[j])
    BY <1>4 DEF Open
  <2>3. /\ phase'[p] = "open" /\ UNCHANGED historyVars
        /\ \A j \in Keys : worker'[p][j] = "none" /\ runtime'[p][j] = NoRuntime
                            /\ canceller'[p][j] = "none"
        /\ \A q \in Processes : q # p => phase'[q] # "open" /\ canceller'[q] = canceller[q]
    BY <1>4 DEF Open, NewThreads, TypeOK
  <2>4. \A j \in Keys :
           /\ row'[j].cancelRequested = row[j].cancelRequested
           /\ row[j].status \in Unfinished =>
                 row'[j].status = "unknown" /\ row'[j].physical = PhysicalOfUnknown(row[j])
           /\ row[j].status \notin Unfinished => row'[j] = row[j]
    BY <2>1, <2>2, MarkedRow
  <2> QED
    BY <2>1, <2>4 DEF StopDoubtPersists, CancelDiscardsResult, TypeOK, Unfinished,
     PhysicalOfUnknown
<1>5. ASSUME NEW p \in Processes, CloseBegins(p) PROVE StopDoubtPersists'
  <2>1. \A j \in Keys : row[j] \in Rows
    BY DEF TypeOK
  <2>2. \A j \in Keys : row'[j] = MarkUnknown(row[j])
    BY <1>5 DEF CloseBegins
  <2>3. UNCHANGED <<worker, canceller, historyVars>> /\ \A q \in Processes : phase'[q] #
     "open"
    BY <1>5 DEF CloseBegins, OwnerInv, TypeOK
  <2>4. \A j \in Keys :
           /\ row'[j].cancelRequested = row[j].cancelRequested
           /\ row[j].status \in Unfinished =>
                 row'[j].status = "unknown" /\ row'[j].physical = PhysicalOfUnknown(row[j])
           /\ row[j].status \notin Unfinished => row'[j] = row[j]
    BY <2>1, <2>2, MarkedRow
  <2> QED
    BY <2>1, <2>3, <2>4 DEF historyVars, StopDoubtPersists, CancelDiscardsResult, TypeOK,
     Unfinished, PhysicalOfUnknown
<1>6. ASSUME NEW p \in Processes, NEW k \in Keys, Submit(p, k) PROVE StopDoubtPersists'
  BY <1>6 DEF Submit, NotifyAll, IsNew, StopDoubtPersists, CancelDiscardsResult, TypeOK,
     Rows, Unfinished, NoRow, CancelAnswers
<1>7. ASSUME NEW p \in Processes, NEW k \in Keys, WorkerStarts(p, k)
      PROVE  StopDoubtPersists'
  BY <1>7 DEF WorkerStarts, NotifyAll, StopDoubtPersists, CancelDiscardsResult, TypeOK,
     Rows, Unfinished, NoRow, CancelAnswers
<1>8. ASSUME NEW p \in Processes, NEW k \in Keys, WorkerSkips(p, k) PROVE StopDoubtPersists'
  BY <1>8 DEF WorkerSkips, Settle, NotifyAll, StopDoubtPersists, CancelDiscardsResult,
     TypeOK, Rows, Unfinished, NoRow, CancelAnswers
<1>9. ASSUME NEW p \in Processes, NEW k \in Keys, WorkerEnds(p, k) PROVE StopDoubtPersists'
  <2>1. PICK r \in Rows :
           /\ Settle(p, k, r)
           /\ r.cancelRequested = row[k].cancelRequested
           /\ r.status \in {"completed", "failed", "cancelled"}
           /\ r.cancelRequested => r.status = "cancelled"
           /\ r.status = "cancelled" =>
                 r.physical = row[k].physical \/ r.physical = "stop_unconfirmed"
           /\ r.physical = "stopped" => row[k].physical = "stopped"
    BY <1>9, EndedRow
  <2>2. /\ worker[p][k] = "executing" /\ phase[p] = "open"
        /\ worker' = [worker EXCEPT ![p][k] = "none"]
        /\ UNCHANGED <<phase, canceller, joining, executed, stopped, confirmed>>
    BY <1>9 DEF WorkerEnds, Late, historyVars
  <2>3. row' = [row EXCEPT ![k] = r] /\ runtime' = [runtime EXCEPT ![p][k].held = FALSE]
    BY <2>1 DEF Settle
  <2> QED
    BY <2>1, <2>2, <2>3 DEF StopDoubtPersists, CancelDiscardsResult, TypeOK, Unfinished,
     PhysicalOfUnknown
<1>10. ASSUME NEW p \in Processes, NEW k \in Keys, WorkerEndsLate(p, k)
      PROVE  StopDoubtPersists'
  BY <1>10 DEF WorkerEndsLate, Settle, NotifyAll, Late, StopDoubtPersists,
     CancelDiscardsResult, TypeOK, Rows, Unfinished, NoRow, CancelAnswers
<1>11. ASSUME NEW p \in Processes, NEW k \in Keys, Cancel(p, k) PROVE StopDoubtPersists'
  BY <1>11 DEF Cancel, NotifyAll, Cancellable, CallsBack, StopDoubtPersists,
     CancelDiscardsResult, TypeOK, Rows, Unfinished, NoRow, CancelAnswers
<1>12. ASSUME NEW p \in Processes, NEW k \in Keys, CallbackEnds(p, k)
      PROVE  StopDoubtPersists'
  BY <1>12 DEF CallbackEnds, NotifyAll, StopDoubtPersists, CancelDiscardsResult, TypeOK,
     Rows, Unfinished, NoRow, CancelAnswers
<1> QED
  BY <1>2, <1>3, <1>4, <1>5, <1>6, <1>7, <1>8, <1>9, <1>10, <1>11, <1>12 DEF Next,
     ProcessNext, JobNext, WorkerNext, CallbackNext

\* The step formula of VerdictFinal.
VerdictKept ==
    \A k \in Keys : row[k].status \in Terminal =>
        /\ row'[k].status = row[k].status
        /\ row[k].status # "cancelled" => row'[k] = row[k]

\* No action changes the record of a job that has ended, but for the answer of its
\* cancel callback.
LEMMA VerdictStep ==
    ASSUME IInv, Next
    PROVE  VerdictKept
<1> USE DEF IInv
<1>1. ASSUME UNCHANGED <<row>> PROVE VerdictKept
  BY <1>1 DEF VerdictKept, RunInv, OwnerInv, TypeOK, Rows, Terminal, Unfinished
<1>2. ASSUME NEW p \in Processes, Die(p) \/ CloseRetried(p) \/ CloseGivesUp(p) \/
             CloseReleases(p)
      PROVE  VerdictKept
  BY <1>2, <1>1 DEF Die, CloseRetried, CloseGivesUp, CloseReleases, NewThreads, ToJoin
<1>3. ASSUME NEW p \in Processes, NEW k \in Keys, Resubmit(p, k) \/ WorkerReturns(p, k)
             \/ WorkerLost(p, k) \/ CancelFails(p, k) \/ RegisterCallback(p, k) \/
             StartCallback(p, k) \/ Wait(p, k) \/ WaitChecks(p, k) \/ WaitTimesOut(p, k)
      PROVE  VerdictKept
  BY <1>3, <1>1 DEF Resubmit, WorkerReturns, WorkerLost, CancelFails, RegisterCallback,
     StartCallback, Wait, WaitChecks, WaitTimesOut, NotifyAll, Cancellable, MayRegister
<1>4. ASSUME NEW p \in Processes, Open(p) PROVE VerdictKept
  <2>1. \A j \in Keys : row[j] \in Rows
    BY DEF TypeOK
  <2>2. \A j \in Keys : row'[j] = MarkUnknown(row[j])
    BY <1>4 DEF Open
  <2>3. /\ phase'[p] = "open" /\ UNCHANGED historyVars
        /\ \A j \in Keys : worker'[p][j] = "none" /\ runtime'[p][j] = NoRuntime
                            /\ canceller'[p][j] = "none"
        /\ \A q \in Processes : q # p => phase'[q] # "open" /\ canceller'[q] = canceller[q]
    BY <1>4 DEF Open, NewThreads, TypeOK
  <2>4. \A j \in Keys :
           /\ row'[j].cancelRequested = row[j].cancelRequested
           /\ row[j].status \in Unfinished =>
                 row'[j].status = "unknown" /\ row'[j].physical = PhysicalOfUnknown(row[j])
           /\ row[j].status \notin Unfinished => row'[j] = row[j]
    BY <2>1, <2>2, MarkedRow
  <2> QED
    BY <2>1, <2>3, <2>4 DEF historyVars, VerdictKept, RunInv, OwnerInv, TypeOK, Terminal,
     Unfinished
<1>5. ASSUME NEW p \in Processes, CloseBegins(p) PROVE VerdictKept
  <2>1. \A j \in Keys : row[j] \in Rows
    BY DEF TypeOK
  <2>2. \A j \in Keys : row'[j] = MarkUnknown(row[j])
    BY <1>5 DEF CloseBegins
  <2>3. UNCHANGED <<worker, canceller, historyVars>> /\ \A q \in Processes : phase'[q] #
     "open"
    BY <1>5 DEF CloseBegins, OwnerInv, TypeOK
  <2>4. \A j \in Keys :
           /\ row'[j].cancelRequested = row[j].cancelRequested
           /\ row[j].status \in Unfinished =>
                 row'[j].status = "unknown" /\ row'[j].physical = PhysicalOfUnknown(row[j])
           /\ row[j].status \notin Unfinished => row'[j] = row[j]
    BY <2>1, <2>2, MarkedRow
  <2> QED
    BY <2>1, <2>3, <2>4 DEF historyVars, VerdictKept, RunInv, OwnerInv, TypeOK, Terminal,
     Unfinished
<1>6. ASSUME NEW p \in Processes, NEW k \in Keys, Submit(p, k) PROVE VerdictKept
  BY <1>6 DEF Submit, NotifyAll, IsNew, VerdictKept, RunInv, OwnerInv, TypeOK, Rows,
     Terminal, Unfinished
<1>7. ASSUME NEW p \in Processes, NEW k \in Keys, WorkerStarts(p, k) PROVE VerdictKept
  BY <1>7 DEF WorkerStarts, NotifyAll, VerdictKept, RunInv, OwnerInv, TypeOK, Rows,
     Terminal, Unfinished
<1>8. ASSUME NEW p \in Processes, NEW k \in Keys, WorkerSkips(p, k) PROVE VerdictKept
  BY <1>8 DEF WorkerSkips, Settle, NotifyAll, VerdictKept, RunInv, OwnerInv, TypeOK,
     Rows, Terminal, Unfinished
<1>9. ASSUME NEW p \in Processes, NEW k \in Keys, WorkerEnds(p, k) PROVE VerdictKept
  <2>1. PICK r \in Rows :
           /\ Settle(p, k, r)
           /\ r.cancelRequested = row[k].cancelRequested
           /\ r.status \in {"completed", "failed", "cancelled"}
           /\ r.cancelRequested => r.status = "cancelled"
           /\ r.status = "cancelled" =>
                 r.physical = row[k].physical \/ r.physical = "stop_unconfirmed"
           /\ r.physical = "stopped" => row[k].physical = "stopped"
    BY <1>9, EndedRow
  <2>2. /\ worker[p][k] = "executing" /\ phase[p] = "open"
        /\ worker' = [worker EXCEPT ![p][k] = "none"]
        /\ UNCHANGED <<phase, canceller, joining, executed, stopped, confirmed>>
    BY <1>9 DEF WorkerEnds, Late, historyVars
  <2>3. row' = [row EXCEPT ![k] = r] /\ runtime' = [runtime EXCEPT ![p][k].held = FALSE]
    BY <2>1 DEF Settle
  <2>4. row[k].status \notin Terminal
    BY <2>2 DEF RunInv, Terminal
  <2>5. \A j \in Keys : j # k => row'[j] = row[j]
    BY <2>3 DEF TypeOK
  <2> QED
    BY <2>4, <2>5 DEF VerdictKept
<1>10. ASSUME NEW p \in Processes, NEW k \in Keys, WorkerEndsLate(p, k) PROVE VerdictKept
  BY <1>10 DEF WorkerEndsLate, Settle, NotifyAll, Late, VerdictKept, RunInv, OwnerInv,
     TypeOK, Rows, Terminal, Unfinished
<1>11. ASSUME NEW p \in Processes, NEW k \in Keys, Cancel(p, k) PROVE VerdictKept
  BY <1>11 DEF Cancel, NotifyAll, Cancellable, CallsBack, VerdictKept, RunInv, OwnerInv,
     TypeOK, Rows, Terminal, Unfinished
<1>12. ASSUME NEW p \in Processes, NEW k \in Keys, CallbackEnds(p, k) PROVE VerdictKept
  BY <1>12 DEF CallbackEnds, NotifyAll, VerdictKept, RunInv, OwnerInv, TypeOK, Rows,
     Terminal, Unfinished
<1> QED
  BY <1>2, <1>3, <1>4, <1>5, <1>6, <1>7, <1>8, <1>9, <1>10, <1>11, <1>12 DEF Next,
     ProcessNext, JobNext, WorkerNext, CallbackNext

\* IInv is an invariant.
LEMMA IInvariance == Spec => []IInv
<1>1. Init => IInv
  BY DEF Init, IInv, TypeOK, OwnerInv, RunInv, CancelDiscardsResult, StopNotOverclaimed,
     StopDoubtPersists, Rows, Runtimes, Statuses, Physicals, Phases, WorkerStates,
     CancellerStates, WaiterStates, NoRow, NoRuntime, NotJoining
<1>2. IInv /\ [Next]_vars => IInv'
  <2> SUFFICES ASSUME IInv, [Next]_vars PROVE IInv'
    OBVIOUS
  <2>1. CASE Next
    BY <2>1, TypeStep, OwnerStep, RunStep, CancelStep, ClaimStep, DoubtStep DEF IInv
  <2>2. CASE UNCHANGED vars
    BY <2>2 DEF vars, threadVars, historyVars, IInv, TypeOK, OwnerInv, RunInv,
       CancelDiscardsResult, StopNotOverclaimed, StopDoubtPersists
  <2> QED
    BY <2>1, <2>2
<1> QED
  BY <1>1, <1>2, PTL DEF Spec

-----------------------------------------------------------------------------

\* The variables keep their types.
THEOREM TypeCorrect == Spec => []TypeOK
<1>1. IInv => TypeOK
  BY DEF IInv
<1> QED
  BY <1>1, IInvariance, PTL

\* No job is executed twice, over any number of crashes and restarts.
THEOREM NeverReplayed == Spec => []ExecutedOnce
<1>1. IInv => ExecutedOnce
  BY DEF IInv, RunInv, ExecutedOnce
<1> QED
  BY <1>1, IInvariance, PTL

\* A cancelled job never reports a result; a stop on record was confirmed by the
\* callback, and a requested one stays on record, over close() and restarts.
THEOREM CancelsAreRecorded == Spec => []CancelRecordHonest
<1>1. IInv => CancelRecordHonest
  BY DEF IInv, CancelRecordHonest
<1> QED
  BY <1>1, IInvariance, PTL

\* Callbacks of two processes never overlap.
THEOREM CallbacksNeverOverlap == Spec => []OneProcessRuns
<1>1. IInv => OneProcessRuns
  <2> SUFFICES ASSUME IInv, NEW p \in Processes, NEW q \in Processes, p # q,
                      NEW t \in LiveThreads(p)
               PROVE  LiveThreads(q) = {} /\ phase[p] \in {"open", "closed"}
    BY DEF OneProcessRuns
  <2>1. ASSUME NEW r \in Processes, NEW u \in LiveThreads(r)
        PROVE  phase[r] \in {"open", "closed"}
    BY DEF LiveThreads, JobThreads, IInv, OwnerInv
  <2>2. phase[p] \in {"open", "closed"}
    BY <2>1
  <2>3. LiveThreads(q) = {}
    BY <2>1, <2>2 DEF IInv, OwnerInv
  <2> QED
    BY <2>2, <2>3
<1> QED
  BY <1>1, IInvariance, PTL

\* One job's work is done once: not by a second execution, and not by the callbacks of a
\* process that has given up the database file.
THEOREM WorkIsDoneOnce == Spec => []OneExecution
BY NeverReplayed, CallbacksNeverOverlap, PTL DEF OneExecution

\* A final verdict never changes.
THEOREM VerdictsStay == Spec => VerdictFinal
<1>1. IInv /\ [Next]_vars =>
        [\A k \in Keys : row[k].status \in Terminal =>
          /\ row'[k].status = row[k].status
          /\ row[k].status # "cancelled" => row'[k] = row[k]]_vars
  <2> SUFFICES ASSUME IInv, Next, NEW j \in Keys, row[j].status \in Terminal
               PROVE  /\ row'[j].status = row[j].status
                      /\ row[j].status # "cancelled" => row'[j] = row[j]
    OBVIOUS
  <2> QED
    BY VerdictStep DEF VerdictKept
<1> QED
  BY <1>1, IInvariance, PTL DEF Spec, VerdictFinal

-----------------------------------------------------------------------------

\* What an open registry knows of the cancellations of a job none of whose
\* transactions fails.
CallbackInv ==
    \A p \in Processes : \A k \in Stoppable \ Unreliable :
        /\ canceller[p][k] = "running" => k \in stopped
        /\ phase[p] = "open" /\ runtime[p][k].cancelInvoked
              => canceller[p][k] # "none" \/ k \in stopped
        /\ phase[p] = "open" /\ runtime[p][k].held /\ row[k].cancelRequested
              => runtime[p][k].cancelInvoked

\* An acknowledged cancel is on its way to its callback.
LEMMA CallbackStep ==
    ASSUME CallbackInv, IInv, Next
    PROVE  CallbackInv'
<1> USE DEF IInv
<1>1. ASSUME UNCHANGED <<row, phase, runtime, canceller, stopped>> PROVE CallbackInv'
  BY <1>1 DEF CallbackInv, OwnerInv, TypeOK, Rows, Runtimes, Unfinished, NoRow, NoRuntime
<1>2. ASSUME NEW p \in Processes, CloseRetried(p) \/ CloseGivesUp(p) PROVE CallbackInv'
  BY <1>2, <1>1 DEF CloseRetried, CloseGivesUp, ToJoin, threadVars, historyVars
<1>3. ASSUME NEW p \in Processes, NEW k \in Keys, Resubmit(p, k) \/ WorkerReturns(p, k)
             \/ WorkerLost(p, k) \/ Wait(p, k) \/ WaitChecks(p, k) \/ WaitTimesOut(p, k)
      PROVE  CallbackInv'
  BY <1>3, <1>1 DEF Resubmit, WorkerReturns, WorkerLost, Wait, WaitChecks, WaitTimesOut,
     NotifyAll, threadVars, historyVars
<1>4. ASSUME NEW p \in Processes, Open(p) PROVE CallbackInv'
  <2>1. \A j \in Keys : row[j] \in Rows
    BY DEF TypeOK
  <2>2. \A j \in Keys : row'[j] = MarkUnknown(row[j])
    BY <1>4 DEF Open
  <2>3. /\ phase'[p] = "open" /\ UNCHANGED historyVars
        /\ \A j \in Keys : worker'[p][j] = "none" /\ runtime'[p][j] = NoRuntime
                            /\ canceller'[p][j] = "none"
        /\ \A q \in Processes : q # p => phase'[q] # "open" /\ canceller'[q] = canceller[q]
    BY <1>4 DEF Open, NewThreads, TypeOK
  <2>4. \A j \in Keys :
           /\ row'[j].cancelRequested = row[j].cancelRequested
           /\ row[j].status \in Unfinished =>
                 row'[j].status = "unknown" /\ row'[j].physical = PhysicalOfUnknown(row[j])
           /\ row[j].status \notin Unfinished => row'[j] = row[j]
    BY <2>1, <2>2, MarkedRow
  <2> QED
    BY <2>1, JobsAssumption, <2>3, <2>4 DEF historyVars, CallbackInv, OwnerInv, TypeOK,
     Runtimes, NoRuntime
<1>5. ASSUME NEW p \in Processes, Die(p) PROVE CallbackInv'
  BY <1>5, JobsAssumption DEF Die, NewThreads, threadVars, historyVars, CallbackInv,
     OwnerInv, TypeOK, Rows, Runtimes, Unfinished, NoRow, NoRuntime
<1>6. ASSUME NEW p \in Processes, CloseBegins(p) PROVE CallbackInv'
  <2>1. \A j \in Keys : row[j] \in Rows
    BY DEF TypeOK
  <2>2. \A j \in Keys : row'[j] = MarkUnknown(row[j])
    BY <1>6 DEF CloseBegins
  <2>3. UNCHANGED <<worker, canceller, historyVars>> /\ \A q \in Processes : phase'[q] #
     "open"
    BY <1>6 DEF CloseBegins, OwnerInv, TypeOK
  <2>4. \A j \in Keys :
           /\ row'[j].cancelRequested = row[j].cancelRequested
           /\ row[j].status \in Unfinished =>
                 row'[j].status = "unknown" /\ row'[j].physical = PhysicalOfUnknown(row[j])
           /\ row[j].status \notin Unfinished => row'[j] = row[j]
    BY <2>1, <2>2, MarkedRow
  <2> QED
    BY <2>1, <2>3, <2>4 DEF historyVars, CallbackInv, OwnerInv, TypeOK, Runtimes, NoRuntime
<1>7. ASSUME NEW p \in Processes, CloseReleases(p) PROVE CallbackInv'
  BY <1>7, JobsAssumption DEF CloseReleases, threadVars, historyVars, CallbackInv,
     OwnerInv, TypeOK, Rows, Runtimes, Unfinished, NoRow, NoRuntime
<1>8. ASSUME NEW p \in Processes, NEW k \in Keys, Submit(p, k) PROVE CallbackInv'
  BY <1>8, JobsAssumption DEF Submit, NotifyAll, IsNew, threadVars, historyVars,
     CallbackInv, OwnerInv, TypeOK, Rows, Runtimes, Unfinished, NoRow, NoRuntime
<1>9. ASSUME NEW p \in Processes, NEW k \in Keys, WorkerStarts(p, k) PROVE CallbackInv'
  BY <1>9, JobsAssumption DEF WorkerStarts, NotifyAll, threadVars, historyVars,
     CallbackInv, OwnerInv, TypeOK, Rows, Runtimes, Unfinished, NoRow, NoRuntime
<1>10. ASSUME NEW p \in Processes, NEW k \in Keys, WorkerSkips(p, k) PROVE CallbackInv'
  BY <1>10, JobsAssumption DEF WorkerSkips, Settle, NotifyAll, threadVars, historyVars,
     CallbackInv, OwnerInv, TypeOK, Rows, Runtimes, Unfinished, NoRow, NoRuntime
<1>11. ASSUME NEW p \in Processes, NEW k \in Keys, WorkerEnds(p, k) PROVE CallbackInv'
  <2>1. PICK r \in Rows :
           /\ Settle(p, k, r)
           /\ r.cancelRequested = row[k].cancelRequested
           /\ r.status \in {"completed", "failed", "cancelled"}
           /\ r.cancelRequested => r.status = "cancelled"
           /\ r.status = "cancelled" =>
                 r.physical = row[k].physical \/ r.physical = "stop_unconfirmed"
           /\ r.physical = "stopped" => row[k].physical = "stopped"
    BY <1>11, EndedRow
  <2>2. /\ worker[p][k] = "executing" /\ phase[p] = "open"
        /\ worker' = [worker EXCEPT ![p][k] = "none"]
        /\ UNCHANGED <<phase, canceller, joining, executed, stopped, confirmed>>
    BY <1>11 DEF WorkerEnds, Late, historyVars
  <2>3. row' = [row EXCEPT ![k] = r] /\ runtime' = [runtime EXCEPT ![p][k].held = FALSE]
    BY <2>1 DEF Settle
  <2> QED
    BY <2>1, <2>2, <2>3 DEF CallbackInv, OwnerInv, TypeOK, Runtimes, NoRuntime
<1>12. ASSUME NEW p \in Processes, NEW k \in Keys, WorkerEndsLate(p, k) PROVE CallbackInv'
  BY <1>12, JobsAssumption DEF WorkerEndsLate, Settle, NotifyAll, Late, threadVars,
     historyVars, CallbackInv, OwnerInv, TypeOK, Rows, Runtimes, Unfinished, NoRow,
     NoRuntime
<1>13. ASSUME NEW p \in Processes, NEW k \in Keys, Cancel(p, k) PROVE CallbackInv'
  BY <1>13, JobsAssumption DEF Cancel, NotifyAll, Cancellable, CallsBack, threadVars,
     historyVars, CallbackInv, OwnerInv, TypeOK, Rows, Runtimes, Unfinished, NoRow,
     NoRuntime
<1>14. ASSUME NEW p \in Processes, NEW k \in Keys, CancelFails(p, k) PROVE CallbackInv'
  BY <1>14, JobsAssumption DEF CancelFails, Cancellable, threadVars, historyVars,
     CallbackInv, OwnerInv, TypeOK, Rows, Runtimes, Unfinished, NoRow, NoRuntime
<1>15. ASSUME NEW p \in Processes, NEW k \in Keys, RegisterCallback(p, k) PROVE CallbackInv'
  BY <1>15, JobsAssumption DEF RegisterCallback, MayRegister, threadVars, historyVars,
     CallbackInv, OwnerInv, TypeOK, Rows, Runtimes, Unfinished, NoRow, NoRuntime
<1>16. ASSUME NEW p \in Processes, NEW k \in Keys, StartCallback(p, k) PROVE CallbackInv'
  BY <1>16, JobsAssumption DEF StartCallback, threadVars, historyVars, CallbackInv,
     OwnerInv, TypeOK, Rows, Runtimes, Unfinished, NoRow, NoRuntime
<1>17. ASSUME NEW p \in Processes, NEW k \in Keys, CallbackEnds(p, k) PROVE CallbackInv'
  BY <1>17, JobsAssumption DEF CallbackEnds, NotifyAll, threadVars, historyVars,
     CallbackInv, OwnerInv, TypeOK, Rows, Runtimes, Unfinished, NoRow, NoRuntime
<1> QED
  BY <1>2, <1>3, <1>4, <1>5, <1>6, <1>7, <1>8, <1>9, <1>10, <1>11, <1>12, <1>13, <1>14,
     <1>15, <1>16, <1>17 DEF Next, ProcessNext, JobNext, WorkerNext, CallbackNext

\* Every acknowledged cancel reaches its callback, if the job's own transactions
\* do not fail, whatever becomes of the other jobs' transactions.
THEOREM CancelIsCarriedOut == Spec => []CancelReachesCallback
<1>1. Init => CallbackInv
  BY JobsAssumption DEF Init, CallbackInv, NoRuntime
<1>2. IInv /\ CallbackInv /\ [Next]_vars => CallbackInv'
  <2> SUFFICES ASSUME IInv, CallbackInv, [Next]_vars PROVE CallbackInv'
    OBVIOUS
  <2>1. CASE Next
    BY <2>1, CallbackStep
  <2>2. CASE UNCHANGED vars
    BY <2>2 DEF vars, threadVars, historyVars, CallbackInv
  <2> QED
    BY <2>1, <2>2
<1>3. CallbackInv => CancelReachesCallback
  BY DEF CallbackInv, CancelReachesCallback, CallbackReached
<1> QED
  BY <1>1, <1>2, <1>3, IInvariance, PTL DEF Spec

-----------------------------------------------------------------------------
(* Deployment.                                                             *)

AgentStages == {"none", "look", "check", "unlinkPid", "unlinkIdentity", "spawn",
                "writeIdentity", "writePid", "term", "wait", "done"}
ProcessRecords ==
    [kind : {"none", "service", "other"}, birth : Nat,
     life : {"none", "up", "killed", "zombie"}, parent : Agents \cup {NoAgent}]
AgentRecords ==
    [op : {"none", "start", "stop"}, at : AgentStages, pid : Pids \cup {NoPid},
     child : Pids \cup {NoPid}, since : Nat, ok : BOOLEAN]
NodeTypeOK ==
    /\ process \in [Pids -> ProcessRecords] /\ births \in Nat
    /\ pidFile \in Pids \cup {NoPid} /\ identityFile \in Nat
    /\ agent \in [Agents -> AgentRecords]
    /\ strayed \in SUBSET Nat /\ tangled \in BOOLEAN

StatusRecords == {"stopped", "running", "failed"}
CommandRecords ==
    [op : {"none", "up", "down", "init"}, at : {"none", "ask", "await", "poll", "save"},
     agent : Agents \cup {NoAgent}, pid : Pids \cup {NoPid},
     seen : StatusRecords, result : StatusRecords]
HostTypeOK ==
    /\ record \in StatusRecords
    /\ command \in [Commands -> CommandRecords]
    /\ begun \in Nat
    /\ untold \in SUBSET Nat /\ crossed \in BOOLEAN

\* No two processes that exist were born at the same time, and only a service has its birth
\* in the identity file.
ProcessInv ==
    /\ \A p \in Pids : Exists(p) => process[p].birth \in 1..births
    /\ \A p, q \in Pids : Exists(p) /\ Exists(q) /\ process[p].birth = process[q].birth => p = q
    /\ \A p \in Pids : ~Exists(p) => process[p] = NoProcess
    /\ identityFile <= births
    /\ \A p \in Pids : Exists(p) /\ process[p].birth = identityFile =>
       process[p].kind = "service"

\* What an agent knows of the processes it deals with: its child is a service and keeps its
\* pid while it works, and what it is about to signal was a service when it looked, or was
\* born since.
AgentKnows(a) ==
    /\ AtWork(a) => agent[a].op \in {"start", "stop"}
    /\ AtWork(a) /\ agent[a].child # NoPid =>
          /\ agent[a].op = "start"
          /\ process[agent[a].child].kind = "service"
          /\ process[agent[a].child].parent = a
    /\ agent[a].at \in {"writeIdentity", "writePid"} => agent[a].child # NoPid
    /\ agent[a].at = "spawn" => agent[a].child = NoPid /\ agent[a].op = "start"
    /\ agent[a].at \in {"check", "term", "wait"} => agent[a].pid \in Pids
    /\ agent[a].at \in {"term", "wait"} /\ Exists(agent[a].pid) =>
          \/ process[agent[a].pid].kind = "service"
          \/ process[agent[a].pid].birth > agent[a].since
    /\ agent[a].since <= births
AgentInv == \A a \in Agents : AgentKnows(a)

\* Every service that runs is recorded or strayed; all have strayed.
Strayed(p) == process[p].birth \in strayed
AllKnown == \A p \in Pids : Running(p) => Strayed(p) \/ FoundRunning(p)
AllStrayed == \A p \in Pids : Running(p) => Strayed(p)

\* What the files tell of the services while agent a works, if agents never met.
FilesTell(a) ==
    /\ agent[a].at \in {"look", "check", "term", "wait"} => AllKnown
    /\ agent[a].at \in {"look", "check"} /\ agent[a].child # NoPid =>
          pidFile = agent[a].child /\ identityFile = process[agent[a].child].birth
    /\ agent[a].at \in {"check", "term", "wait"} => agent[a].pid = pidFile
    /\ agent[a].at \in {"term", "wait"} => agent[a].op = "stop"
    /\ agent[a].at \in {"unlinkPid", "unlinkIdentity", "spawn"} => AllStrayed
    /\ agent[a].at \in {"unlinkPid", "unlinkIdentity", "term", "wait"} => agent[a].child = NoPid
    /\ agent[a].at \in {"unlinkIdentity", "spawn", "writeIdentity", "writePid"} =>
       pidFile = NoPid
    /\ agent[a].at \in {"spawn", "writeIdentity"} => identityFile = 0
    /\ agent[a].at = "writePid" => identityFile = process[agent[a].child].birth
    /\ agent[a].at \in {"writeIdentity", "writePid"} =>
          \A p \in Pids : Running(p) => Strayed(p) \/ p = agent[a].child
FilesInv ==
    ~tangled =>
        /\ \A a, b \in Agents : AtWork(a) /\ AtWork(b) => a = b
        /\ FilesAtRest => AllKnown
        /\ \A a \in Agents : FilesTell(a)

\* A command that may have left a service running of which the record does not tell yet.
Trying(c) ==
    /\ command[c].op = "up"
    /\ \/ command[c].at \in {"await", "poll"}
       \/ command[c].at = "save" /\ command[c].result # "stopped"
AllTold == \A p \in Pids : Running(p) => process[p].birth \in strayed \cup untold

\* What the stages of a command imply.
CommandInv ==
    \A c \in Commands :
        /\ command[c].op = "none" <=> command[c].at = "none"
        /\ command[c].at # "await" => command[c].agent = NoAgent
        /\ command[c].at = "await" =>
              /\ command[c].op \in {"up", "down"}
              /\ command[c].agent \in Agents
              /\ command[c].op = "down" => agent[command[c].agent].op = "stop"
        /\ command[c].at = "poll" => command[c].op = "up"

\* As long as neither agents nor commands ever met: what the record tells of the services.
RecordInv ==
    ~tangled /\ ~crossed =>
        /\ \A c, d \in Commands : UnderWay(c) /\ UnderWay(d) => c = d
        /\ \A c \in Commands :
              /\ command[c].at \in {"ask", "await"} => command[c].seen = record
              /\ command[c].at = "await" => \A b \in Agents : AtWork(b) => b = command[c].agent
              /\ /\ command[c].at = "await" /\ command[c].op = "down"
                 /\ agent[command[c].agent].at = "done" /\ agent[command[c].agent].ok
                 => AllStrayed
              /\ command[c].at = "save" /\ command[c].result = "stopped" => AllTold
        /\ record = "stopped" /\ (\A c \in Commands : ~Trying(c)) => AllTold

DeploymentIInv ==
    NodeTypeOK /\ HostTypeOK /\ ProcessInv /\ AgentInv /\ FilesInv /\ CommandInv /\ RecordInv

-----------------------------------------------------------------------------

\* What a step does that makes no process: those that are left are those that were, and
\* nobody but agent a loses its child.
Shrinks(a) ==
    /\ process' \in [Pids -> ProcessRecords]
    /\ \A p \in Pids : Exists(p)' =>
          /\ Exists(p)
          /\ process'[p].kind = process[p].kind /\ process'[p].birth = process[p].birth
    /\ \A p \in Pids : ~Exists(p)' => process'[p] = NoProcess
    /\ \A p \in Pids : Running(p)' => Running(p)
    /\ \A p \in Pids : process[p].parent \in Agents \ {a} /\ process[p].kind = "service" =>
          process'[p].kind = "service" /\ process'[p].parent = process[p].parent

\* An agent that ends leaves its children to init.
LEMMA OrphansLeft ==
    ASSUME NodeTypeOK, ProcessInv, NEW a \in Agents, process' = Orphaned(a)
    PROVE  Shrinks(a) /\ \A p \in Pids : Running(p) => Running(p)'
<1>1. \A p \in Pids : process[p] \in ProcessRecords
  BY DEF NodeTypeOK
<1>2. \A p \in Pids : Orphaned(a)[p] \in ProcessRecords
  BY <1>1 DEF Orphaned, NoProcess, ProcessRecords
<1>3. process' \in [Pids -> ProcessRecords]
  BY <1>2 DEF Orphaned
<1>4. \A p \in Pids : ~Exists(p) => process[p] = NoProcess /\ process'[p] = NoProcess
  BY AgentsAssumption DEF Orphaned, ProcessInv, NoProcess
<1> QED
  BY <1>1, <1>3, <1>4, AgentsAssumption
  DEF Shrinks, Orphaned, Exists, Running, NoProcess, ProcessRecords

\* Nor does a step that leaves the processes alone.
LEMMA NothingShrinks ==
    ASSUME NodeTypeOK, ProcessInv, NEW a, process' = process
    PROVE  Shrinks(a) /\ \A p \in Pids : Running(p) => Running(p)'
  BY DEF Shrinks, Exists, Running, NodeTypeOK, ProcessInv

\* A process that ends.
LEMMA ExitShrinks ==
    ASSUME NodeTypeOK, ProcessInv, NEW p \in Pids, ServiceExits(p) \/ OtherExits(p)
    PROVE  Shrinks(NoAgent)
<1>1. \A q \in Pids : process[q] \in ProcessRecords
  BY DEF NodeTypeOK
<1>2. process' = [process EXCEPT ![p] = NoProcess]
      \/ /\ process[p].kind = "service" /\ process' = [process EXCEPT ![p].life = "zombie"]
  BY <1>1 DEF ServiceExits, OtherExits, NodeTypeOK
<1>3. process[p].kind = "service" => process[p].parent = NoAgent
      \/ process'[p].parent = process[p].parent
  BY <1>1 DEF ServiceExits, OtherExits, NodeTypeOK, ProcessRecords
<1>4. process' \in [Pids -> ProcessRecords]
  BY <1>1, <1>2 DEF NodeTypeOK, NoProcess, ProcessRecords
<1> QED
  BY <1>1, <1>2, <1>4, AgentsAssumption
  DEF Shrinks, Exists, Running, NoProcess, ProcessRecords, ServiceExits, OtherExits, ProcessInv,
     NodeTypeOK

\* A process that is sent SIGKILL no longer runs.
LEMMA KillShrinks ==
    ASSUME NodeTypeOK, ProcessInv, AgentInv, NEW a \in Agents, Kill(a)
    PROVE  Shrinks(NoAgent) /\ process'[agent[a].pid].life # "up"
           /\ \A p \in Pids : p # agent[a].pid => process'[p] = process[p]
<1>1. \A q \in Pids : process[q] \in ProcessRecords
  BY DEF NodeTypeOK
<1>2. agent[a].pid \in Pids
  BY DEF Kill, Exists
<1>3. PICK l \in {"none", "killed", "zombie"} :
         process' = [process EXCEPT ![agent[a].pid].life = l]
  <2>1. process[agent[a].pid].life \in {"none", "up", "killed", "zombie"}
    BY <1>1, <1>2 DEF ProcessRecords
  <2> QED
    BY <1>2, <2>1 DEF Kill, NodeTypeOK
<1>4. process' \in [Pids -> ProcessRecords]
  BY <1>1, <1>2, <1>3 DEF NodeTypeOK, ProcessRecords
<1>5. \A p \in Pids : p # agent[a].pid => process'[p] = process[p]
  BY <1>2, <1>3 DEF NodeTypeOK
<1>6. /\ process'[agent[a].pid].kind = process[agent[a].pid].kind
      /\ process'[agent[a].pid].birth = process[agent[a].pid].birth
      /\ process'[agent[a].pid].parent = process[agent[a].pid].parent
      /\ process'[agent[a].pid].life # "up" /\ process[agent[a].pid].kind # "none"
  BY <1>1, <1>2, <1>3 DEF NodeTypeOK, ProcessRecords, Kill, Exists
<1>7. \A p \in Pids : Exists(p)' <=> Exists(p)
  BY <1>5, <1>6 DEF Exists
<1>8. \A p \in Pids : Running(p)' => Running(p)
  BY <1>5, <1>6 DEF Running
<1>9. \A p \in Pids : process'[p].kind = process[p].kind /\ process'[p].birth = process[p].birth
                      /\ process'[p].parent = process[p].parent
  BY <1>5, <1>6
<1>10. \A p \in Pids : ~Exists(p)' => process'[p] = NoProcess
  BY <1>5, <1>6, <1>7 DEF ProcessInv, Exists
<1> QED
  BY <1>4, <1>5, <1>6, <1>7, <1>8, <1>9, <1>10 DEF Shrinks

\* No process is born.
LEMMA ProcessesShrink ==
    ASSUME NodeTypeOK, ProcessInv, NEW a, Shrinks(a), births' = births,
           identityFile' \in {0, identityFile}
    PROVE  ProcessInv'
<1>1. \A p \in Pids : Exists(p) => process[p].birth \in 1 .. births
  BY DEF ProcessInv
<1> QED
  BY <1>1 DEF ProcessInv, Shrinks, NodeTypeOK, Exists, NoProcess, ProcessRecords

\* The other agents know what they knew.
LEMMA OthersKnow ==
    ASSUME NodeTypeOK, ProcessInv, AgentInv, NEW a, Shrinks(a), births' = births,
           NEW b \in Agents \ {a}, agent'[b] = agent[b]
    PROVE  AgentKnows(b)'
<1>1. agent[b] \in AgentRecords /\ AgentKnows(b)
  BY DEF NodeTypeOK, AgentInv
<1> QED
  BY <1>1, PidsAssumption DEF AgentKnows, AtWork, Shrinks, NodeTypeOK, Exists, NoProcess,
     AgentRecords, ProcessRecords

\* One agent goes on.
LEMMA AgentIsTyped ==
    ASSUME NodeTypeOK, NEW a \in Agents, NEW r \in AgentRecords,
           agent' = [agent EXCEPT ![a] = r]
    PROVE  agent' \in [Agents -> AgentRecords] /\ agent'[a] = r
           /\ \A b \in Agents \ {a} : agent'[b] = agent[b]
  BY DEF NodeTypeOK

\* A process is born with the next number.
LEMMA ProcessIsBorn ==
    ASSUME NodeTypeOK, ProcessInv, NEW p \in Pids, ~Exists(p),
           NEW kind \in {"service", "other"}, NEW parent \in Agents \cup {NoAgent},
           process' = [process EXCEPT ![p] = NewProcess(kind, parent)],
           births' = births + 1, identityFile' = identityFile
    PROVE  /\ process' \in [Pids -> ProcessRecords] /\ births' \in Nat
           /\ ProcessInv'
           /\ process'[p] = NewProcess(kind, parent)
           /\ \A q \in Pids : q # p => process'[q] = process[q]
<1>1. NewProcess(kind, parent) \in ProcessRecords /\ NewProcess(kind, parent).birth = births + 1
      /\ NewProcess(kind, parent).kind = kind /\ births \in Nat /\ identityFile \in Nat
  BY DEF NewProcess, ProcessRecords, NodeTypeOK
<1>2. process'[p] = NewProcess(kind, parent) /\ \A q \in Pids : q # p =>
      process'[q] = process[q]
  BY DEF NodeTypeOK
<1>3. process' \in [Pids -> ProcessRecords] /\ births' \in Nat
  BY <1>1 DEF NodeTypeOK
<1>4. Exists(p)' /\ \A q \in Pids : q # p => (Exists(q)' <=> Exists(q))
  BY <1>1, <1>2 DEF Exists
<1>5. \A q \in Pids : q # p /\ Exists(q) => process[q].birth \in 1 .. births
  BY DEF ProcessInv
<1>6. \A q \in Pids : Exists(q)' => process'[q].birth \in 1 .. births'
  BY <1>1, <1>2, <1>4, <1>5
<1>7. \A q, r \in Pids : Exists(q)' /\ Exists(r)' /\ process'[q].birth = process'[r].birth =>
      q = r
  BY <1>1, <1>2, <1>4, <1>5 DEF ProcessInv
<1>8. \A q \in Pids : Exists(q)' /\ process'[q].birth = identityFile' =>
      process'[q].kind = "service"
  BY <1>1, <1>2, <1>4 DEF ProcessInv
<1> QED
  BY <1>1, <1>2, <1>3, <1>4, <1>6, <1>7, <1>8 DEF ProcessInv

\* A birth is none of the agents' business.
LEMMA OthersKnowBirth ==
    ASSUME NodeTypeOK, ProcessInv, AgentInv, NEW p \in Pids, ~Exists(p),
           process'[p].birth = births + 1, process'[p].kind # "none",
           \A q \in Pids : q # p => process'[q] = process[q], births' = births + 1,
           NEW b \in Agents, agent'[b] = agent[b]
    PROVE  AgentKnows(b)'
<1>1. agent[b] \in AgentRecords /\ AgentKnows(b) /\ births \in Nat
  BY DEF NodeTypeOK, AgentInv
<1>2. AtWork(b) /\ agent[b].child # NoPid => agent[b].child \in Pids /\ Exists(agent[b].child)
  BY <1>1 DEF AgentKnows, AgentRecords, Exists
<1> QED
  BY <1>1, <1>2 DEF AgentKnows, AtWork, Exists, AgentRecords

\* Agent a goes on, and nothing is born.
LEMMA AgentGoesOn ==
    ASSUME NodeTypeOK, ProcessInv, AgentInv, NEW a \in Agents,
           Shrinks(a) \/ Shrinks(NoAgent), births' = births,
           NEW r \in AgentRecords, agent' = [agent EXCEPT ![a] = r],
           pidFile' \in Pids \cup {NoPid}, identityFile' \in {0, identityFile},
           strayed' \in SUBSET Nat, tangled' = tangled,
           AgentKnows(a)'
    PROVE  (NodeTypeOK /\ ProcessInv /\ AgentInv)'
<1>1. agent' \in [Agents -> AgentRecords] /\ \A b \in Agents \ {a} : agent'[b] = agent[b]
  BY AgentIsTyped
<1>2. NodeTypeOK'
  BY <1>1 DEF NodeTypeOK, Shrinks
<1>3. ProcessInv'
  BY ProcessesShrink
<1>4. \A b \in Agents \ {a} : AgentKnows(b)'
  <2>1. CASE Shrinks(a)
    BY <2>1, <1>1, OthersKnow
  <2>2. CASE Shrinks(NoAgent)
    <3>1. \A b \in Agents \ {a} : b \in Agents \ {NoAgent}
      BY AgentsAssumption
    <3> QED
      BY <3>1, <2>2, <1>1, OthersKnow
  <2> QED
    BY <2>1, <2>2
<1> QED
  BY <1>2, <1>3, <1>4 DEF AgentInv

\* A step of the node keeps the types and what the agents know.
LEMMA NodeBasicStep ==
    ASSUME NodeTypeOK, ProcessInv, AgentInv, NodeStep
    PROVE  (NodeTypeOK /\ ProcessInv /\ AgentInv)'
<1>0. /\ \A a \in Agents : agent[a] \in AgentRecords /\ AgentKnows(a)
      /\ \A p \in Pids : process[p] \in ProcessRecords
      /\ strayed \in SUBSET Nat /\ births \in Nat
  BY DEF NodeTypeOK, AgentInv
<1>1. ASSUME NEW p \in Pids, ServiceExits(p) \/ OtherExits(p)
      PROVE  (NodeTypeOK /\ ProcessInv /\ AgentInv)'
  <2>1. Shrinks(NoAgent)
    BY <1>1, ExitShrinks
  <2>2. UNCHANGED <<births, pidFile, identityFile, agent, tangled>>
        /\ strayed' \subseteq strayed
    BY <1>1 DEF ServiceExits, OtherExits
  <2>3. NodeTypeOK'
    BY <2>1, <2>2 DEF NodeTypeOK, Shrinks
  <2>4. ProcessInv'
    BY <2>1, <2>2, ProcessesShrink
  <2>5. AgentInv'
    BY <2>1, <2>2, AgentsAssumption, OthersKnow DEF AgentInv
  <2> QED
    BY <2>3, <2>4, <2>5
<1>2. ASSUME NEW p \in Pids, OtherStarts(p) PROVE (NodeTypeOK /\ ProcessInv /\ AgentInv)'
  <2>1. /\ ~Exists(p) /\ process' = [process EXCEPT ![p] = NewProcess("other", NoAgent)]
        /\ births' = births + 1 /\ UNCHANGED <<pidFile, identityFile, agent, strayed, tangled>>
    BY <1>2 DEF OtherStarts, Exists
  <2>2. /\ process' \in [Pids -> ProcessRecords] /\ births' \in Nat
        /\ ProcessInv' /\ process'[p] = NewProcess("other", NoAgent)
        /\ \A q \in Pids : q # p => process'[q] = process[q]
    BY <2>1, ProcessIsBorn
  <2>3. NodeTypeOK'
    BY <2>1, <2>2 DEF NodeTypeOK
  <2>4. process'[p].birth = births + 1 /\ process'[p].kind # "none"
    BY <2>2 DEF NewProcess
  <2>5. AgentInv'
    BY <2>1, <2>2, <2>4, OthersKnowBirth DEF AgentInv
  <2> QED
    BY <2>2, <2>3, <2>5
<1>3. ASSUME NEW a \in Agents, NEW p \in Pids, Spawn(a, p)
      PROVE (NodeTypeOK /\ ProcessInv /\ AgentInv)'
  <2>1. /\ ~Exists(p) /\ process' = [process EXCEPT ![p] = NewProcess("service", a)]
        /\ births' = births + 1 /\ UNCHANGED <<pidFile, identityFile, strayed, tangled>>
        /\ agent[a].at = "spawn"
    BY <1>3 DEF Spawn, Exists, Files
  <2>2. /\ process' \in [Pids -> ProcessRecords] /\ births' \in Nat
        /\ ProcessInv' /\ process'[p] = NewProcess("service", a)
        /\ \A q \in Pids : q # p => process'[q] = process[q]
    BY <2>1, ProcessIsBorn
  <2>3. PICK r \in AgentRecords :
           /\ agent' = [agent EXCEPT ![a] = r]
           /\ r.at = "writeIdentity" /\ r.child = p /\ r.op = agent[a].op
              /\ r.since = agent[a].since
    <3>1. [agent[a] EXCEPT !.at = "writeIdentity", !.child = p] \in AgentRecords
      BY <1>0 DEF AgentRecords, AgentStages
    <3> QED
      BY <3>1, <1>0, <1>3 DEF Spawn, NodeTypeOK, AgentRecords
  <2>4. agent' \in [Agents -> AgentRecords] /\ agent'[a] = r
        /\ \A b \in Agents \ {a} : agent'[b] = agent[b]
    BY <2>3, AgentIsTyped
  <2>5. NodeTypeOK'
    BY <2>1, <2>2, <2>4 DEF NodeTypeOK
  <2>6. process'[p].birth = births + 1 /\ process'[p].kind = "service" /\ process'[p].parent = a
    BY <2>2 DEF NewProcess
  <2>7. AgentKnows(a)'
    <3>1. p # NoPid /\ r.since <= births' /\ agent[a].op = "start"
      BY <1>0, <2>1, <2>3, PidsAssumption DEF AgentKnows, AgentRecords
    <3> QED
      BY <3>1, <2>3, <2>4, <2>6 DEF AgentKnows, AtWork
  <2>8. \A b \in Agents \ {a} : AgentKnows(b)'
    BY <2>1, <2>2, <2>4, <2>6, OthersKnowBirth
  <2> QED
    BY <2>2, <2>5, <2>7, <2>8 DEF AgentInv
<1>4. ASSUME NEW a \in Agents, Answers(a, TRUE, NoPid) \/ Answers(a, FALSE, NoPid)
             \/ Answers(a, TRUE, agent[a].pid) \/ AgentFails(a),
             births' = births, pidFile' \in Pids \cup {NoPid},
                identityFile' \in {0, identityFile},
             strayed' \in SUBSET Nat, tangled' = tangled
      PROVE  (NodeTypeOK /\ ProcessInv /\ AgentInv)'
  <2>1. Shrinks(a)
    BY <1>4, OrphansLeft DEF Answers, AgentFails
  <2>2. PICK r \in AgentRecords : agent' = [agent EXCEPT ![a] = r] /\ r.at = "done"
        /\ r.since = 0
    <3>1. \A ok \in BOOLEAN, pid \in Pids \cup {NoPid} :
             /\ [NoWork EXCEPT !.op = agent[a].op, !.at = "done", !.ok = ok,
                !.pid = pid] \in AgentRecords
             /\ [NoWork EXCEPT !.op = agent[a].op, !.at = "done", !.ok = ok,
                !.pid = pid].at = "done"
             /\ [NoWork EXCEPT !.op = agent[a].op, !.at = "done", !.ok = ok,
                !.pid = pid].since = 0
      BY <1>0 DEF AgentRecords, AgentStages, NoWork
    <3>2. /\ [NoWork EXCEPT !.op = agent[a].op, !.at = "done"] \in AgentRecords
          /\ [NoWork EXCEPT !.op = agent[a].op, !.at = "done"].at = "done"
          /\ [NoWork EXCEPT !.op = agent[a].op, !.at = "done"].since = 0
      BY <1>0 DEF AgentRecords, AgentStages, NoWork
    <3>3. agent[a].pid \in Pids \cup {NoPid}
      BY <1>0 DEF AgentRecords
    <3> HIDE DEF NoWork
    <3> QED
      BY <1>4, <3>1, <3>2, <3>3 DEF Answers, AgentFails
  <2>3. AgentKnows(a)'
    BY <2>2, <1>0, <1>4 DEF AgentKnows, AtWork, NodeTypeOK
  <2> QED
    BY <2>1, <2>2, <2>3, <1>4, AgentGoesOn
<1>5. ASSUME NEW a \in Agents, AgentFails(a) PROVE (NodeTypeOK /\ ProcessInv /\ AgentInv)'
  <2>1. strayed' \in SUBSET Nat
    <3>1. AtWork(a) /\ agent[a].at \in {"writeIdentity", "writePid"} => agent[a].child \in Pids
      BY <1>0 DEF AgentKnows, AgentRecords
    <3> QED
      BY <3>1, <1>0, <1>5 DEF AgentFails, Strays, ProcessRecords
  <2> QED
    BY <2>1, <1>4, <1>5 DEF AgentFails, Files, NodeTypeOK
\* An agent that goes on without answering.
<1>6. ASSUME NEW a \in Agents, AtWork(a), NEW at \in AgentStages, Goes(a, at),
             process' = process, UNCHANGED <<births, strayed, tangled>>,
             pidFile' \in Pids \cup {NoPid}, identityFile' \in {0, identityFile},
             at \notin {"writeIdentity", "check", "term", "done", "none"},
             at = "spawn" => agent[a].child = NoPid /\ agent[a].op = "start",
             at = "writePid" => agent[a].child # NoPid,
             at = "wait" => agent[a].at = "term"
      PROVE  (NodeTypeOK /\ ProcessInv /\ AgentInv)'
  <2> DEFINE r == [agent[a] EXCEPT !.at = at]
  <2>1. r \in AgentRecords /\ r.at = at /\ r.child = agent[a].child /\ r.op = agent[a].op
        /\ r.pid = agent[a].pid /\ r.since = agent[a].since
    BY <1>0, <1>6 DEF AgentRecords
  <2>2. agent' = [agent EXCEPT ![a] = r]
    BY <1>6 DEF Goes, NodeTypeOK
  <2> HIDE DEF r
  <2>3. agent'[a] = r
    BY <2>2 DEF NodeTypeOK
  <2>4. Shrinks(a)
    BY <1>6, NothingShrinks
  <2>5. AgentKnows(a)'
    BY <2>1, <2>3, <1>0, <1>6 DEF AgentKnows, AtWork, Exists
  <2> QED
    BY <2>1, <2>2, <2>4, <2>5, <1>6, AgentGoesOn DEF NodeTypeOK
\* An agent that goes on to look at a process.
<1>7. ASSUME NEW a \in Agents, AtWork(a), NEW at \in {"check", "term"}, NEW pid \in Pids,
             NEW since \in Nat,
             agent' = [agent EXCEPT ![a].at = at, ![a].pid = pid, ![a].since = since],
             process' = process, UNCHANGED <<births, Files, strayed, tangled>>, since <= births,
             at = "term" /\ Exists(pid) => process[pid].kind = "service"
      PROVE  (NodeTypeOK /\ ProcessInv /\ AgentInv)'
  <2> DEFINE r == [agent[a] EXCEPT !.at = at, !.pid = pid, !.since = since]
  <2>1. r \in AgentRecords /\ r.at = at /\ r.child = agent[a].child /\ r.op = agent[a].op
        /\ r.pid = pid /\ r.since = since
    BY <1>0, <1>7 DEF AgentRecords, AgentStages
  <2>2. agent' = [agent EXCEPT ![a] = r]
    BY <1>0, <1>7 DEF NodeTypeOK, AgentRecords
  <2> HIDE DEF r
  <2>3. agent'[a] = r
    BY <2>2 DEF NodeTypeOK
  <2>4. Shrinks(a)
    BY <1>7, NothingShrinks
  <2>5. AgentKnows(a)'
    BY <2>1, <2>3, <1>0, <1>7 DEF AgentKnows, AtWork, Exists
  <2> QED
    BY <2>1, <2>2, <2>4, <2>5, <1>7, AgentGoesOn DEF NodeTypeOK, Files
\* An agent whose signals are done.
<1>8. ASSUME NEW a \in Agents, AtWork(a), Leaves(a), Shrinks(NoAgent),
             UNCHANGED <<births, Files, strayed, tangled>>
      PROVE  (NodeTypeOK /\ ProcessInv /\ AgentInv)'
  <2> DEFINE r == [agent[a] EXCEPT !.at = "unlinkPid", !.pid = NoPid, !.since = 0]
  <2>1. r \in AgentRecords /\ r.at = "unlinkPid" /\ r.child = agent[a].child
        /\ r.op = agent[a].op
        /\ r.pid = NoPid /\ r.since = 0
    BY <1>0, <1>8 DEF AgentRecords, AgentStages
  <2>2. agent' = [agent EXCEPT ![a] = r]
    BY <1>0, <1>8 DEF NodeTypeOK, AgentRecords, Leaves
  <2> HIDE DEF r
  <2>3. agent'[a] = r
    BY <2>2 DEF NodeTypeOK
  <2>4. agent[a].child # NoPid => agent[a].child \in Pids /\ process[agent[a].child].parent = a
                                  /\ process[agent[a].child].kind = "service"
    BY <1>0, <1>8 DEF AgentKnows, AgentRecords
  <2>5. a \in Agents \ {NoAgent}
    BY AgentsAssumption
  <2>6. AgentKnows(a)'
    BY <2>1, <2>3, <2>4, <2>5, <1>0, <1>8 DEF AgentKnows, AtWork, Exists, Shrinks
  <2> QED
    BY <2>1, <2>2, <2>6, <1>8, AgentGoesOn DEF NodeTypeOK, Files
<1>9. ASSUME NEW a \in Agents, Look(a) PROVE (NodeTypeOK /\ ProcessInv /\ AgentInv)'
  <2>1. agent[a].at = "look" /\ AtWork(a) /\ UNCHANGED <<births, Files, strayed, tangled>>
    BY <1>9 DEF Look, AtWork
  <2>2. CASE Exists(pidFile) /\ agent' = [agent EXCEPT ![a].at = "check", ![a].pid = pidFile]
             /\ UNCHANGED process
    <3>1. agent' = [agent EXCEPT ![a].at = "check", ![a].pid = pidFile,
          ![a].since = agent[a].since]
      BY <2>2, <1>0 DEF NodeTypeOK, AgentRecords
    <3>2. pidFile \in Pids /\ agent[a].since \in Nat /\ agent[a].since <= births
      BY <2>2, <1>0 DEF Exists, AgentRecords, AgentKnows
    <3> QED
      BY <3>1, <3>2, <2>1, <2>2, <1>7
  <2>3. CASE agent[a].child # NoPid /\ process' = process
             /\ agent' = [agent EXCEPT ![a].at = "term", ![a].pid = agent[a].child,
                ![a].since = births]
    <3>1. agent[a].child \in Pids /\ process[agent[a].child].kind = "service"
      BY <2>1, <2>3, <1>0 DEF AgentKnows, AgentRecords
    <3>2. births \in Nat /\ births <= births
      BY <1>0
    <3> QED
      BY <3>1, <3>2, <2>1, <2>3, <1>7
  <2>4. CASE Answers(a, TRUE, NoPid)
    BY <2>4, <2>1, <1>4, <1>0 DEF Files, NodeTypeOK
  <2>5. CASE Goes(a, "unlinkPid") /\ UNCHANGED process
    BY <2>5, <2>1, <1>6 DEF Files, NodeTypeOK, AgentStages
  <2> QED
    BY <1>9, <2>2, <2>3, <2>4, <2>5 DEF Look
<1>10. ASSUME NEW a \in Agents, Check(a) PROVE (NodeTypeOK /\ ProcessInv /\ AgentInv)'
  <2>1. agent[a].at = "check" /\ AtWork(a) /\ UNCHANGED <<births, Files, strayed, tangled>>
    BY <1>10 DEF Check, AtWork
  <2>2. CASE IsRecorded(agent[a].pid) /\ process' = process
             /\ agent' = [agent EXCEPT ![a].at = "term", ![a].since = births]
    <3>1. agent' = [agent EXCEPT ![a].at = "term", ![a].pid = agent[a].pid, ![a].since = births]
      BY <2>2, <1>0 DEF NodeTypeOK, AgentRecords
    <3>2. agent[a].pid \in Pids
      BY <2>1, <1>0 DEF AgentKnows
    <3>3. Exists(agent[a].pid) => process[agent[a].pid].kind = "service"
      BY <2>2, <3>2 DEF IsRecorded, Running, ProcessInv
    <3>4. births \in Nat /\ births <= births
      BY <1>0
    <3> QED
      BY <3>1, <3>2, <3>3, <3>4, <2>1, <2>2, <1>7
  <2>3. CASE agent[a].child # NoPid /\ process' = process
             /\ agent' = [agent EXCEPT ![a].at = "term", ![a].pid = agent[a].child,
                ![a].since = births]
    <3>1. agent[a].child \in Pids /\ process[agent[a].child].kind = "service"
      BY <2>1, <2>3, <1>0 DEF AgentKnows, AgentRecords
    <3>2. births \in Nat /\ births <= births
      BY <1>0
    <3> QED
      BY <3>1, <3>2, <2>1, <2>3, <1>7
  <2>4. CASE Answers(a, FALSE, NoPid) \/ Answers(a, TRUE, agent[a].pid)
    BY <2>4, <2>1, <1>4, <1>0 DEF Files, NodeTypeOK
  <2> QED
    BY <1>10, <2>2, <2>3, <2>4 DEF Check
<1>11. ASSUME NEW a \in Agents, UnlinkPid(a) \/ UnlinkIdentity(a) \/ WritePid(a)
       PROVE (NodeTypeOK /\ ProcessInv /\ AgentInv)'
  <2>1. CASE UnlinkPid(a)
    BY <2>1, <1>6 DEF UnlinkPid, AgentStages, AtWork
  <2>2. CASE WritePid(a)
    BY <2>2, <1>0, <1>6 DEF WritePid, AgentStages, AgentRecords, AtWork
  <2>3. CASE UnlinkIdentity(a)
    <3>1. agent[a].at = "unlinkIdentity" /\ AtWork(a) /\ identityFile' = 0
          /\ pidFile' \in Pids \cup {NoPid}
          /\ UNCHANGED <<births, strayed, tangled>> /\ strayed' \in SUBSET Nat
      BY <2>3 DEF UnlinkIdentity, AtWork, NodeTypeOK
    <3>2. CASE agent[a].op = "start" /\ agent[a].child = NoPid /\ Goes(a, "spawn")
               /\ UNCHANGED process
      BY <3>1, <3>2, <1>6 DEF AgentStages
    <3>3. CASE Answers(a, agent[a].op = "stop", NoPid)
      <4>1. Answers(a, TRUE, NoPid) \/ Answers(a, FALSE, NoPid)
        BY <3>3, (agent[a].op = "stop") \in BOOLEAN DEF Answers
      <4> QED
        BY <4>1, <3>1, <1>4
    <3> QED
      BY <2>3, <3>2, <3>3 DEF UnlinkIdentity
  <2> QED
    BY <1>11, <2>1, <2>2, <2>3
<1>12. ASSUME NEW a \in Agents, Terminate(a) \/ SeesItGone(a)
       PROVE (NodeTypeOK /\ ProcessInv /\ AgentInv)'
  <2>1. AtWork(a) /\ process' = process /\ UNCHANGED <<births, Files, strayed, tangled>>
    BY <1>12 DEF Terminate, SeesItGone, AtWork
  <2>2. CASE Leaves(a)
    BY <2>1, <2>2, <1>8, NothingShrinks
  <2>3. CASE agent[a].at = "term" /\ Goes(a, "wait")
    BY <2>1, <2>3, <1>6 DEF AgentStages, Files, NodeTypeOK
  <2> QED
    BY <1>12, <2>2, <2>3 DEF Terminate, SeesItGone
<1>13. ASSUME NEW a \in Agents, Kill(a) PROVE (NodeTypeOK /\ ProcessInv /\ AgentInv)'
  BY <1>13, <1>8, KillShrinks DEF Kill, AtWork
<1>14. ASSUME NEW a \in Agents, WriteIdentity(a) PROVE (NodeTypeOK /\ ProcessInv /\ AgentInv)'
  <2> DEFINE r == [agent[a] EXCEPT !.at = "writePid"]
  <2>1. r \in AgentRecords /\ r.at = "writePid" /\ r.child = agent[a].child
        /\ r.op = agent[a].op
        /\ r.pid = agent[a].pid /\ r.since = agent[a].since
    BY <1>0 DEF AgentRecords, AgentStages
  <2>2. /\ agent' = [agent EXCEPT ![a] = r] /\ identityFile' = process[agent[a].child].birth
        /\ UNCHANGED <<process, births, pidFile, strayed, tangled>>
           /\ agent[a].at = "writeIdentity"
    BY <1>14 DEF WriteIdentity, Goes, NodeTypeOK
  <2> HIDE DEF r
  <2>3. agent' \in [Agents -> AgentRecords] /\ agent'[a] = r
        /\ \A b \in Agents \ {a} : agent'[b] = agent[b]
    BY <2>1, <2>2, AgentIsTyped
  <2>4. agent[a].child \in Pids /\ process[agent[a].child].kind = "service"
        /\ Exists(agent[a].child)
    BY <2>2, <1>0 DEF AgentKnows, AgentRecords, AtWork, Exists
  <2>5. identityFile' \in Nat
    BY <2>2, <2>4, <1>0 DEF ProcessRecords
  <2>6. NodeTypeOK'
    BY <2>2, <2>3, <2>5 DEF NodeTypeOK
  <2>7. ProcessInv'
    <3>1. identityFile' <= births
      BY <2>2, <2>4, <1>0 DEF ProcessInv
    <3> QED
      BY <3>1, <2>2, <2>4 DEF ProcessInv, Exists
  <2>8. AgentKnows(a)'
    BY <2>1, <2>2, <2>3, <1>0 DEF AgentKnows, AtWork, Exists
  <2>9. \A b \in Agents \ {a} : AgentKnows(b)'
    BY <2>2, <2>3, <1>0 DEF AgentKnows, AtWork, Exists
  <2> QED
    BY <2>6, <2>7, <2>8, <2>9 DEF AgentInv
<1> QED
  BY <1>1, <1>2, <1>3, <1>5, <1>9, <1>10, <1>11, <1>12, <1>13, <1>14 DEF NodeStep, AgentStep

-----------------------------------------------------------------------------

\* The history of strays keeps those that still run.
StraysStay == \A p \in Pids : Running(p)' /\ Strayed(p) => process'[p].birth \in strayed'

\* A process that ends is not among the strays that run.
LEMMA ExitStrays ==
    ASSUME NodeTypeOK, ProcessInv, NEW p \in Pids, ServiceExits(p) \/ OtherExits(p)
    PROVE  /\ Shrinks(NoAgent) /\ StraysStay
           /\ \A q \in Pids : Running(q)' => Running(q) /\ process'[q].birth = process[q].birth
              /\ Exists(q)
<1>0. \A q \in Pids : process[q] \in ProcessRecords
  BY DEF NodeTypeOK
<1>1. Shrinks(NoAgent)
  BY ExitShrinks
<1>2. \A q \in Pids : Running(q)' => Running(q) /\ process'[q].birth = process[q].birth
      /\ Exists(q)
  BY <1>1 DEF Shrinks, Running, Exists
<1>3. StraysStay
  <2>1. strayed \ {process[p].birth} \subseteq strayed' /\ ~Running(p)'
    <3>1. CASE ServiceExits(p)
      <4>1. process'[p] = IF process[p].parent = NoAgent THEN NoProcess
                          ELSE [process[p] EXCEPT !.life = "zombie"]
        BY <3>1 DEF ServiceExits, NodeTypeOK
      <4>2. process[p] \in ProcessRecords
        BY <1>0
      <4> QED
        BY <3>1, <4>1, <4>2 DEF ServiceExits, Running, NoProcess, ProcessRecords
    <3>2. CASE OtherExits(p)
      BY <3>2 DEF OtherExits, Running, NodeTypeOK, NoProcess
    <3> QED
      BY <3>1, <3>2
  <2>2. \A q \in Pids : Running(q)' => process[q].birth # process[p].birth
    BY <1>2, <2>1 DEF ProcessInv, ServiceExits, OtherExits, Exists
  <2> QED
    BY <1>2, <2>1, <2>2 DEF StraysStay, Strayed
<1> QED
  BY <1>1, <1>2, <1>3

\* What the files and the history tell stays true as services end.
LEMMA KnownKept ==
    ASSUME NodeTypeOK, NEW a, Shrinks(a), StraysStay
    PROVE  /\ AllStrayed => AllStrayed'
           /\ AllKnown /\ UNCHANGED Files => AllKnown'
<1>1. \A p \in Pids : Running(p)' => /\ Running(p) /\ Exists(p)' /\ Exists(p)
      /\ process'[p].birth = process[p].birth
  BY DEF Shrinks, Running, Exists
<1>2. AllStrayed => AllStrayed'
  BY <1>1 DEF AllStrayed, StraysStay, Strayed
<1>3. UNCHANGED Files => \A p \in Pids : Running(p)' /\ FoundRunning(p) => FoundRunning(p)'
  BY <1>1 DEF FoundRunning, IsRecorded, Files
<1> QED
  BY <1>1, <1>2, <1>3 DEF AllKnown, StraysStay, Strayed

\* Nothing is claimed of an agent that is not at work.
LEMMA NobodyAtWork ==
    ASSUME NEW a, ~AtWork(a) PROVE FilesTell(a)
  BY DEF FilesTell, AtWork

\* A step of an agent that works alone.
LEMMA AgentTurn ==
    ASSUME FilesInv, ~tangled, NEW a \in Agents, AtWork(a),
           \A b \in Agents \ {a} : agent'[b] = agent[b],
           FilesTell(a)', ~AtWork(a)' => AllKnown'
    PROVE  FilesInv'
<1>1. \A b \in Agents \ {a} : ~AtWork(b) /\ ~AtWork(b)'
  BY DEF FilesInv, AtWork
<1>2. \A b \in Agents \ {a} : FilesTell(b)'
  BY <1>1 DEF FilesTell, AtWork
<1> QED
  BY <1>1, <1>2 DEF FilesInv, FilesAtRest, AtWork

\* An agent that works alone answers.
LEMMA AgentAnswers ==
    ASSUME NodeTypeOK, ProcessInv, AgentInv, FilesInv, ~tangled, NEW a \in Agents, AtWork(a),
           NEW ok \in BOOLEAN, NEW pid, Answers(a, ok, pid), AllKnown,
           UNCHANGED strayed, UNCHANGED Files \/ AllStrayed
    PROVE  FilesInv'
<1>1. Shrinks(a)
  BY OrphansLeft DEF Answers
<1>2. StraysStay
  BY <1>1 DEF StraysStay, Shrinks, Strayed, Running, Exists
<1>3. AllKnown'
  BY <1>1, <1>2, KnownKept DEF AllKnown, AllStrayed
<1>4. ~AtWork(a)' /\ \A b \in Agents \ {a} : agent'[b] = agent[b]
  BY DEF Answers, AtWork, NodeTypeOK, NoWork
<1>5. FilesTell(a)'
  BY <1>4 DEF FilesTell, AtWork
<1> QED
  BY <1>3, <1>4, <1>5, AgentTurn

\* A step of the node keeps what the files tell.
LEMMA FilesStep ==
    ASSUME NodeTypeOK, ProcessInv, AgentInv, FilesInv, NodeStep
    PROVE  FilesInv'
<1> SUFFICES ASSUME ~tangled PROVE FilesInv'
  <2>1. tangled' = tangled
    <3>1. \A p \in Pids : ServiceExits(p) \/ OtherStarts(p) \/ OtherExits(p) =>
          tangled' = tangled
      BY DEF ServiceExits, OtherStarts, OtherExits
    <3>2. \A a \in Agents : AgentStep(a) \/ AgentFails(a) => tangled' = tangled
      BY DEF AgentStep, Look, Check, UnlinkPid, UnlinkIdentity, Spawn, WriteIdentity,
         WritePid, Terminate, SeesItGone, Kill, AgentFails
    <3> QED
      BY <3>1, <3>2 DEF NodeStep
  <2> QED
    BY <2>1 DEF FilesInv
<1>0. /\ \A a \in Agents : agent[a] \in AgentRecords /\ AgentKnows(a) /\ FilesTell(a)
      /\ \A p \in Pids : process[p] \in ProcessRecords
      /\ \A a, b \in Agents : AtWork(a) /\ AtWork(b) => a = b
      /\ FilesAtRest => AllKnown
  BY DEF NodeTypeOK, AgentInv, FilesInv
\* A process that begins or ends by itself.
<1>1. ASSUME UNCHANGED <<agent, Files>>, StraysStay,
             \A p \in Pids : Running(p)' => Running(p) /\ process'[p].birth = process[p].birth,
             \A p \in Pids : Running(p) => Exists(p),
             \A a \in Agents : AtWork(a) /\ agent[a].child # NoPid =>
                process'[agent[a].child].birth = process[agent[a].child].birth
      PROVE  FilesInv'
  <2>1. AllStrayed => AllStrayed'
    BY <1>1 DEF AllStrayed, StraysStay, Strayed
  <2>2. \A p \in Pids : Running(p)' /\ FoundRunning(p) => FoundRunning(p)'
    <3>1. \A p \in Pids : Running(p)' => Exists(p)'
      BY DEF Running, Exists
    <3> QED
      BY <1>1, <3>1 DEF FoundRunning, IsRecorded, Files
  <2>3. AllKnown => AllKnown'
    BY <1>1, <2>2 DEF AllKnown, StraysStay, Strayed
  <2>4. \A a \in Agents : FilesTell(a)'
    BY <1>0, <1>1, <2>1, <2>3 DEF FilesTell, AtWork, AgentKnows, Files, StraysStay, Strayed
  <2> QED
    BY <1>0, <1>1, <2>3, <2>4 DEF FilesInv, FilesAtRest, AtWork
<1>2. ASSUME NEW p \in Pids, ServiceExits(p) \/ OtherExits(p) PROVE FilesInv'
  <2>1. /\ Shrinks(NoAgent) /\ StraysStay
        /\ \A q \in Pids : Running(q)' => Running(q) /\ process'[q].birth = process[q].birth
           /\ Exists(q)
    BY <1>2, ExitStrays
  <2>4. \A a \in Agents : AtWork(a) /\ agent[a].child # NoPid =>
        process'[agent[a].child].birth = process[agent[a].child].birth
    <3>1. \A a \in Agents : AtWork(a) /\ agent[a].child # NoPid =>
             /\ agent[a].child \in Pids /\ process[agent[a].child].parent = a
                /\ process[agent[a].child].kind = "service"
             /\ a # NoAgent
      BY <1>0, AgentsAssumption DEF AgentKnows, AgentRecords
    <3> QED
      BY <2>1, <3>1 DEF Shrinks, Exists
  <2>5. UNCHANGED <<agent, Files>>
    BY <1>2 DEF ServiceExits, OtherExits, Files
  <2> QED
    BY <1>1, <2>1, <2>4, <2>5 DEF Running, Exists
<1>3. ASSUME NEW p \in Pids, OtherStarts(p) PROVE FilesInv'
  <2>1. /\ process'[p].kind = "other" /\ process[p].kind = "none"
        /\ \A q \in Pids : q # p => process'[q] = process[q]
        /\ UNCHANGED <<agent, Files, strayed>>
    BY <1>3 DEF OtherStarts, NewProcess, NodeTypeOK, Files
  <2>2. \A q \in Pids : Running(q)' => q # p /\ Running(q)
        /\ process'[q].birth = process[q].birth
    BY <2>1 DEF Running
  <2>3. StraysStay
    BY <2>1, <2>2 DEF StraysStay, Strayed
  <2>4. \A a \in Agents : AtWork(a) /\ agent[a].child # NoPid =>
        process'[agent[a].child].birth = process[agent[a].child].birth
    BY <1>0, <2>1 DEF AgentKnows, AgentRecords
  <2> QED
    BY <1>1, <2>1, <2>2, <2>3, <2>4 DEF Running, Exists
<1>4. ASSUME NEW a \in Agents, AgentStep(a) \/ AgentFails(a) PROVE AtWork(a)
  BY <1>4 DEF AgentStep, AgentFails, Look, Check, UnlinkPid, UnlinkIdentity,
         Spawn, WriteIdentity, WritePid, Terminate, SeesItGone, Kill, AtWork
\* An agent that does not touch the processes.
<1>5. ASSUME NEW a \in Agents, AtWork(a), AtWork(a)', UNCHANGED <<process, strayed>>,
             agent' = [agent EXCEPT ![a] = agent'[a]], FilesTell(a)'
      PROVE  FilesInv'
  <2>1. \A b \in Agents \ {a} : agent'[b] = agent[b]
    BY <1>5 DEF NodeTypeOK
  <2> QED
    BY <1>5, <2>1, AgentTurn
<1>6. ASSUME UNCHANGED <<process, strayed>>
      PROVE  (AllStrayed <=> AllStrayed') /\ (UNCHANGED Files => (AllKnown <=> AllKnown'))
  BY <1>6 DEF AllStrayed, AllKnown, Strayed, Running, FoundRunning, IsRecorded, Exists, Files
<1>7. ASSUME NEW a \in Agents, Look(a) PROVE FilesInv'
  <2>1. AtWork(a) /\ AllKnown /\ agent[a].at = "look" /\ UNCHANGED <<Files, strayed>>
    BY <1>0, <1>7 DEF Look, AtWork, FilesTell
  <2>2. CASE Exists(pidFile) /\ agent' = [agent EXCEPT ![a].at = "check", ![a].pid = pidFile]
             /\ UNCHANGED process
    <3>1. agent'[a].at = "check" /\ agent'[a].pid = pidFile /\ agent'[a].child = agent[a].child
          /\ AtWork(a)'
          /\ agent' = [agent EXCEPT ![a] = agent'[a]]
      BY <2>2, <1>0 DEF NodeTypeOK, AgentRecords, AtWork
    <3>2. FilesTell(a)'
      BY <3>1, <2>1, <2>2, <1>0, <1>6 DEF FilesTell, Files
    <3> QED
      BY <3>1, <3>2, <2>1, <2>2, <1>5
  <2>3. CASE ~Exists(pidFile)
    <3>1. agent[a].child = NoPid
      BY <1>0, <2>1, <2>3 DEF FilesTell, AgentKnows, AtWork, Exists, AgentRecords
    <3>2. AllStrayed
      BY <2>1, <2>3 DEF AllKnown, AllStrayed, FoundRunning
    <3>3. CASE Answers(a, TRUE, NoPid)
      BY <3>3, <2>1, AgentAnswers
    <3>4. CASE Goes(a, "unlinkPid") /\ UNCHANGED process
      <4>1. agent'[a].at = "unlinkPid" /\ agent'[a].child = agent[a].child /\ AtWork(a)'
            /\ agent' = [agent EXCEPT ![a] = agent'[a]]
        BY <3>4, <1>0 DEF NodeTypeOK, AgentRecords, AtWork, Goes
      <4>2. FilesTell(a)'
        BY <4>1, <3>1, <3>2, <2>1, <3>4, <1>6 DEF FilesTell
      <4> QED
        BY <4>1, <4>2, <2>1, <3>4, <1>5
    <3> QED
      BY <1>7, <2>3, <3>1, <3>3, <3>4 DEF Look
  <2> QED
    BY <1>7, <2>2, <2>3 DEF Look
<1>8. ASSUME NEW a \in Agents, Check(a) PROVE FilesInv'
  <2>1. AtWork(a) /\ AllKnown /\ agent[a].at = "check" /\ agent[a].pid = pidFile
        /\ UNCHANGED <<Files, strayed>>
    BY <1>0, <1>8 DEF Check, AtWork, FilesTell
  <2>2. agent[a].child # NoPid => IsRecorded(agent[a].pid) /\ agent[a].op = "start"
    <3> SUFFICES ASSUME agent[a].child # NoPid
                 PROVE IsRecorded(agent[a].pid) /\ agent[a].op = "start"
      OBVIOUS
    <3>1. agent[a].child \in Pids /\ pidFile = agent[a].child
          /\ identityFile = process[agent[a].child].birth
          /\ Exists(agent[a].child) /\ agent[a].op = "start"
      BY <1>0, <2>1 DEF FilesTell, AgentKnows, Exists, AgentRecords
    <3>2. process[agent[a].child].birth \in 1 .. births /\ births \in Nat
      BY <3>1 DEF ProcessInv, NodeTypeOK
    <3> QED
      BY <3>1, <3>2, <2>1 DEF IsRecorded
  <2>3. CASE agent[a].op = "stop"
             /\ agent' = [agent EXCEPT ![a].at = "term", ![a].since = births]
                /\ UNCHANGED process
    <3>1. agent'[a].at = "term" /\ agent'[a].pid = pidFile /\ agent'[a].child = agent[a].child
          /\ AtWork(a)'
          /\ agent' = [agent EXCEPT ![a] = agent'[a]] /\ agent'[a].op = "stop"
      BY <2>1, <2>3, <1>0 DEF NodeTypeOK, AgentRecords, AtWork
    <3>2. FilesTell(a)'
      BY <3>1, <2>1, <2>2, <2>3, <1>0, <1>6 DEF FilesTell, Files
    <3> QED
      BY <3>1, <3>2, <2>1, <2>3, <1>5
  <2>4. CASE Answers(a, TRUE, agent[a].pid) \/ Answers(a, FALSE, NoPid)
    BY <2>4, <2>1, AgentAnswers
  <2> QED
    BY <1>8, <2>2, <2>3, <2>4 DEF Check
<1>9. ASSUME NEW a \in Agents, UnlinkPid(a) PROVE FilesInv'
  <2>1. /\ agent[a].at = "unlinkPid" /\ AtWork(a) /\ AllStrayed /\ agent[a].child = NoPid
        /\ pidFile' = NoPid /\ Goes(a, "unlinkIdentity") /\ UNCHANGED <<process, strayed>>
    BY <1>0, <1>9 DEF UnlinkPid, AtWork, FilesTell
  <2>2. agent'[a].at = "unlinkIdentity" /\ agent'[a].child = NoPid /\ AtWork(a)'
        /\ agent' = [agent EXCEPT ![a] = agent'[a]]
    BY <2>1, <1>0 DEF NodeTypeOK, AgentRecords, AtWork, Goes
  <2>3. FilesTell(a)'
    BY <2>1, <2>2, <1>6 DEF FilesTell
  <2> QED
    BY <2>1, <2>2, <2>3, <1>5
<1>10. ASSUME NEW a \in Agents, UnlinkIdentity(a) PROVE FilesInv'
  <2>1. /\ agent[a].at = "unlinkIdentity" /\ AtWork(a) /\ AllStrayed /\ agent[a].child = NoPid
           /\ pidFile = NoPid
        /\ pidFile' = NoPid /\ identityFile' = 0 /\ UNCHANGED strayed
    BY <1>0, <1>10 DEF UnlinkIdentity, AtWork, FilesTell
  <2>2. CASE agent[a].op = "start" /\ Goes(a, "spawn") /\ UNCHANGED process
    <3>1. agent'[a].at = "spawn" /\ agent'[a].child = NoPid /\ AtWork(a)'
          /\ agent' = [agent EXCEPT ![a] = agent'[a]]
      BY <2>1, <2>2, <1>0 DEF NodeTypeOK, AgentRecords, AtWork, Goes
    <3>2. FilesTell(a)'
      BY <2>1, <2>2, <3>1, <1>6 DEF FilesTell
    <3> QED
      BY <2>1, <2>2, <3>1, <3>2, <1>5
  <2>3. CASE Answers(a, agent[a].op = "stop", NoPid)
    <3>1. AllKnown
      BY <2>1 DEF AllStrayed, AllKnown
    <3> QED
      BY <2>1, <2>3, <3>1, AgentAnswers, (agent[a].op = "stop") \in BOOLEAN
  <2> QED
    BY <1>10, <2>1, <2>2, <2>3 DEF UnlinkIdentity
<1>11. ASSUME NEW a \in Agents, NEW p \in Pids, Spawn(a, p) PROVE FilesInv'
  <2>1. /\ agent[a].at = "spawn" /\ AtWork(a) /\ AllStrayed /\ pidFile = NoPid
           /\ identityFile = 0
        /\ process[p].kind = "none" /\ UNCHANGED <<Files, strayed>>
        /\ \A q \in Pids : q # p => process'[q] = process[q]
    BY <1>0, <1>11 DEF Spawn, AtWork, FilesTell, NodeTypeOK
  <2>2. agent'[a].at = "writeIdentity" /\ agent'[a].child = p /\ AtWork(a)'
        /\ \A b \in Agents \ {a} : agent'[b] = agent[b]
    BY <1>11, <1>0 DEF Spawn, NodeTypeOK, AgentRecords, AtWork
  <2>3. \A q \in Pids : Running(q)' => Strayed(q)' \/ q = p
    BY <2>1 DEF AllStrayed, Strayed, Running
  <2>4. FilesTell(a)'
    BY <2>1, <2>2, <2>3 DEF FilesTell, Files
  <2> QED
    BY <2>1, <2>2, <2>4, AgentTurn
<1>12. ASSUME NEW a \in Agents, WriteIdentity(a) PROVE FilesInv'
  <2>1. /\ agent[a].at = "writeIdentity" /\ AtWork(a) /\ pidFile = NoPid
        /\ \A p \in Pids : Running(p) => Strayed(p) \/ p = agent[a].child
        /\ pidFile' = NoPid /\ identityFile' = process[agent[a].child].birth
           /\ Goes(a, "writePid")
        /\ UNCHANGED <<process, strayed>>
    BY <1>0, <1>12 DEF WriteIdentity, AtWork, FilesTell
  <2>2. agent'[a].at = "writePid" /\ agent'[a].child = agent[a].child /\ AtWork(a)'
        /\ agent' = [agent EXCEPT ![a] = agent'[a]]
    BY <2>1, <1>0 DEF NodeTypeOK, AgentRecords, AtWork, Goes
  <2>3. FilesTell(a)'
    BY <2>1, <2>2 DEF FilesTell, Running, Strayed
  <2> QED
    BY <2>1, <2>2, <2>3, <1>5
<1>13. ASSUME NEW a \in Agents, WritePid(a) PROVE FilesInv'
  <2>1. /\ agent[a].at = "writePid" /\ AtWork(a)
        /\ \A p \in Pids : Running(p) => Strayed(p) \/ p = agent[a].child
        /\ pidFile' = agent[a].child /\ identityFile = process[agent[a].child].birth
           /\ Goes(a, "look")
        /\ UNCHANGED <<process, strayed, identityFile>>
    BY <1>0, <1>13 DEF WritePid, AtWork, FilesTell
  <2>2. agent'[a].at = "look" /\ agent'[a].child = agent[a].child /\ AtWork(a)'
        /\ agent' = [agent EXCEPT ![a] = agent'[a]]
    BY <2>1, <1>0 DEF NodeTypeOK, AgentRecords, AtWork, Goes
  <2>3. AllKnown'
    <3>1. agent[a].child \in Pids /\ Exists(agent[a].child)
      BY <1>0, <2>1 DEF AgentKnows, Exists, AgentRecords
    <3>2. process[agent[a].child].birth \in 1 .. births /\ births \in Nat
      BY <3>1 DEF ProcessInv, NodeTypeOK
    <3>3. FoundRunning(agent[a].child)'
      BY <2>1, <3>1, <3>2, <2>2 DEF FoundRunning, IsRecorded, Exists
    <3> QED
      BY <2>1, <2>2, <3>3 DEF AllKnown, Strayed, Running
  <2>4. FilesTell(a)'
    BY <2>1, <2>2, <2>3 DEF FilesTell
  <2> QED
    BY <2>1, <2>2, <2>4, <1>5
\* The signals are over.
<1>14. ASSUME NEW a \in Agents, agent[a].at \in {"term", "wait"}, Leaves(a),
              UNCHANGED <<Files, strayed>>,
              Shrinks(NoAgent), Exists(pidFile)' => process'[pidFile].life # "up"
       PROVE  FilesInv'
  <2>1. AllKnown /\ agent[a].pid = pidFile /\ agent[a].child = NoPid /\ AtWork(a)
    BY <1>0, <1>14 DEF FilesTell, AtWork
  <2>2. agent'[a].at = "unlinkPid" /\ agent'[a].child = NoPid /\ AtWork(a)'
        /\ \A b \in Agents \ {a} : agent'[b] = agent[b]
    BY <2>1, <1>0, <1>14 DEF NodeTypeOK, AgentRecords, AtWork, Leaves
  <2>3. StraysStay
    BY <1>14 DEF StraysStay, Strayed, Shrinks, Running, Exists
  <2>4. AllKnown'
    BY <2>1, <2>3, <1>14, KnownKept
  <2>5. AllStrayed'
    BY <2>4, <1>14 DEF AllKnown, AllStrayed, FoundRunning, Running, Exists, Files
  <2>6. FilesTell(a)'
    BY <2>2, <2>5 DEF FilesTell
  <2> QED
    BY <2>1, <2>2, <2>6, AgentTurn
<1>15. ASSUME NEW a \in Agents, Terminate(a) \/ SeesItGone(a) PROVE FilesInv'
  <2>1. AtWork(a) /\ AllKnown /\ agent[a].at \in {"term", "wait"} /\ agent[a].pid = pidFile
        /\ UNCHANGED <<Files, strayed, process>>
    BY <1>0, <1>15 DEF Terminate, SeesItGone, AtWork, FilesTell
  <2>2. CASE ~Exists(pidFile) /\ Leaves(a)
    BY <2>1, <2>2, <1>14, NothingShrinks DEF Exists, Files
  <2>3. CASE Goes(a, "wait")
    <3>1. agent'[a].at = "wait" /\ agent'[a].pid = pidFile /\ agent'[a].child = agent[a].child
          /\ AtWork(a)'
          /\ agent' = [agent EXCEPT ![a] = agent'[a]] /\ agent'[a].op = agent[a].op
      BY <2>1, <2>3, <1>0 DEF NodeTypeOK, AgentRecords, AtWork, Goes
    <3>2. FilesTell(a)'
      BY <3>1, <2>1, <2>3, <1>0, <1>6 DEF FilesTell, Files
    <3> QED
      BY <3>1, <3>2, <2>1, <2>3, <1>5
  <2> QED
    BY <1>15, <2>1, <2>2, <2>3 DEF Terminate, SeesItGone
<1>16. ASSUME NEW a \in Agents, Kill(a) PROVE FilesInv'
  <2>1. agent[a].at = "wait" /\ agent[a].pid = pidFile /\ UNCHANGED <<Files, strayed>>
        /\ Leaves(a)
    BY <1>0, <1>16 DEF Kill, FilesTell
  <2>2. Shrinks(NoAgent) /\ process'[pidFile].life # "up"
    BY <1>16, <2>1, KillShrinks
  <2> QED
    BY <2>1, <2>2, <1>14
<1>17. ASSUME NEW a \in Agents, AgentFails(a) PROVE FilesInv'
  <2>1. Shrinks(a) /\ AtWork(a) /\ UNCHANGED Files /\ Strays(a)
    BY <1>17, OrphansLeft DEF AgentFails
  <2>2. ~AtWork(a)' /\ \A b \in Agents \ {a} : agent'[b] = agent[b]
    BY <1>17 DEF AgentFails, AtWork, NodeTypeOK, NoWork
  <2>3. strayed \subseteq strayed'
    BY <2>1 DEF Strays
  <2>4. \A p \in Pids : Running(p)' => /\ Running(p) /\ process'[p].birth = process[p].birth
    BY <2>1 DEF Shrinks, Running, Exists
  <2>5. StraysStay
    BY <2>3, <2>4 DEF StraysStay, Strayed
  <2>6. AllKnown'
    <3>1. CASE agent[a].at \in {"look", "check", "term", "wait"}
      BY <3>1, <1>0, <2>1, <2>5, KnownKept DEF FilesTell
    <3>2. CASE agent[a].at \in {"unlinkPid", "unlinkIdentity", "spawn"}
      BY <3>2, <1>0, <2>1, <2>5, KnownKept DEF FilesTell, AllKnown, AllStrayed
    <3>3. CASE agent[a].at \in {"writeIdentity", "writePid"}
      <4>1. \A p \in Pids : Running(p) => Strayed(p) \/ p = agent[a].child
        BY <3>3, <1>0 DEF FilesTell
      <4>2. Running(agent[a].child) => process[agent[a].child].birth \in strayed'
        BY <3>3, <2>1 DEF Strays
      <4>3. AllStrayed'
        BY <4>1, <4>2, <2>3, <2>4 DEF AllStrayed, Strayed
      <4> QED
        BY <4>3 DEF AllKnown, AllStrayed
    <3> QED
      BY <3>1, <3>2, <3>3, <1>0, <2>1 DEF AgentRecords, AgentStages, AtWork
  <2>7. FilesTell(a)'
    BY <2>2 DEF FilesTell, AtWork
  <2> QED
    BY <2>1, <2>2, <2>6, <2>7, AgentTurn
<1> QED
  BY <1>2, <1>3, <1>7, <1>8, <1>9, <1>10, <1>11, <1>12, <1>13, <1>15, <1>16, <1>17 DEF NodeStep,
     AgentStep

-----------------------------------------------------------------------------

\* An agent that begins, at the request of a command.
LEMMA BeginStep ==
    ASSUME NodeTypeOK, ProcessInv, AgentInv, FilesInv,
           NEW a \in Agents, ~AtWork(a), NEW op \in {"start", "stop"}, AgentBegins(a, op)
    PROVE  /\ (NodeTypeOK /\ ProcessInv /\ AgentInv /\ FilesInv)'
           /\ agent'[a].at = "look" /\ agent'[a].op = op
           /\ \A b \in Agents \ {a} : agent'[b] = agent[b]
<1> DEFINE r == [NoWork EXCEPT !.op = op, !.at = "look"]
<1>1. r \in AgentRecords /\ r.at = "look" /\ r.op = op /\ r.child = NoPid /\ r.since = 0
  BY DEF AgentRecords, AgentStages, NoWork
<1>2. agent' = [agent EXCEPT ![a] = r] /\ tangled' = (tangled \/ \E b \in Agents : AtWork(b))
      /\ UNCHANGED <<process, births, pidFile, identityFile, strayed>>
  BY DEF AgentBegins
<1> HIDE DEF r
<1>3. agent' \in [Agents -> AgentRecords] /\ agent'[a] = r
      /\ \A b \in Agents \ {a} : agent'[b] = agent[b]
  BY <1>1, <1>2, AgentIsTyped
<1>4. tangled' \in BOOLEAN
  BY <1>2, (tangled \/ \E b \in Agents : AtWork(b)) \in BOOLEAN DEF NodeTypeOK
<1>5. NodeTypeOK'
  BY <1>2, <1>3, <1>4 DEF NodeTypeOK
<1>6. ProcessInv'
  BY <1>2 DEF ProcessInv, Exists
<1>7. AgentInv'
  BY <1>1, <1>2, <1>3 DEF AgentInv, AgentKnows, AtWork, Exists, NodeTypeOK
<1>8. FilesInv'
  <2> SUFFICES ASSUME ~tangled' PROVE FilesInv'
    BY DEF FilesInv
  <2>1. ~tangled /\ \A b \in Agents : ~AtWork(b)
    BY <1>2
  <2>2. AllKnown'
    BY <1>2, <2>1 DEF FilesInv, FilesAtRest, AllKnown, Strayed, Running, FoundRunning,
       IsRecorded, Exists
  <2>3. \A b \in Agents \ {a} : ~AtWork(b)'
    BY <1>3, <2>1 DEF AtWork
  <2>4. \A b \in Agents \ {a} : FilesTell(b)'
    BY <2>3 DEF FilesTell, AtWork
  <2>5. FilesTell(a)'
    BY <1>1, <1>3, <2>2 DEF FilesTell
  <2> QED
    BY <2>2, <2>3, <2>4, <2>5 DEF FilesInv
<1> QED
  BY <1>1, <1>3, <1>5, <1>6, <1>7, <1>8

\* What a step of the node does to the services that run.
ServicesStay ==
    /\ StraysStay
    /\ \A p \in Pids : Running(p)' => Running(p) /\ process'[p].birth = process[p].birth

LEMMA NodeStepServices ==
    ASSUME NodeTypeOK, ProcessInv, AgentInv, NodeStep
    PROVE  tangled' = tangled /\ (ServicesStay \/ \E a \in Agents, p \in Pids : Spawn(a, p))
<1>1. ASSUME NEW a, Shrinks(a), strayed \subseteq strayed' PROVE ServicesStay
  BY <1>1 DEF ServicesStay, StraysStay, Strayed, Shrinks, Running, Exists
<1>2. ASSUME NEW p \in Pids, ServiceExits(p) \/ OtherExits(p)
      PROVE tangled' = tangled /\ ServicesStay
  BY <1>2, ExitStrays DEF ServicesStay, ServiceExits, OtherExits
<1>3. ASSUME NEW p \in Pids, OtherStarts(p) PROVE tangled' = tangled /\ ServicesStay
  <2>1. /\ process'[p].kind = "other" /\ process[p].kind = "none"
        /\ \A q \in Pids : q # p => process'[q] = process[q]
        /\ UNCHANGED <<strayed, tangled>>
    BY <1>3 DEF OtherStarts, NewProcess, NodeTypeOK
  <2>2. \A q \in Pids : Running(q)' => q # p /\ Running(q)
        /\ process'[q].birth = process[q].birth
    BY <2>1 DEF Running
  <2> QED
    BY <2>1, <2>2 DEF ServicesStay, StraysStay, Strayed
<1>4. ASSUME NEW a \in Agents, \E ok \in BOOLEAN,
             pid \in Pids \cup {NoPid} : Answers(a, ok, pid),
             UNCHANGED <<strayed, tangled>>
      PROVE tangled' = tangled /\ ServicesStay
  <2>1. process' = Orphaned(a)
    BY <1>4 DEF Answers
  <2> QED
    BY <1>1, <1>4, <2>1, OrphansLeft
<1>5. ASSUME UNCHANGED <<process, strayed, tangled>> PROVE tangled' = tangled /\ ServicesStay
  BY <1>1, <1>5, NothingShrinks
<1>6. ASSUME NEW a \in Agents, AgentFails(a) PROVE tangled' = tangled /\ ServicesStay
  <2>1. strayed \subseteq strayed' /\ tangled' = tangled
    BY <1>6 DEF AgentFails, Strays
  <2> QED
    BY <1>1, <1>6, <2>1, OrphansLeft DEF AgentFails
<1>7. ASSUME NEW a \in Agents, Look(a) PROVE tangled' = tangled /\ ServicesStay
  BY <1>7, <1>4, <1>5 DEF Look
<1>8. ASSUME NEW a \in Agents, Check(a) PROVE tangled' = tangled /\ ServicesStay
  <2>1. agent[a].pid \in Pids \cup {NoPid}
    BY DEF NodeTypeOK, AgentRecords
  <2> QED
    BY <1>8, <1>4, <1>5, <2>1 DEF Check
<1>9. ASSUME NEW a \in Agents, UnlinkIdentity(a) PROVE tangled' = tangled /\ ServicesStay
  <2>1. (agent[a].op = "stop") \in BOOLEAN
    OBVIOUS
  <2> QED
    BY <1>9, <1>4, <1>5, <2>1 DEF UnlinkIdentity
<1>10. ASSUME NEW a \in Agents, UnlinkPid(a) \/ WriteIdentity(a) \/ WritePid(a) \/ Terminate(a)
              \/ SeesItGone(a)
       PROVE tangled' = tangled /\ ServicesStay
  BY <1>10, <1>5 DEF UnlinkPid, WriteIdentity, WritePid, Terminate, SeesItGone
<1>11. ASSUME NEW a \in Agents, Kill(a) PROVE tangled' = tangled /\ ServicesStay
  BY <1>11, <1>1, KillShrinks DEF Kill
<1>12. ASSUME NEW a \in Agents, NEW p \in Pids, Spawn(a, p) PROVE tangled' = tangled
  BY <1>12 DEF Spawn
<1> QED
  BY <1>2, <1>3, <1>6, <1>7, <1>8, <1>9, <1>10, <1>11, <1>12 DEF NodeStep, AgentStep

\* What a step of the node does to the agents.
LEMMA NodeStepAgents ==
    ASSUME NodeTypeOK, ProcessInv, AgentInv, FilesInv, NodeStep, NEW a \in Agents
    PROVE  /\ AtWork(a)' => AtWork(a)
           /\ agent'[a].op = agent[a].op
           /\ ~tangled /\ agent'[a].at = "done" /\ agent'[a].op = "stop" /\ agent'[a].ok
                 => AllStrayed \/ agent'[a] = agent[a]
<1>0. /\ \A b \in Agents : agent[b] \in AgentRecords /\ AgentKnows(b)
      /\ \A b \in Agents : ~tangled => FilesTell(b)
  BY DEF NodeTypeOK, AgentInv, FilesInv
<1> DEFINE Goal == /\ AtWork(a)' => AtWork(a)
                   /\ agent'[a].op = agent[a].op
                   /\ ~tangled /\ agent'[a].at = "done" /\ agent'[a].op = "stop" /\ agent'[a].ok
                         => AllStrayed \/ agent'[a] = agent[a]
<1> SUFFICES Goal
  OBVIOUS
<1>1. ASSUME agent'[a] = agent[a] PROVE Goal
  BY <1>1 DEF AtWork
<1>2. ASSUME AtWork(a), agent'[a].op = agent[a].op, agent'[a].at # "done" PROVE Goal
  BY <1>2
<1>3. ASSUME AtWork(a), agent'[a].op = agent[a].op,
             ~tangled /\ agent[a].op = "stop" /\ agent'[a].ok => AllStrayed
      PROVE  Goal
  BY <1>3
<1> HIDE DEF Goal
<1>4. ASSUME NEW p \in Pids, ServiceExits(p) \/ OtherStarts(p) \/ OtherExits(p) PROVE Goal
  BY <1>4, <1>1 DEF ServiceExits, OtherStarts, OtherExits
<1>5. ASSUME NEW b \in Agents \ {a}, AgentStep(b) \/ AgentFails(b) PROVE Goal
  <2>1. agent'[a] = agent[a]
    BY <1>5 DEF AgentStep, Look, Check, UnlinkPid, UnlinkIdentity, Spawn, WriteIdentity,
       WritePid,
       Terminate, SeesItGone, Kill, AgentFails, Goes, Answers, Leaves, NodeTypeOK
  <2> QED
    BY <2>1, <1>1
<1>6. CASE Look(a)
  <2>1. AtWork(a) /\ agent[a].at = "look"
    BY <1>6 DEF Look, AtWork
  <2>2. CASE Exists(pidFile)
    BY <1>0, <1>2, <1>6, <2>1, <2>2 DEF Look, NodeTypeOK, AgentRecords
  <2>3. CASE ~Exists(pidFile)
    <3>1. ~tangled => AllStrayed
      BY <1>0, <2>1, <2>3 DEF FilesTell, AllKnown, AllStrayed, FoundRunning
    <3>2. CASE Answers(a, TRUE, NoPid)
      BY <1>0, <3>1, <3>2, <2>1, <1>3 DEF Answers, NoWork, NodeTypeOK
    <3>3. CASE Goes(a, "unlinkPid")
               \/ agent' = [agent EXCEPT ![a].at = "term", ![a].pid = agent[a].child,
                  ![a].since = births]
      BY <1>0, <1>2, <2>1, <3>3 DEF Goes, NodeTypeOK, AgentRecords
    <3> QED
      BY <1>6, <2>3, <3>2, <3>3 DEF Look
  <2> QED
    BY <2>2, <2>3
<1>7. CASE Check(a)
  <2>1. AtWork(a)
    BY <1>7 DEF Check, AtWork
  <2>2. CASE (Answers(a, TRUE, agent[a].pid) /\ agent[a].op # "stop")
             \/ Answers(a, FALSE, NoPid)
    BY <1>0, <2>1, <2>2, <1>3 DEF Answers, NoWork, NodeTypeOK
  <2>3. CASE \/ agent' = [agent EXCEPT ![a].at = "term", ![a].since = births]
             \/ agent' = [agent EXCEPT ![a].at = "term", ![a].pid = agent[a].child,
                ![a].since = births]
    BY <1>0, <1>2, <2>1, <2>3 DEF NodeTypeOK, AgentRecords
  <2> QED
    BY <1>7, <2>2, <2>3 DEF Check
<1>8. CASE UnlinkIdentity(a)
  <2>1. AtWork(a) /\ (~tangled => AllStrayed)
    BY <1>0, <1>8 DEF UnlinkIdentity, AtWork, FilesTell
  <2>2. CASE Answers(a, agent[a].op = "stop", NoPid)
    BY <1>0, <2>1, <2>2, <1>3 DEF Answers, NoWork, NodeTypeOK
  <2>3. CASE Goes(a, "spawn")
    BY <1>0, <1>2, <2>1, <2>3 DEF Goes, NodeTypeOK, AgentRecords
  <2> QED
    BY <1>8, <2>2, <2>3 DEF UnlinkIdentity
<1>9. CASE UnlinkPid(a) \/ WriteIdentity(a) \/ WritePid(a) \/ Terminate(a) \/ SeesItGone(a)
           \/ Kill(a)
  <2>1. AtWork(a)
    BY <1>9 DEF UnlinkPid, WriteIdentity, WritePid, Terminate, SeesItGone, Kill, AtWork
  <2>2. CASE Leaves(a)
    BY <1>0, <1>2, <2>1, <2>2 DEF Leaves, NodeTypeOK, AgentRecords
  <2>3. CASE \E at \in AgentStages \ {"done"} : Goes(a, at)
    BY <1>0, <1>2, <2>1, <2>3 DEF Goes, NodeTypeOK, AgentRecords
  <2> QED
    BY <1>9, <2>2, <2>3 DEF UnlinkPid, WriteIdentity, WritePid, Terminate, SeesItGone, Kill,
       AgentStages
<1>10. CASE AgentFails(a)
  <2>1. agent'[a].op = agent[a].op /\ ~agent'[a].ok /\ AtWork(a)
    BY <1>10, <1>0 DEF AgentFails, NoWork, NodeTypeOK
  <2> QED
    BY <2>1 DEF Goal
<1>11. ASSUME NEW p \in Pids, Spawn(a, p) PROVE Goal
  BY <1>0, <1>2, <1>11 DEF Spawn, NodeTypeOK, AgentRecords, AtWork
<1>12. ASSUME AgentStep(a) \/ AgentFails(a) PROVE Goal
  <2>1. (\E p \in Pids : Spawn(a, p)) => Goal
    BY <1>11
  <2>2. Look(a) \/ Check(a) \/ UnlinkIdentity(a) \/ UnlinkPid(a) \/ WriteIdentity(a)
        \/ WritePid(a)
        \/ Terminate(a) \/ SeesItGone(a) \/ Kill(a) \/ AgentFails(a)
           \/ (\E p \in Pids : Spawn(a, p))
    BY <1>12 DEF AgentStep
  <2> QED
    BY <2>1, <2>2, <1>6, <1>7, <1>8, <1>9, <1>10
<1>13. Goal
  BY <1>4, <1>5, <1>12 DEF NodeStep
<1> QED
  BY <1>13

-----------------------------------------------------------------------------

\* What is known of the commands and of their record.
HostInv == HostTypeOK /\ CommandInv /\ RecordInv

\* The services that a record or a history tells of.
LEMMA StillTold ==
    ASSUME UNCHANGED nodeVars
    PROVE  /\ untold \subseteq untold' /\ AllTold => AllTold'
           /\ AllStrayed => AllTold'
           /\ Births \subseteq untold' => AllTold'
           /\ AllStrayed <=> AllStrayed'
  BY DEF nodeVars, AllTold, AllStrayed, Strayed, Running, Births

\* The only command under way has started nothing that the record does not tell of.
LEMMA ToldWhileNotTrying ==
    ASSUME RecordInv, ~tangled, ~crossed, record = "stopped", NEW c \in Commands,
           ~Trying(c), \A d \in Commands \ {c} : ~UnderWay(d)
    PROVE  AllTold
<1>1. \A d \in Commands \ {c} : ~Trying(d)
  BY DEF Trying, UnderWay
<1> QED
  BY <1>1 DEF RecordInv

\* A command that goes on without asking for an agent.
LEMMA CommandTurn ==
    ASSUME HostInv, UNCHANGED nodeVars, NEW c \in Commands, NEW r \in CommandRecords,
           command' = [command EXCEPT ![c] = r],
           record' \in StatusRecords, begun' \in Nat, untold' \in SUBSET Nat,
              crossed' \in BOOLEAN,
           ~tangled /\ ~crossed' => \A d \in Commands \ {c} : ~UnderWay(d),
           r.at # "await" /\ r.agent = NoAgent, r.op = "none" <=> r.at = "none",
           r.at = "poll" => r.op = "up", r.at = "ask" => r.seen = record',
           ~tangled /\ ~crossed' /\ r.at = "save" /\ r.result = "stopped" => AllTold',
           ~tangled /\ ~crossed' /\ record' = "stopped" /\ ~Trying(c)' => AllTold'
    PROVE  HostInv'
<1>1. command' \in [Commands -> CommandRecords] /\ command'[c] = r
      /\ \A d \in Commands \ {c} : command'[d] = command[d]
  BY DEF HostInv, HostTypeOK
<1>2. HostTypeOK'
  BY <1>1 DEF HostTypeOK
<1>3. CommandInv'
  BY <1>1 DEF HostInv, CommandInv, nodeVars
<1>4. RecordInv'
  <2> SUFFICES ASSUME ~tangled, ~crossed' PROVE RecordInv'
    BY DEF RecordInv, nodeVars
  <2>1. \A d \in Commands \ {c} : command'[d].op = "none" /\ command'[d].at = "none"
    BY <1>1 DEF UnderWay, HostInv, CommandInv
  <2>2. (\A d \in Commands : ~Trying(d)') => ~Trying(c)'
    OBVIOUS
  <2> QED
    BY <1>1, <2>1, <2>2 DEF RecordInv, UnderWay
<1> QED
  BY <1>2, <1>3, <1>4 DEF HostInv

\* A command has its result.
LEMMA ConcludeStep ==
    ASSUME HostInv, UNCHANGED nodeVars, NEW c \in Commands, NEW result \in StatusRecords,
           command[c].op \in {"up", "down", "init"}, Concludes(c, result),
           UNCHANGED Host, untold' \in SUBSET Nat,
           ~tangled /\ ~crossed /\ (\A d \in Commands \ {c} : ~UnderWay(d))
              /\ result = "stopped" => AllTold',
           ~tangled /\ ~crossed /\ (\A d \in Commands \ {c} : ~UnderWay(d))
              /\ record = "stopped" /\ command[c].op # "up" => AllTold'
    PROVE  HostInv'
<1> DEFINE r == [NoCommand EXCEPT !.op = command[c].op, !.at = "save", !.result = result]
<1>1. r \in CommandRecords /\ r.op = command[c].op /\ r.at = "save" /\ r.result = result
      /\ r.agent = NoAgent
  BY DEF CommandRecords, StatusRecords, NoCommand
<1>2. command' = [command EXCEPT ![c] = r]
  BY DEF Concludes
<1> HIDE DEF r
<1>3. command'[c] = r
  BY <1>2 DEF HostInv, HostTypeOK
<1>4. ~tangled /\ ~crossed => \A d \in Commands \ {c} : ~UnderWay(d)
  BY DEF HostInv, RecordInv, UnderWay
<1>5. record' \in StatusRecords /\ begun' \in Nat /\ crossed' \in BOOLEAN /\ crossed' = crossed
      /\ record' = record
  BY DEF Host, HostInv, HostTypeOK
<1>6. ~tangled /\ ~crossed' /\ r.at = "save" /\ r.result = "stopped" => AllTold'
  BY <1>1, <1>4, <1>5
<1>7. Trying(c)' <=> r.op = "up" /\ r.result # "stopped"
  BY <1>1, <1>3 DEF Trying
<1>8. ~tangled /\ ~crossed' /\ record' = "stopped" /\ ~Trying(c)' => AllTold'
  BY <1>1, <1>4, <1>5, <1>7
<1> QED
  BY <1>1, <1>2, <1>4, <1>5, <1>6, <1>8, CommandTurn

\* A command that keeps what it loaded, before it has started anything.
LEMMA KeepStep ==
    ASSUME HostInv, UNCHANGED nodeVars, NEW c \in Commands,
           command[c].op \in {"up", "down", "init"}, Concludes(c, command[c].seen),
           UNCHANGED <<Host, untold>>,
           command[c].at = "ask" \/ (command[c].at = "await" /\ command[c].op # "up")
    PROVE  HostInv'
<1>1. command[c].seen \in StatusRecords /\ untold' \in SUBSET Nat
  BY DEF HostInv, HostTypeOK, CommandRecords
<1>2. ~Trying(c)
  BY DEF Trying
<1>3. ASSUME ~tangled, ~crossed, \A d \in Commands \ {c} : ~UnderWay(d), record = "stopped"
      PROVE  AllTold'
  BY <1>2, <1>3, ToldWhileNotTrying, StillTold DEF HostInv
<1>4. ~tangled /\ ~crossed => command[c].seen = record
  BY DEF HostInv, RecordInv
<1> QED
  BY <1>1, <1>3, <1>4, ConcludeStep

\* A command asks for an agent.
LEMMA AskStep ==
    ASSUME NodeTypeOK, ProcessInv, AgentInv, FilesInv, HostInv,
           NEW c \in Commands, NEW a \in Agents, Ask(c, a)
    PROVE  (NodeTypeOK /\ ProcessInv /\ AgentInv /\ FilesInv /\ HostInv)'
<1> DEFINE op == IF command[c].op = "up" THEN "start" ELSE "stop"
<1>1. /\ ~AtWork(a) /\ ~Awaited(a) /\ op \in {"start", "stop"} /\ AgentBegins(a, op)
      /\ command[c].at = "ask" /\ command[c].op \in {"up", "down"}
      /\ command[c].op = "down" => op = "stop"
  BY DEF Ask
<1> HIDE DEF op
<1>2. /\ (NodeTypeOK /\ ProcessInv /\ AgentInv /\ FilesInv)'
      /\ agent'[a].at = "look" /\ agent'[a].op = op
      /\ \A b \in Agents \ {a} : agent'[b] = agent[b]
  BY <1>1, BeginStep
<1> DEFINE r == [command[c] EXCEPT !.at = "await", !.agent = a]
<1>3. r \in CommandRecords /\ r.op = command[c].op /\ r.at = "await"
      /\ r.seen = command[c].seen /\ r.agent = a
  BY DEF HostInv, HostTypeOK, CommandRecords
<1>4. command' = [command EXCEPT ![c] = r] /\ UNCHANGED <<Host, untold>>
  BY DEF Ask, HostInv, HostTypeOK, CommandRecords
<1> HIDE DEF r
<1>5. command' \in [Commands -> CommandRecords] /\ command'[c] = r
      /\ \A d \in Commands \ {c} : command'[d] = command[d]
  BY <1>3, <1>4 DEF HostInv, HostTypeOK
<1>6. HostTypeOK'
  BY <1>4, <1>5 DEF HostInv, HostTypeOK, Host
<1>7. CommandInv'
  <2>1. \A d \in Commands \ {c} : command[d].agent # a
    BY <1>1 DEF Awaited
  <2> QED
    BY <1>1, <1>2, <1>3, <1>5, <2>1 DEF HostInv, CommandInv
<1>8. RecordInv'
  <2> SUFFICES ASSUME ~tangled', ~crossed' PROVE RecordInv'
    BY DEF RecordInv
  <2>1. /\ ~tangled /\ ~crossed /\ record' = record /\ UNCHANGED <<process, strayed, untold>>
        /\ \A b \in Agents : ~AtWork(b)
    BY <1>1, <1>4 DEF AgentBegins, Host
  <2>2. UnderWay(c) /\ \A d \in Commands \ {c} : ~UnderWay(d)
    BY <1>1, <2>1 DEF HostInv, RecordInv, UnderWay
  <2>3. \A d \in Commands \ {c} : command'[d].op = "none" /\ command'[d].at = "none"
    BY <1>5, <2>2 DEF UnderWay, HostInv, CommandInv
  <2>4. \A b \in Agents : AtWork(b)' => b = a
    BY <1>2, <2>1 DEF AtWork
  <2>5. command[c].seen = record
    BY <1>1, <2>1 DEF HostInv, RecordInv
  <2>6. ~Trying(c)
    BY <1>1 DEF Trying
  <2>7. record = "stopped" => AllTold
    BY <2>1, <2>2, <2>6, ToldWhileNotTrying DEF HostInv
  <2>8. AllTold => AllTold'
    BY <2>1 DEF AllTold, Running
  <2> QED
    BY <1>2, <1>3, <1>5, <2>1, <2>3, <2>4, <2>5, <2>7, <2>8 DEF RecordInv, UnderWay
<1> QED
  BY <1>2, <1>6, <1>7, <1>8 DEF HostInv

\* A step of the node, as the commands see it.
LEMMA NodeTurnStep ==
    ASSUME NodeTypeOK, ProcessInv, AgentInv, FilesInv, HostInv, NodeTurn
    PROVE  (NodeTypeOK /\ ProcessInv /\ AgentInv /\ FilesInv /\ HostInv)'
<1>1. /\ NodeStep /\ UNCHANGED <<record, command, begun, crossed>>
      /\ Births' \cap untold \subseteq untold'
      /\ untold' \subseteq Births'
  BY DEF NodeTurn
<1>2. (NodeTypeOK /\ ProcessInv /\ AgentInv /\ FilesInv)'
  BY <1>1, NodeBasicStep, FilesStep
<1>3. HostTypeOK'
  <2>1. Births' \in SUBSET Nat
    BY <1>2 DEF Births, NodeTypeOK, ProcessRecords
  <2> QED
    BY <1>1, <2>1 DEF HostInv, HostTypeOK
<1>4. tangled' = tangled /\ (ServicesStay \/ \E a \in Agents, p \in Pids : Spawn(a, p))
  BY <1>1, NodeStepServices
<1>5. \A a \in Agents :
           /\ AtWork(a)' => AtWork(a)
           /\ agent'[a].op = agent[a].op
           /\ ~tangled /\ agent'[a].at = "done" /\ agent'[a].op = "stop" /\ agent'[a].ok
                 => AllStrayed \/ agent'[a] = agent[a]
  BY <1>1, NodeStepAgents
<1>6. CommandInv'
  BY <1>1, <1>5 DEF HostInv, CommandInv
<1>7. RecordInv'
  <2> SUFFICES ASSUME ~tangled, ~crossed PROVE RecordInv'
    BY <1>1, <1>4 DEF RecordInv
  <2>0. /\ \A c, d \in Commands : UnderWay(c) /\ UnderWay(d) => c = d
        /\ \A c \in Commands :
              /\ command[c].at \in {"ask", "await"} => command[c].seen = record
              /\ command[c].at = "await" => \A b \in Agents : AtWork(b) => b = command[c].agent
              /\ /\ command[c].at = "await" /\ command[c].op = "down"
                 /\ agent[command[c].agent].at = "done" /\ agent[command[c].agent].ok
                 => AllStrayed
              /\ command[c].at = "save" /\ command[c].result = "stopped" => AllTold
        /\ record = "stopped" /\ (\A c \in Commands : ~Trying(c)) => AllTold
    BY DEF HostInv, RecordInv
  <2>1. ServicesStay /\ AllStrayed => AllStrayed'
    BY DEF ServicesStay, StraysStay, AllStrayed, Strayed
  <2>2. ServicesStay /\ AllTold => AllTold'
    <3>1. \A p \in Pids : Running(p)' => process'[p].birth \in Births'
      BY DEF Births, Running
    <3> QED
      BY <1>1, <3>1 DEF ServicesStay, StraysStay, AllTold, Strayed
  <2>3. ASSUME NEW a \in Agents, NEW p \in Pids, Spawn(a, p), ~Awaited(a), RecordForgets,
               AllTold PROVE AllTold'
    <3>1. untold' = Births' \cap (untold \cup {births'})
      BY <2>3 DEF NodeTurn
    <3>2. /\ births' = births + 1 /\ UNCHANGED strayed /\ process'[p].birth = births + 1
             /\ process'[p].kind = "service"
          /\ \A q \in Pids : q # p => process'[q] = process[q]
      BY <2>3 DEF Spawn, NewProcess, NodeTypeOK
    <3>3. \A q \in Pids : Running(q)' => process'[q].birth \in Births'
      BY DEF Births, Running
    <3> QED
      BY <2>3, <3>1, <3>2, <3>3 DEF AllTold, Running
  <2>4. ASSUME NEW a \in Agents, NEW p \in Pids, Spawn(a, p), Awaited(a), a \in Agents
        PROVE  \E c \in Commands : command[c].at = "await" /\ command[c].op = "up"
               /\ command[c].agent = a
    <3>1. PICK c \in Commands : command[c].agent = a
      BY <2>4 DEF Awaited
    <3>2. command[c].at = "await" /\ command[c].op \in {"up", "down"}
          /\ (command[c].op = "down" => agent[a].op = "stop")
      BY <3>1, AgentsAssumption DEF HostInv, CommandInv
    <3>3. agent[a].op = "start"
      BY <2>4 DEF Spawn, AgentInv, AgentKnows
    <3> QED
      BY <3>1, <3>2, <3>3
  <2>5. ASSUME NEW c \in Commands, command[c].at = "await", command[c].op = "down",
               agent'[command[c].agent].at = "done", agent'[command[c].agent].ok
        PROVE  AllStrayed'
    <3>1. command[c].agent \in Agents /\ agent[command[c].agent].op = "stop"
      BY <2>5 DEF HostInv, CommandInv
    <3>2. AllStrayed
      BY <1>5, <2>0, <2>5, <3>1
    <3>3. \A a \in Agents, p \in Pids : ~Spawn(a, p)
      <4> SUFFICES ASSUME NEW a \in Agents, NEW p \in Pids, Spawn(a, p) PROVE FALSE
        OBVIOUS
      <4>1. AtWork(a) /\ agent[a].op = "start"
        BY DEF Spawn, AtWork, AgentInv, AgentKnows
      <4> QED
        BY <2>0, <2>5, <3>1, <4>1
    <3> QED
      BY <1>4, <2>1, <3>2, <3>3
  <2>6. ASSUME NEW c \in Commands, command[c].at = "save", command[c].result = "stopped"
        PROVE AllTold'
    <3>1. AllTold /\ RecordForgets /\ UnderWay(c)
      BY <2>0, <2>6 DEF RecordForgets, UnderWay, HostInv, CommandInv
    <3>2. \A a \in Agents, p \in Pids : Spawn(a, p) => ~Awaited(a)
      BY <2>0, <2>4, <2>6, <3>1 DEF UnderWay
    <3> QED
      BY <1>4, <2>2, <2>3, <3>1, <3>2
  <2>7. ASSUME record = "stopped", \A c \in Commands : ~Trying(c) PROVE AllTold'
    <3>1. AllTold /\ RecordForgets
      BY <2>0, <2>7 DEF RecordForgets
    <3>2. \A a \in Agents, p \in Pids : Spawn(a, p) => ~Awaited(a)
      BY <2>4, <2>7 DEF Trying
    <3> QED
      BY <1>4, <2>2, <2>3, <3>1, <3>2
  <2>8. \A c \in Commands : Trying(c)' <=> Trying(c)
    BY <1>1 DEF Trying
  <2>9. \A c \in Commands : command[c].at = "await" => \A b \in Agents : AtWork(b)' =>
        b = command[c].agent
    BY <1>5, <2>0
  <2> QED
    BY <1>1, <2>0, <2>5, <2>6, <2>7, <2>8, <2>9 DEF RecordInv, UnderWay
<1> QED
  BY <1>2, <1>3, <1>6, <1>7 DEF HostInv

\* The other steps of a command.
LEMMA CommandOnlyStep ==
    ASSUME NodeTypeOK, HostInv, NEW c \in Commands,
           \/ PassesBy(c) \/ CannotStart(c) \/ InitChanged(c) \/ InitKeeps(c)
           \/ TakeAnswer(c) \/ LosesAgent(c) \/ Ready(c) \/ ExitedBeforeReady(c)
              \/ NotReadyInTime(c)
           \/ Save(c) \/ CommandDies(c) \/ \E op \in {"up", "down", "init"} : Begin(c, op)
    PROVE  HostInv' /\ UNCHANGED nodeVars
<1>0. /\ command[c] \in CommandRecords /\ record \in StatusRecords /\ untold \in SUBSET Nat
         /\ Births \in SUBSET Nat
      /\ begun \in Nat /\ crossed \in BOOLEAN
  BY DEF HostInv, HostTypeOK, NodeTypeOK, Births, ProcessRecords
<1>1. UNCHANGED nodeVars
  BY DEF PassesBy, CannotStart, InitChanged, InitKeeps, TakeAnswer, LosesAgent, Ready,
     ExitedBeforeReady,
     NotReadyInTime, Save, CommandDies, Begin
<1> USE <1>1
\* An up that reports a failure, or that the service runs.
<1>2. ASSUME NEW result \in {"failed", "running"}, Concludes(c, result), command[c].op = "up",
             UNCHANGED <<Host, untold>>
      PROVE  HostInv'
  BY <1>0, <1>2, ConcludeStep DEF StatusRecords
<1>3. CASE PassesBy(c) \/ InitKeeps(c)
  BY <1>3, KeepStep DEF PassesBy, InitKeeps, Host
<1>4. CASE CannotStart(c) \/ Ready(c) \/ ExitedBeforeReady(c) \/ NotReadyInTime(c)
  <2>1. command[c].op = "up"
    BY <1>4 DEF CannotStart, Ready, ExitedBeforeReady, NotReadyInTime, HostInv, CommandInv
  <2> QED
    BY <1>4, <2>1, <1>2 DEF CannotStart, Ready, ExitedBeforeReady, NotReadyInTime
<1>5. CASE InitChanged(c)
  <2>1. /\ command[c].at = "ask" /\ command[c].op = "init" /\ Concludes(c, "stopped")
           /\ UNCHANGED Host
        /\ command[c].seen \in {"failed", "stopped"} /\ untold \subseteq untold'
           /\ untold' \in SUBSET Nat
        /\ command[c].seen = "failed" => Births \subseteq untold'
    BY <1>0, <1>5 DEF InitChanged, CommandRecords, StatusRecords
  <2>2. ASSUME ~tangled, ~crossed, \A d \in Commands \ {c} : ~UnderWay(d) PROVE AllTold'
    <3>1. CASE command[c].seen = "failed"
      BY <2>1, <3>1, StillTold
    <3>2. CASE command[c].seen = "stopped"
      <4>1. record = "stopped"
        BY <2>1, <2>2, <3>2 DEF HostInv, RecordInv
      <4>2. ~Trying(c)
        BY <2>1 DEF Trying
      <4> QED
        BY <2>1, <2>2, <4>1, <4>2, ToldWhileNotTrying, StillTold DEF HostInv
    <3> QED
      BY <2>1, <3>1, <3>2
  <2>3. "stopped" \in StatusRecords
    BY DEF StatusRecords
  <2> QED
    BY <2>1, <2>2, <2>3, ConcludeStep
<1>6. CASE TakeAnswer(c)
  <2> DEFINE answer == agent[command[c].agent]
  <2>1. /\ command[c].at = "await" /\ answer.at = "done" /\ command[c].op \in {"up", "down"}
           /\ UNCHANGED <<Host, untold>>
        /\ command[c].agent \in Agents /\ answer.pid \in Pids \cup {NoPid}
    BY <1>6 DEF TakeAnswer, HostInv, CommandInv, NodeTypeOK, AgentRecords
  <2>2. CASE command[c].op = "down" /\ answer.ok
    <3>1. Concludes(c, "stopped")
      BY <1>6, <2>2 DEF TakeAnswer
    <3>2. ~tangled /\ ~crossed => AllTold'
      BY <2>1, <2>2, StillTold DEF HostInv, RecordInv
    <3>3. "stopped" \in StatusRecords
      BY DEF StatusRecords
    <3> QED
      BY <1>0, <2>1, <2>2, <3>1, <3>2, <3>3, ConcludeStep
  <2>3. CASE command[c].op = "down" /\ ~answer.ok
    BY <1>6, <2>1, <2>3, KeepStep DEF TakeAnswer
  <2>4. CASE command[c].op = "up" /\ ~answer.ok
    BY <1>6, <2>1, <2>4, <1>2 DEF TakeAnswer
  <2>5. CASE command[c].op = "up" /\ answer.ok
    <3> DEFINE r == [command[c] EXCEPT !.at = "poll", !.agent = NoAgent, !.pid = answer.pid]
    <3>1. r \in CommandRecords /\ r.op = "up" /\ r.at = "poll" /\ r.agent = NoAgent
      BY <1>0, <2>1, <2>5 DEF CommandRecords
    <3>2. command' = [command EXCEPT ![c] = r]
      BY <1>0, <1>6, <2>5 DEF TakeAnswer, CommandRecords, HostInv, HostTypeOK
    <3> HIDE DEF r
    <3>3. command'[c] = r
      BY <3>2 DEF HostInv, HostTypeOK
    <3>4. Trying(c)'
      BY <3>1, <3>3 DEF Trying
    <3>5. ~tangled /\ ~crossed => \A d \in Commands \ {c} : ~UnderWay(d)
      BY <2>1 DEF HostInv, RecordInv, UnderWay
    <3>6. UNCHANGED <<record, begun, crossed, untold>>
      BY <2>1 DEF Host
    <3> QED
      BY <1>0, <3>1, <3>2, <3>4, <3>5, <3>6, CommandTurn
  <2> QED
    BY <2>1, <2>2, <2>3, <2>4, <2>5
<1>7. CASE LosesAgent(c)
  <2>1. command[c].at = "await" /\ command[c].op \in {"up", "down"}
        /\ UNCHANGED <<Host, untold>>
    BY <1>7 DEF LosesAgent, HostInv, CommandInv
  <2>2. CASE command[c].op = "up"
    BY <1>7, <2>1, <2>2, <1>2 DEF LosesAgent
  <2>3. CASE command[c].op = "down"
    BY <1>7, <2>1, <2>3, KeepStep DEF LosesAgent
  <2> QED
    BY <2>1, <2>2, <2>3
\* The command is gone.
<1>8. NoCommand \in CommandRecords /\ NoCommand.op = "none" /\ NoCommand.at = "none"
      /\ NoCommand.agent = NoAgent
  BY DEF NoCommand, CommandRecords, StatusRecords
<1>9. CASE Save(c)
  <2>1. /\ command[c].at = "save" /\ record' = command[c].result
           /\ command' = [command EXCEPT ![c] = NoCommand]
        /\ UNCHANGED <<begun, untold, crossed>> /\ record' \in StatusRecords
    BY <1>0, <1>9 DEF Save, CommandRecords
  <2>2. ~tangled /\ ~crossed => \A d \in Commands \ {c} : ~UnderWay(d)
    BY <2>1 DEF HostInv, RecordInv, CommandInv, UnderWay
  <2>3. ~tangled /\ ~crossed /\ record' = "stopped" => AllTold'
    BY <2>1, StillTold DEF HostInv, RecordInv
  <2> QED
    BY <1>0, <1>8, <2>1, <2>2, <2>3, CommandTurn
<1>10. CASE CommandDies(c)
  <2>1. /\ UnderWay(c) /\ command' = [command EXCEPT ![c] = NoCommand]
           /\ UNCHANGED <<record, begun, crossed>>
        /\ untold \subseteq untold' /\ untold' \in SUBSET Nat
        /\ command[c].op = "up" /\ command[c].at # "ask" /\ record = "stopped" =>
           Births \subseteq untold'
    BY <1>0, <1>10 DEF CommandDies
  <2>2. ~tangled /\ ~crossed => \A d \in Commands \ {c} : ~UnderWay(d)
    BY <2>1 DEF HostInv, RecordInv
  <2>3. ASSUME ~tangled, ~crossed, record = "stopped" PROVE AllTold'
    <3>1. CASE command[c].op = "up" /\ command[c].at # "ask"
      BY <2>1, <2>3, <3>1, StillTold
    <3>2. CASE ~(command[c].op = "up" /\ command[c].at # "ask")
      <4>1. ~Trying(c)
        BY <3>2 DEF Trying
      <4> QED
        BY <2>1, <2>2, <2>3, <4>1, ToldWhileNotTrying, StillTold DEF HostInv
    <3> QED
      BY <3>1, <3>2
  <2> QED
    BY <1>0, <1>8, <2>1, <2>2, <2>3, CommandTurn
<1>11. ASSUME NEW op \in {"up", "down", "init"}, Begin(c, op) PROVE HostInv'
  <2> DEFINE r == [NoCommand EXCEPT !.op = op, !.at = "ask", !.seen = record]
  <2>1. r \in CommandRecords /\ r.op = op /\ r.at = "ask" /\ r.agent = NoAgent
        /\ r.seen = record
    BY <1>0 DEF NoCommand, CommandRecords, StatusRecords
  <2>2. /\ command' = [command EXCEPT ![c] = r] /\ UNCHANGED <<record, untold>>
        /\ begun' = begun + 1 /\ crossed' = (crossed \/ \E d \in Commands : UnderWay(d))
    BY <1>11 DEF Begin
  <2> HIDE DEF r
  <2>3. begun' \in Nat /\ crossed' \in BOOLEAN
    BY <1>0, <2>2, (crossed \/ \E d \in Commands : UnderWay(d)) \in BOOLEAN
  <2>4. ~crossed' => ~crossed /\ \A d \in Commands : ~UnderWay(d)
    BY <2>2
  <2>5. ASSUME ~tangled, ~crossed', record = "stopped" PROVE AllTold'
    <3>1. ~Trying(c)
      BY <2>4, <2>5 DEF Trying, UnderWay
    <3> QED
      BY <2>2, <2>4, <2>5, <3>1, ToldWhileNotTrying, StillTold DEF HostInv
  <2> QED
    BY <1>0, <2>1, <2>2, <2>3, <2>4, <2>5, CommandTurn
<1> QED
  BY <1>3, <1>4, <1>5, <1>6, <1>7, <1>9, <1>10, <1>11

\* The inductive invariant.
DeploymentInv == NodeTypeOK /\ ProcessInv /\ AgentInv /\ FilesInv /\ HostInv

\* DeploymentInv is inductive.
LEMMA DeploymentStep ==
    ASSUME DeploymentInv, [DeploymentNext]_deploymentVars
    PROVE  DeploymentInv'
<1> USE DEF DeploymentInv
<1>1. ASSUME UNCHANGED nodeVars PROVE (NodeTypeOK /\ ProcessInv /\ AgentInv /\ FilesInv)'
  BY <1>1 DEF nodeVars, NodeTypeOK, ProcessInv, AgentInv, AgentKnows, FilesInv, FilesTell,
     FilesAtRest,
     AllKnown, AllStrayed, Strayed, FoundRunning, IsRecorded, Running, Exists, AtWork
<1>2. CASE NodeTurn
  BY <1>2, NodeTurnStep
<1>3. ASSUME NEW c \in Commands, NEW a \in Agents, Ask(c, a) PROVE DeploymentInv'
  BY <1>3, AskStep
<1>4. ASSUME NEW c \in Commands,
             \/ PassesBy(c) \/ CannotStart(c) \/ InitChanged(c) \/ InitKeeps(c)
             \/ TakeAnswer(c) \/ LosesAgent(c) \/ Ready(c) \/ ExitedBeforeReady(c)
                \/ NotReadyInTime(c)
             \/ Save(c) \/ CommandDies(c) \/ \E op \in {"up", "down", "init"} : Begin(c, op)
      PROVE  DeploymentInv'
  BY <1>1, <1>4, CommandOnlyStep
<1>5. CASE UNCHANGED deploymentVars
  <2>1. HostInv'
    BY <1>5 DEF deploymentVars, nodeVars, hostVars, HostInv, HostTypeOK, CommandInv, RecordInv,
       UnderWay, Trying,
       AllTold, AllStrayed, Strayed, Running, AtWork
  <2> QED
    BY <1>1, <1>5, <2>1 DEF deploymentVars
<1> QED
  BY <1>2, <1>3, <1>4, <1>5 DEF DeploymentNext, CommandStep

LEMMA DeploymentInvariance == DeploymentSpec => []DeploymentInv
<1>1. DeploymentInit => DeploymentInv
  <2> SUFFICES ASSUME DeploymentInit PROVE DeploymentInv
    OBVIOUS
  <2>1. \A a \in Agents : agent[a] = NoWork /\ ~AtWork(a)
    BY DEF DeploymentInit, NodeInit, AtWork, NoWork
  <2>2. \A p \in Pids : process[p] = NoProcess /\ ~Exists(p) /\ ~Running(p)
    BY DEF DeploymentInit, NodeInit, Exists, Running, NoProcess
  <2>3. NodeTypeOK
    BY <2>1, <2>2 DEF DeploymentInit, NodeInit, NodeTypeOK, NoWork, NoProcess, ProcessRecords,
       AgentRecords, AgentStages
  <2>4. ProcessInv
    BY <2>2 DEF DeploymentInit, NodeInit, ProcessInv
  <2>5. AgentInv
    BY <2>1 DEF AgentInv, AgentKnows, AtWork, NoWork, DeploymentInit, NodeInit
  <2>6. FilesInv
    BY <2>1, <2>2, NobodyAtWork DEF FilesInv, AllKnown
  <2>7. HostInv
    BY <2>2 DEF DeploymentInit, HostInv, HostTypeOK, CommandInv, RecordInv, NoCommand,
       CommandRecords, StatusRecords,
       UnderWay, AllTold
  <2> QED
    BY <2>3, <2>4, <2>5, <2>6, <2>7 DEF DeploymentInv
<1> QED
  BY <1>1, DeploymentStep, PTL DEF DeploymentSpec

DeploymentTypeOK == NodeTypeOK /\ HostTypeOK

\* The variables of the node and of the host keep their types.
THEOREM DeploymentTypes == DeploymentSpec => []DeploymentTypeOK
<1>1. DeploymentInv => DeploymentTypeOK
  BY DEF DeploymentInv, HostInv, DeploymentTypeOK
<1> QED
  BY <1>1, DeploymentInvariance, PTL

\* A service that runs at a quiet moment is the one the two files tell of, for any number of
\* pids, agents and commands, if no two agents met and no agent ended before it had written
\* the pid: _agent_status, _agent_start and _agent_stop then find it.
THEOREM ServicesAreFound == DeploymentSpec => []NothingForgotten
<1>1. DeploymentInv => NothingForgotten
  BY DEF DeploymentInv, FilesInv, AllKnown, Strayed, NothingForgotten
<1> QED
  BY <1>1, DeploymentInvariance, PTL

\* A record that says "stopped" at a quiet moment is right, but for the services whose
\* command died before store.save or whose failed start was forgotten by init.
THEOREM RecordsAreRight == DeploymentSpec => []StoppedMeansDown
<1>1. DeploymentInv => StoppedMeansDown
  BY DEF DeploymentInv, HostInv, RecordInv, AtRest, UnderWay, Trying, AllTold, StoppedMeansDown
<1> QED
  BY <1>1, DeploymentInvariance, PTL

\* _terminate_process_group signals a process that is not a service only if it took the pid
\* after _agent_status had looked, whatever the agents and the commands did.
THEOREM StrangersAreSpared == DeploymentSpec => NoForeignSignal
<1>1. ASSUME DeploymentInv, NEW a \in Agents, Exists(agent[a].pid), Terminate(a) \/ Kill(a)
      PROVE  process[agent[a].pid].kind = "service"
             \/ process[agent[a].pid].birth > agent[a].since
  BY <1>1 DEF DeploymentInv, AgentInv, AgentKnows, Terminate, Kill
<1>2. DeploymentInv =>
        [\A a \in Agents :
            Exists(agent[a].pid) /\ (Terminate(a) \/ Kill(a)) =>
              \/ process[agent[a].pid].kind = "service"
              \/ process[agent[a].pid].birth > agent[a].since]_deploymentVars
  BY <1>1
<1> QED
  BY <1>2, DeploymentInvariance, PTL DEF NoForeignSignal

=============================================================================
