---------------------------- MODULE DriverProofs ----------------------------
(***************************************************************************)
(* Proofs about who may move a robot: RobotIO, the scheduler of one        *)
(* driver, for any set of requests and any limits, and below it            *)
(* XLeRobotOwner, the owner of the XLeRobot's motors, for any clients and  *)
(* any number of enables and late requests.                                *)
(***************************************************************************)
EXTENDS RobotIO, XLeRobotOwner, FiniteSetTheorems, TLAPS

Serialized == {"execute", "read", "stop"}

\* A request that has not entered the scheduler has left no trace in it.
Untouched(r) ==
    /\ answer[r] = "none" /\ result[r] = "none" /\ call[r] = "none"
    /\ r \notin queue /\ r # active /\ r # preCall
    /\ r \notin started /\ r \notin cancelled /\ r \notin detached /\ r \notin done

\* Where each request is: what its phase, operation and marks imply.
PlaceInv ==
    /\ \A r \in Requests : phase[r] \in {"idle", "blocked"} => Untouched(r)
    /\ \A r \in Requests : phase[r] = "blocked" => op[r] = "preemptive"
    /\ \A r \in queue : op[r] \in Serialized
    /\ queue \cap (cancelled \cup started \cup done) = {}
    /\ \A q \in Motion(queue) : phase[q] \in {"waiting", "late"}
    /\ cancelled \cap started = {}
    /\ \A r \in started : op[r] \in Serialized
    /\ \A r \in detached : r \in started \/ op[r] = "stop"
    /\ active # NoRequest => active \in started \ done
    /\ preCall # NoRequest => op[preCall] = "preemptive" /\ preCall \notin done

\* Which driver calls have been made.
CallInv ==
    /\ \A r \in Requests : call[r] = "running" => r \in {active, preCall}
    /\ \A r \in Requests : op[r] # "preemptive" /\ r \notin started => call[r] = "none"
    /\ \A r \in done : op[r] = "preemptive" => call[r] \notin {"none", "running"}
    /\ preCall # NoRequest => call[preCall] = "running"

\* A status that claims the driver was not called is final: the request is out of
\* the queue and out of the worker's hands.
Truth(status, r) ==
    /\ status \in {"CANCELLED", "REJECTED", "EXPIRED"} =>
         call[r] = "none" /\ r \notin queue /\ r # active /\ r # preCall
    /\ status \in {"COMPLETED", "FAILED"} => call[r] \notin {"none", "running"}

TruthInv == \A r \in Requests : Truth(answer[r], r) /\ Truth(result[r], r)

StopInv ==
    /\ {r \in queue : op[r] = "stop"} = {queuedStop} \ {NoRequest}
    /\ \A q \in queue : queuedStop # NoRequest /\ q # queuedStop => queuedStop \in ahead[q]

CountInv ==
    /\ queuedReads = Cardinality(Reads(queue)) /\ queuedReads <= MaxPendingReads
    /\ Cardinality(Motion(queue)) <= MaxPendingOperations

ClosedInv ==
    /\ closed => Motion(queue) = {}
    /\ closeReport = "COMPLETED" => closed /\ Drained

IInv ==
    /\ TypeOK /\ PlaceInv /\ CallInv /\ TruthInv /\ StopInv /\ CountInv /\ ClosedInv
    /\ AbandonedCallQuarantines

-----------------------------------------------------------------------------

\* The members of a finite set that remain when a part is taken away.
LEMMA TakeAway ==
    ASSUME NEW A, IsFiniteSet(A), NEW B \in SUBSET A
    PROVE  /\ IsFiniteSet(B)
           /\ Cardinality(B) \in Nat /\ Cardinality(A) \in Nat
           /\ Cardinality(B) <= Cardinality(A)
           /\ Cardinality(A \ B) = Cardinality(A) - Cardinality(B)
<1>1. A \cap B = B
  OBVIOUS
<1>2. IsFiniteSet(B) /\ Cardinality(B) <= Cardinality(A)
  BY FS_Subset
<1>3. Cardinality(A) \in Nat /\ Cardinality(B) \in Nat
  BY <1>2, FS_CardinalityType
<1>4. Cardinality(A \ B) = Cardinality(A) - Cardinality(A \cap B)
  BY <1>2, FS_Difference
<1> QED
  BY <1>1, <1>2, <1>3, <1>4

\* Taking waiting requests out of the deque and discounting the reads among them
\* keeps the count of waiting reads right: the caller's withdrawal and the worker.
LEMMA LeaveCounts ==
    ASSUME TypeOK, CountInv, NEW S \in SUBSET queue,
           op' = op, queue' = queue \ S,
           queuedReads' = queuedReads - Cardinality(Reads(S))
    PROVE  CountInv' /\ queuedReads' \in Nat
<1>1. IsFiniteSet(Reads(queue)) /\ IsFiniteSet(Motion(queue))
  BY RequestsAssumption, FS_Subset DEF TypeOK, Reads, Motion
<1>2. Reads(S) \in SUBSET Reads(queue) /\ Reads(queue)' = Reads(queue) \ Reads(S)
  BY DEF Reads
<1>3. Motion(queue)' \in SUBSET Motion(queue)
  BY DEF Motion
<1>4. /\ Cardinality(Reads(queue)') = queuedReads'
      /\ queuedReads' \in Nat /\ queuedReads' <= queuedReads
  BY <1>1, <1>2, TakeAway DEF CountInv
<1>5. Cardinality(Motion(queue)') <= Cardinality(Motion(queue)) /\ Cardinality(Motion(queue)') \in Nat
      /\ Cardinality(Motion(queue)) \in Nat
  BY <1>1, <1>3, TakeAway
<1> QED
  BY <1>4, <1>5, LimitsAssumption DEF CountInv, TypeOK

\* After queued motion was discarded only a stop can be waiting.
LEMMA DiscardCounts ==
    ASSUME TypeOK, CountInv, NEW status, Discard(status), op' = op
    PROVE  CountInv' /\ queuedReads' \in Nat
<1>1. Motion(queue) \in SUBSET queue
  BY DEF Motion
<1> QED
  BY <1>1, LeaveCounts DEF Discard, Leave

\* Admission respects both limits.
LEMMA EnqueueCounts ==
    ASSUME TypeOK, CountInv, NEW r \in Requests, NEW o, op' = [op EXCEPT ![r] = o],
           r \notin queue, ~Full(o), Enqueue(r, o)
    PROVE  CountInv' /\ queuedReads' \in Nat
<1>1. IsFiniteSet(queue) /\ IsFiniteSet(Reads(queue)) /\ IsFiniteSet(Motion(queue))
  BY RequestsAssumption, FS_Subset DEF TypeOK, Reads, Motion
<1>2. /\ Reads(queue)' = IF o = "read" THEN Reads(queue) \cup {r} ELSE Reads(queue)
      /\ Motion(queue)' = IF o # "stop" THEN Motion(queue) \cup {r} ELSE Motion(queue)
      /\ r \notin Reads(queue) /\ r \notin Motion(queue)
  BY DEF Reads, Motion, Enqueue, TypeOK
<1>3. /\ Cardinality(Reads(queue) \cup {r}) = Cardinality(Reads(queue)) + 1
      /\ Cardinality(Motion(queue) \cup {r}) = Cardinality(Motion(queue)) + 1
  BY <1>1, <1>2, FS_AddElement
<1>4. /\ Cardinality(Motion(queue)) <= Cardinality(queue)
      /\ Cardinality(Motion(queue)) \in Nat /\ Cardinality(queue) \in Nat
  <2>1. Motion(queue) \in SUBSET queue
    BY DEF Motion
  <2> QED
    BY <1>1, <2>1, TakeAway
<1>5. o # "stop" => Cardinality(Motion(queue)) + 1 <= MaxPendingOperations
  BY <1>4, LimitsAssumption DEF Full
<1>6. o = "read" => queuedReads + 1 <= MaxPendingReads
  BY LimitsAssumption DEF Full, TypeOK
<1>7. /\ o = "read" => queuedReads' = queuedReads + 1
      /\ o # "read" => queuedReads' = queuedReads
  BY DEF Enqueue, TypeOK
<1>8. /\ queuedReads' = Cardinality(Reads(queue)')
      /\ queuedReads' <= MaxPendingReads /\ queuedReads' \in Nat
  BY <1>2, <1>3, <1>6, <1>7 DEF CountInv, TypeOK
<1>9. Cardinality(Motion(queue)') <= MaxPendingOperations
  BY <1>2, <1>3, <1>5 DEF CountInv
<1> QED
  BY <1>8, <1>9 DEF CountInv

\* Every step keeps the counts: the only ones that touch the deque are admission,
\* withdrawal, the worker's pop, and the discarding of queued motion.
LEMMA CountStep ==
    ASSUME IInv, [Next]_vars
    PROVE  CountInv' /\ queuedReads' \in Nat
<1> USE DEF IInv
<1>1. ASSUME UNCHANGED <<op, queue, queuedReads>>
      PROVE  CountInv' /\ queuedReads' \in Nat
  BY <1>1 DEF CountInv, Reads, Motion, TypeOK
<1>2. ASSUME NEW r \in Requests, r \notin queue, NEW o, op' = [op EXCEPT ![r] = o],
             UNCHANGED <<queue, queuedReads>>
      PROVE  CountInv' /\ queuedReads' \in Nat
  <2>1. Reads(queue)' = Reads(queue) /\ Motion(queue)' = Motion(queue)
    BY <1>2 DEF Reads, Motion, TypeOK
  <2> QED
    BY <1>2, <2>1 DEF CountInv, TypeOK
<1>3. ASSUME NEW r \in Requests, NEW s \in Submissions, Submit(r, s)
      PROVE  CountInv' /\ queuedReads' \in Nat
  <2>1. r \notin queue
    BY <1>3 DEF Submit, PlaceInv, Untouched
  <2>2. CASE Admission(s) = "queued"
    <3>1. ~Full(s.op)
      BY <2>2 DEF Admission
    <3> QED
      BY <1>3, <2>1, <2>2, <3>1, EnqueueCounts DEF Submit
  <2>3. CASE Admission(s) # "queued"
    BY <1>2, <1>3, <2>1, <2>3 DEF Submit, queueVars
  <2> QED
    BY <2>2, <2>3
<1>4. ASSUME NEW r \in Requests, PreemptiveCall(r)
      PROVE  CountInv' /\ queuedReads' \in Nat
  <2>1. r \notin queue
    BY <1>4 DEF PreemptiveCall, PlaceInv, Untouched
  <2> QED
    BY <1>2, <1>4, <2>1 DEF PreemptiveCall, queueVars
<1>5. ASSUME NEW r \in Requests, LateNotStarted(r)
      PROVE  CountInv' /\ queuedReads' \in Nat
  <2>1. {r} \cap queue \in SUBSET queue /\ queue' = queue \ ({r} \cap queue)
    BY <1>5 DEF LateNotStarted, Leave
  <2> QED
    BY <1>5, <2>1, LeaveCounts DEF LateNotStarted, Tell
<1>6. ASSUME NEW r \in Requests, Pop(r)
      PROVE  CountInv' /\ queuedReads' \in Nat
  <2>1. {r} \in SUBSET queue
    BY <1>6 DEF Pop
  <2> QED
    BY <1>6, <2>1, LeaveCounts DEF Pop, Leave, callerVars
<1>7. ASSUME NEW r \in Requests, LateStarted(r) \/ PreemptiveLate(r)
      PROVE  CountInv' /\ queuedReads' \in Nat
  BY <1>7, DiscardCounts DEF LateStarted, PreemptiveLate, Tell
<1>8. ASSUME NEW r \in Requests, PreemptiveAnswer(r)
      PROVE  CountInv' /\ queuedReads' \in Nat
  <2>1. op' = op
    BY <1>8 DEF PreemptiveAnswer, Tell
  <2>2. CASE Discard("UNKNOWN")
    BY <2>1, <2>2, DiscardCounts
  <2>3. CASE UNCHANGED queueVars
    BY <1>1, <2>1, <2>3 DEF queueVars
  <2> QED
    BY <1>8, <2>2, <2>3 DEF PreemptiveAnswer
<1>9. CASE Close
  BY <1>9, DiscardCounts DEF Close, callerVars
<1>10. ASSUME NEW r \in Requests,
              \/ DeadlinePasses(r) \/ SetCancelEvent(r) \/ WaitReturns(r) \/ WaitExpires(r)
              \/ PreemptiveEnter(r) \/ PreemptiveNote(r) \/ Skip(r) \/ Invoke(r) \/ Driver(r)
      PROVE  CountInv' /\ queuedReads' \in Nat
  <2>1. UNCHANGED <<op, queue, queuedReads>>
    BY <1>10 DEF DeadlinePasses, SetCancelEvent, WaitReturns, WaitExpires, PreemptiveEnter,
        PreemptiveNote, Skip, Invoke, Driver, CallReturns, PreemptiveReturns, Tell,
        callerVars, queueVars
  <2> QED
    BY <1>1, <2>1
<1>11. CASE Recover \/ ReportClose \/ UNCHANGED vars
  BY <1>1, <1>11 DEF Recover, ReportClose, vars, callerVars, queueVars
<1> QED
  BY <1>3, <1>4, <1>5, <1>6, <1>7, <1>8, <1>9, <1>10, <1>11
  DEF Next, CallerStep, CallerReturns, Worker


\* The invariant is inductive: one step per action.
THEOREM Inductive == IInv /\ [Next]_vars => IInv'
<1> SUFFICES ASSUME IInv, [Next]_vars PROVE IInv'
  OBVIOUS
<1>0. CountInv' /\ queuedReads' \in Nat
  BY CountStep
<1>1. ASSUME NEW r \in Requests, NEW s \in Submissions, Submit(r, s)
      PROVE  IInv'
  <2>1. TypeOK'
    <3>1. Admission(s) \in Statuses \cup {"queued"}
      BY DEF Admission, Statuses
    <3>2. s.op \in Operations /\ s.budget \in Budgets /\ s.event \in Events
      BY SubmissionsAssumption DEF APICalls, Operations, Budgets, Events
    <3>3. queue' \subseteq Requests /\ ahead' \in [Requests -> SUBSET Requests]
          /\ queuedStop' \in Requests \cup {NoRequest}
      BY <1>1 DEF Submit, Enqueue, IInv, TypeOK, queueVars
    <3>4. phase' \in [Requests -> Phases] /\ answer' \in [Requests -> Statuses \cup {"none"}]
      BY <1>1, <3>1 DEF Submit, IInv, TypeOK, Phases
    <3>5. /\ op' \in [Requests -> Operations] /\ budget' \in [Requests -> Budgets]
          /\ event' \in [Requests -> Events]
      BY <1>1, <3>2 DEF Submit, IInv, TypeOK
    <3> QED
      BY <1>0, <1>1, <3>3, <3>4, <3>5 DEF IInv, TypeOK, Submit, requestVars, stopVars
  <2>2. PlaceInv'
    BY <1>1, SubmissionsAssumption, RequestsAssumption DEF IInv, TypeOK, PlaceInv, Untouched,
        Serialized, Motion, APICalls, Submit, Admission, Enqueue, requestVars, stopVars,
        queueVars, Full
  <2>3. CallInv'
    BY <1>1, SubmissionsAssumption, RequestsAssumption DEF IInv, TypeOK, CallInv, PlaceInv,
        Untouched, Serialized, APICalls, Motion, Submit, Admission, Enqueue, requestVars,
        stopVars, queueVars, Full
  <2>4. TruthInv'
    BY <1>1, SubmissionsAssumption, RequestsAssumption DEF IInv, TypeOK, TruthInv, Truth,
        CallInv, PlaceInv, Untouched, Serialized, Motion, Submit, Admission, Enqueue,
        requestVars, stopVars, queueVars, Full
  <2>5. StopInv'
    BY <1>1, SubmissionsAssumption, RequestsAssumption DEF IInv, TypeOK, StopInv, PlaceInv,
        Untouched, Motion, APICalls, Submit, Admission, Enqueue, requestVars, stopVars,
        queueVars, Full
  <2>6. ClosedInv'
    BY <1>1, SubmissionsAssumption, RequestsAssumption DEF IInv, TypeOK, ClosedInv, Drained,
        Motion, PlaceInv, Untouched, Submit, Admission, Enqueue, requestVars, stopVars,
        queueVars, Full
  <2>7. AbandonedCallQuarantines'
    BY <1>1, SubmissionsAssumption, RequestsAssumption DEF IInv, TypeOK,
        AbandonedCallQuarantines, Motion, PlaceInv, Untouched, Submit, Admission, Enqueue,
        requestVars, stopVars, queueVars, Full
  <2> QED
    BY <1>0, <2>1, <2>2, <2>3, <2>4, <2>5, <2>6, <2>7 DEF IInv
<1>2. ASSUME NEW r \in Requests, PreemptiveCall(r)
      PROVE  IInv'
  <2>1. TypeOK'
    BY <1>0, <1>2, RequestsAssumption DEF IInv, TypeOK, Statuses, Operations, Budgets, Events,
        Phases, Calls, Confirmations, Motion, PreemptiveCall, requestVars, queueVars, stopVars
  <2>2. PlaceInv'
    BY <1>2, RequestsAssumption DEF IInv, TypeOK, PlaceInv, Untouched, Serialized, Motion,
        PreemptiveCall, requestVars, queueVars, stopVars
  <2>3. CallInv'
    BY <1>2, RequestsAssumption DEF IInv, TypeOK, CallInv, PlaceInv, Untouched, Serialized,
        Motion, PreemptiveCall, requestVars, queueVars, stopVars
  <2>4. TruthInv'
    BY <1>2, RequestsAssumption DEF IInv, TypeOK, TruthInv, Truth, CallInv, PlaceInv, Untouched,
        Serialized, Motion, PreemptiveCall, requestVars, queueVars, stopVars
  <2>5. StopInv'
    BY <1>2, RequestsAssumption DEF IInv, TypeOK, StopInv, PlaceInv, Untouched, Motion,
        PreemptiveCall, requestVars, queueVars, stopVars
  <2>6. ClosedInv'
    BY <1>2, RequestsAssumption DEF IInv, TypeOK, ClosedInv, Drained, Motion, PlaceInv,
        Untouched, PreemptiveCall, requestVars, queueVars, stopVars
  <2>7. AbandonedCallQuarantines'
    BY <1>2, RequestsAssumption DEF IInv, TypeOK, AbandonedCallQuarantines, Motion, PlaceInv,
        Untouched, PreemptiveCall, requestVars, queueVars, stopVars
  <2> QED
    BY <1>0, <2>1, <2>2, <2>3, <2>4, <2>5, <2>6, <2>7 DEF IInv
<1>3. ASSUME NEW r \in Requests, DeadlinePasses(r)
      PROVE  IInv'
  BY <1>0, <1>3, RequestsAssumption DEF IInv, TypeOK, PlaceInv, Untouched, Serialized, CallInv,
      TruthInv, Truth, StopInv, Motion, ClosedInv, Drained, AbandonedCallQuarantines, Statuses,
      Operations, Budgets, Events, Phases, Calls, Confirmations, DeadlinePasses, requestVars,
      queueVars, stopVars
<1>4. ASSUME NEW r \in Requests, SetCancelEvent(r)
      PROVE  IInv'
  BY <1>0, <1>4, RequestsAssumption DEF IInv, TypeOK, PlaceInv, Untouched, Serialized, CallInv,
      TruthInv, Truth, StopInv, Motion, ClosedInv, Drained, AbandonedCallQuarantines, Statuses,
      Operations, Budgets, Events, Phases, Calls, Confirmations, SetCancelEvent, requestVars,
      queueVars, stopVars
<1>5. ASSUME NEW r \in Requests, WaitReturns(r)
      PROVE  IInv'
  BY <1>0, <1>5, RequestsAssumption DEF IInv, TypeOK, PlaceInv, Untouched, Serialized, CallInv,
      TruthInv, Truth, StopInv, Motion, ClosedInv, Drained, AbandonedCallQuarantines, Statuses,
      Operations, Budgets, Events, Phases, Calls, Confirmations, WaitReturns, Tell, requestVars,
      queueVars, stopVars
<1>6. ASSUME NEW r \in Requests, WaitExpires(r)
      PROVE  IInv'
  BY <1>0, <1>6, RequestsAssumption DEF IInv, TypeOK, PlaceInv, Untouched, Serialized, CallInv,
      TruthInv, Truth, StopInv, Motion, ClosedInv, Drained, AbandonedCallQuarantines, Statuses,
      Operations, Budgets, Events, Phases, Calls, Confirmations, WaitExpires, requestVars,
      queueVars, stopVars
<1>7. ASSUME NEW r \in Requests, LateNotStarted(r)
      PROVE  IInv'
  <2>1. TypeOK'
    BY <1>0, <1>7, RequestsAssumption DEF IInv, TypeOK, Statuses, Operations, Budgets, Events,
        Phases, Calls, Confirmations, Motion, LateNotStarted, Leave, Tell, stopVars
  <2>2. PlaceInv'
    BY <1>7, RequestsAssumption DEF IInv, TypeOK, PlaceInv, Untouched, Serialized, Motion,
        LateNotStarted, Leave, Tell, stopVars
  <2>3. CallInv'
    BY <1>7, RequestsAssumption DEF IInv, TypeOK, CallInv, PlaceInv, Untouched, Serialized,
        Motion, LateNotStarted, Leave, Tell, stopVars
  <2>4. TruthInv'
    BY <1>7, RequestsAssumption DEF IInv, TypeOK, TruthInv, Truth, CallInv, PlaceInv, Untouched,
        Serialized, Motion, LateNotStarted, Leave, Tell, stopVars
  <2>5. StopInv'
    BY <1>7, RequestsAssumption DEF IInv, TypeOK, StopInv, PlaceInv, Untouched, Motion,
        LateNotStarted, Leave, Tell, stopVars
  <2>6. ClosedInv'
    BY <1>7, RequestsAssumption DEF IInv, TypeOK, ClosedInv, Drained, Motion, PlaceInv,
        Untouched, LateNotStarted, Leave, Tell, stopVars
  <2>7. AbandonedCallQuarantines'
    BY <1>7, RequestsAssumption DEF IInv, TypeOK, AbandonedCallQuarantines, Motion, PlaceInv,
        Untouched, LateNotStarted, Leave, Tell, stopVars
  <2> QED
    BY <1>0, <2>1, <2>2, <2>3, <2>4, <2>5, <2>6, <2>7 DEF IInv
<1>8. ASSUME NEW r \in Requests, LateStarted(r)
      PROVE  IInv'
  <2>1. TypeOK'
    BY <1>0, <1>8, RequestsAssumption DEF IInv, TypeOK, Statuses, Operations, Budgets, Events,
        Phases, Calls, Confirmations, Motion, LateStarted, Discard, Leave, Tell
  <2>2. PlaceInv'
    BY <1>8, RequestsAssumption DEF IInv, TypeOK, PlaceInv, Untouched, Serialized, Motion,
        LateStarted, Discard, Leave, Tell
  <2>3. CallInv'
    BY <1>8, RequestsAssumption DEF IInv, TypeOK, CallInv, PlaceInv, Untouched, Serialized,
        Motion, LateStarted, Discard, Leave, Tell
  <2>4. TruthInv'
    BY <1>8, RequestsAssumption DEF IInv, TypeOK, TruthInv, Truth, CallInv, PlaceInv, Untouched,
        Serialized, Motion, LateStarted, Discard, Leave, Tell
  <2>5. StopInv'
    BY <1>8, RequestsAssumption DEF IInv, TypeOK, StopInv, PlaceInv, Untouched, Motion,
        LateStarted, Discard, Leave, Tell
  <2>6. ClosedInv'
    BY <1>8, RequestsAssumption DEF IInv, TypeOK, ClosedInv, Drained, Motion, PlaceInv,
        Untouched, LateStarted, Discard, Leave, Tell
  <2>7. AbandonedCallQuarantines'
    BY <1>8, RequestsAssumption DEF IInv, TypeOK, AbandonedCallQuarantines, Motion, PlaceInv,
        Untouched, LateStarted, Discard, Leave, Tell
  <2> QED
    BY <1>0, <2>1, <2>2, <2>3, <2>4, <2>5, <2>6, <2>7 DEF IInv
<1>9. ASSUME NEW r \in Requests, PreemptiveEnter(r)
      PROVE  IInv'
  <2>1. TypeOK'
    BY <1>0, <1>9, RequestsAssumption DEF IInv, TypeOK, Statuses, Operations, Budgets, Events,
        Phases, Calls, Confirmations, Motion, PreemptiveEnter, Tell, queueVars
  <2>2. PlaceInv'
    BY <1>9, RequestsAssumption DEF IInv, TypeOK, PlaceInv, Untouched, Serialized, Motion,
        PreemptiveEnter, Tell, queueVars
  <2>3. CallInv'
    BY <1>9, RequestsAssumption DEF IInv, TypeOK, CallInv, PlaceInv, Untouched, Serialized,
        Motion, PreemptiveEnter, Tell, queueVars
  <2>4. TruthInv'
    BY <1>9, RequestsAssumption DEF IInv, TypeOK, TruthInv, Truth, CallInv, PlaceInv, Untouched,
        Serialized, Motion, PreemptiveEnter, Tell, queueVars
  <2>5. StopInv'
    BY <1>9, RequestsAssumption DEF IInv, TypeOK, StopInv, PlaceInv, Untouched, Motion,
        PreemptiveEnter, Tell, queueVars
  <2>6. ClosedInv'
    BY <1>9, RequestsAssumption DEF IInv, TypeOK, ClosedInv, Drained, Motion, PlaceInv,
        Untouched, PreemptiveEnter, Tell, queueVars
  <2>7. AbandonedCallQuarantines'
    BY <1>9, RequestsAssumption DEF IInv, TypeOK, AbandonedCallQuarantines, Motion, PlaceInv,
        Untouched, PreemptiveEnter, Tell, queueVars
  <2> QED
    BY <1>0, <2>1, <2>2, <2>3, <2>4, <2>5, <2>6, <2>7 DEF IInv
<1>10. ASSUME NEW r \in Requests, PreemptiveAnswer(r)
      PROVE  IInv'
  <2>1. TypeOK'
    <3>1. StatusOf(call[r]) \in Statuses /\ StopConfirmation(call[r]) \in Confirmations
      BY <1>10 DEF IInv, TypeOK, PreemptiveAnswer, CallInv, StatusOf, StopConfirmation, Statuses,
          Calls, Confirmations
    <3>2. CASE Discard("UNKNOWN") /\ quarantined' = TRUE
      BY <1>0, <1>10, <3>1, <3>2 DEF IInv, TypeOK, PreemptiveAnswer, Tell, Discard, Leave,
          Motion, Statuses, Phases
    <3>3. CASE UNCHANGED <<quarantined, queueVars, cancelled, result, done>>
      BY <1>0, <1>10, <3>1, <3>3 DEF IInv, TypeOK, PreemptiveAnswer, Tell, queueVars, Phases
    <3> QED
      BY <1>10, <3>2, <3>3 DEF PreemptiveAnswer
  <2>2. PlaceInv'
    BY <1>10, RequestsAssumption DEF IInv, TypeOK, PlaceInv, Untouched, Serialized, Motion,
        PreemptiveAnswer, Discard, Leave, Tell, StatusOf, StopConfirmation, queueVars
  <2>3. CallInv'
    BY <1>10, RequestsAssumption DEF IInv, TypeOK, CallInv, PlaceInv, Untouched, Serialized,
        Motion, PreemptiveAnswer, Discard, Leave, Tell, StatusOf, StopConfirmation, queueVars
  <2>4. TruthInv'
    BY <1>10, RequestsAssumption DEF IInv, TypeOK, TruthInv, Truth, CallInv, PlaceInv,
        Untouched, Serialized, Motion, PreemptiveAnswer, Discard, Leave, Tell, StatusOf,
        StopConfirmation, queueVars
  <2>5. StopInv'
    BY <1>10, RequestsAssumption DEF IInv, TypeOK, StopInv, PlaceInv, Untouched, Motion,
        PreemptiveAnswer, Discard, Leave, Tell, StatusOf, StopConfirmation, queueVars
  <2>6. ClosedInv'
    BY <1>10, RequestsAssumption DEF IInv, TypeOK, ClosedInv, Drained, Motion, PlaceInv,
        Untouched, PreemptiveAnswer, Discard, Leave, Tell, StatusOf, StopConfirmation, queueVars
  <2>7. AbandonedCallQuarantines'
    BY <1>10, RequestsAssumption DEF IInv, TypeOK, AbandonedCallQuarantines, Motion, PlaceInv,
        Untouched, PreemptiveAnswer, Discard, Leave, Tell, StatusOf, StopConfirmation, queueVars
  <2> QED
    BY <1>0, <2>1, <2>2, <2>3, <2>4, <2>5, <2>6, <2>7 DEF IInv
<1>11. ASSUME NEW r \in Requests, PreemptiveLate(r)
      PROVE  IInv'
  <2>1. TypeOK'
    BY <1>0, <1>11, RequestsAssumption DEF IInv, TypeOK, Statuses, Operations, Budgets, Events,
        Phases, Calls, Confirmations, Motion, PreemptiveLate, Discard, Leave
  <2>2. PlaceInv'
    BY <1>11, RequestsAssumption DEF IInv, TypeOK, PlaceInv, Untouched, Serialized, Motion,
        PreemptiveLate, Discard, Leave
  <2>3. CallInv'
    BY <1>11, RequestsAssumption DEF IInv, TypeOK, CallInv, PlaceInv, Untouched, Serialized,
        Motion, PreemptiveLate, Discard, Leave
  <2>4. TruthInv'
    BY <1>11, RequestsAssumption DEF IInv, TypeOK, TruthInv, Truth, CallInv, PlaceInv,
        Untouched, Serialized, Motion, PreemptiveLate, Discard, Leave
  <2>5. StopInv'
    BY <1>11, RequestsAssumption DEF IInv, TypeOK, StopInv, PlaceInv, Untouched, Motion,
        PreemptiveLate, Discard, Leave
  <2>6. ClosedInv'
    BY <1>11, RequestsAssumption DEF IInv, TypeOK, ClosedInv, Drained, Motion, PlaceInv,
        Untouched, PreemptiveLate, Discard, Leave
  <2>7. AbandonedCallQuarantines'
    BY <1>11, RequestsAssumption DEF IInv, TypeOK, AbandonedCallQuarantines, Motion, PlaceInv,
        Untouched, PreemptiveLate, Discard, Leave
  <2> QED
    BY <1>0, <2>1, <2>2, <2>3, <2>4, <2>5, <2>6, <2>7 DEF IInv
<1>12. ASSUME NEW r \in Requests, PreemptiveNote(r)
      PROVE  IInv'
  BY <1>0, <1>12, RequestsAssumption DEF IInv, TypeOK, PlaceInv, Untouched, Serialized, CallInv,
      TruthInv, Truth, StopInv, Motion, ClosedInv, Drained, AbandonedCallQuarantines, Statuses,
      Operations, Budgets, Events, Phases, Calls, Confirmations, PreemptiveNote, Tell,
      requestVars, queueVars
<1>13. ASSUME NEW r \in Requests, Pop(r)
      PROVE  IInv'
  <2>1. TypeOK'
    BY <1>0, <1>13, RequestsAssumption DEF IInv, TypeOK, Statuses, Operations, Budgets, Events,
        Phases, Calls, Confirmations, Motion, Pop, Leave, callerVars, stopVars
  <2>2. PlaceInv'
    BY <1>13, RequestsAssumption DEF IInv, TypeOK, PlaceInv, Untouched, Serialized, Motion, Pop,
        Leave, callerVars, stopVars
  <2>3. CallInv'
    BY <1>13, RequestsAssumption DEF IInv, TypeOK, CallInv, PlaceInv, Untouched, Serialized,
        Motion, Pop, Leave, callerVars, stopVars
  <2>4. TruthInv'
    BY <1>13, RequestsAssumption DEF IInv, TypeOK, TruthInv, Truth, CallInv, PlaceInv,
        Untouched, Serialized, Motion, Pop, Leave, callerVars, stopVars
  <2>5. StopInv'
    BY <1>13, RequestsAssumption DEF IInv, TypeOK, StopInv, PlaceInv, Untouched, Motion, Pop,
        Leave, callerVars, stopVars
  <2>6. ClosedInv'
    BY <1>13, RequestsAssumption DEF IInv, TypeOK, ClosedInv, Drained, Motion, PlaceInv,
        Untouched, Pop, Leave, callerVars, stopVars
  <2>7. AbandonedCallQuarantines'
    BY <1>13, RequestsAssumption DEF IInv, TypeOK, AbandonedCallQuarantines, Motion, PlaceInv,
        Untouched, Pop, Leave, callerVars, stopVars
  <2> QED
    BY <1>0, <2>1, <2>2, <2>3, <2>4, <2>5, <2>6, <2>7 DEF IInv
<1>14. ASSUME NEW r \in Requests, Skip(r)
      PROVE  IInv'
  BY <1>0, <1>14, RequestsAssumption DEF IInv, TypeOK, PlaceInv, Untouched, Serialized, CallInv,
      TruthInv, Truth, StopInv, Motion, ClosedInv, Drained, AbandonedCallQuarantines, Statuses,
      Operations, Budgets, Events, Phases, Calls, Confirmations, Skip, Settle, callerVars,
      queueVars, stopVars
<1>15. ASSUME NEW r \in Requests, Invoke(r)
      PROVE  IInv'
  BY <1>0, <1>15, RequestsAssumption DEF IInv, TypeOK, PlaceInv, Untouched, Serialized, CallInv,
      TruthInv, Truth, StopInv, Motion, ClosedInv, Drained, AbandonedCallQuarantines, Statuses,
      Operations, Budgets, Events, Phases, Calls, Confirmations, Invoke, callerVars, queueVars,
      stopVars
<1>16. ASSUME NEW r \in Requests, NEW v \in Returns(op[r]), CallReturns(r, v)
      PROVE  IInv'
  <2>1. TypeOK'
    BY <1>0, <1>16, RequestsAssumption DEF IInv, TypeOK, Statuses, Operations, Budgets, Events,
        Phases, Calls, Confirmations, Motion, CallReturns, Settle, StatusOf, StopConfirmation,
        Returns, callerVars, queueVars
  <2>2. PlaceInv'
    BY <1>16, RequestsAssumption DEF IInv, TypeOK, PlaceInv, Untouched, Serialized, Motion,
        CallReturns, Settle, StatusOf, StopConfirmation, Returns, callerVars, queueVars
  <2>3. CallInv'
    BY <1>16, RequestsAssumption DEF IInv, TypeOK, CallInv, PlaceInv, Untouched, Serialized,
        Motion, CallReturns, Settle, StatusOf, StopConfirmation, Returns, callerVars, queueVars
  <2>4. TruthInv'
    BY <1>16, RequestsAssumption DEF IInv, TypeOK, TruthInv, Truth, CallInv, PlaceInv,
        Untouched, Serialized, Motion, CallReturns, Settle, StatusOf, StopConfirmation, Returns,
        callerVars, queueVars
  <2>5. StopInv'
    BY <1>16, RequestsAssumption DEF IInv, TypeOK, StopInv, PlaceInv, Untouched, Motion,
        CallReturns, Settle, StatusOf, StopConfirmation, Returns, callerVars, queueVars
  <2>6. ClosedInv'
    BY <1>16, RequestsAssumption DEF IInv, TypeOK, ClosedInv, Drained, Motion, PlaceInv,
        Untouched, CallReturns, Settle, StatusOf, StopConfirmation, Returns, callerVars,
        queueVars
  <2>7. AbandonedCallQuarantines'
    BY <1>16, RequestsAssumption DEF IInv, TypeOK, AbandonedCallQuarantines, Motion, PlaceInv,
        Untouched, CallReturns, Settle, StatusOf, StopConfirmation, Returns, callerVars,
        queueVars
  <2> QED
    BY <1>0, <2>1, <2>2, <2>3, <2>4, <2>5, <2>6, <2>7 DEF IInv
<1>17. ASSUME NEW r \in Requests, NEW v \in Returns(op[r]), PreemptiveReturns(r, v)
      PROVE  IInv'
  BY <1>0, <1>17, RequestsAssumption DEF IInv, TypeOK, PlaceInv, Untouched, Serialized, CallInv,
      TruthInv, Truth, StopInv, Motion, ClosedInv, Drained, AbandonedCallQuarantines, Statuses,
      Operations, Budgets, Events, Phases, Calls, Confirmations, PreemptiveReturns, Returns,
      callerVars, queueVars
<1>18. CASE Recover
  <2>1. TypeOK'
    BY <1>0, <1>18, RequestsAssumption DEF IInv, TypeOK, Statuses, Operations, Budgets, Events,
        Phases, Calls, Confirmations, Motion, Recover, callerVars, requestVars, queueVars
  <2>2. PlaceInv'
    BY <1>18, RequestsAssumption DEF IInv, TypeOK, PlaceInv, Untouched, Serialized, Motion,
        Recover, callerVars, requestVars, queueVars
  <2>3. CallInv'
    BY <1>18, RequestsAssumption DEF IInv, TypeOK, CallInv, PlaceInv, Untouched, Serialized,
        Motion, Recover, callerVars, requestVars, queueVars
  <2>4. TruthInv'
    BY <1>18, RequestsAssumption DEF IInv, TypeOK, TruthInv, Truth, CallInv, PlaceInv,
        Untouched, Serialized, Motion, Recover, callerVars, requestVars, queueVars
  <2>5. StopInv'
    BY <1>18, RequestsAssumption DEF IInv, TypeOK, StopInv, PlaceInv, Untouched, Motion,
        Recover, callerVars, requestVars, queueVars
  <2>6. ClosedInv'
    BY <1>18, RequestsAssumption DEF IInv, TypeOK, ClosedInv, Drained, Motion, PlaceInv,
        Untouched, Recover, callerVars, requestVars, queueVars
  <2>7. AbandonedCallQuarantines'
    BY <1>18, RequestsAssumption DEF IInv, TypeOK, AbandonedCallQuarantines, Motion, PlaceInv,
        Untouched, Recover, callerVars, requestVars, queueVars
  <2> QED
    BY <1>0, <2>1, <2>2, <2>3, <2>4, <2>5, <2>6, <2>7 DEF IInv
<1>19. CASE Close
  <2>1. TypeOK'
    BY <1>0, <1>19, RequestsAssumption DEF IInv, TypeOK, Statuses, Operations, Budgets, Events,
        Phases, Calls, Confirmations, Motion, Close, Discard, Leave, callerVars, stopVars
  <2>2. PlaceInv'
    BY <1>19, RequestsAssumption DEF IInv, TypeOK, PlaceInv, Untouched, Serialized, Motion,
        Close, Discard, Leave, callerVars, stopVars
  <2>3. CallInv'
    BY <1>19, RequestsAssumption DEF IInv, TypeOK, CallInv, PlaceInv, Untouched, Serialized,
        Motion, Close, Discard, Leave, callerVars, stopVars
  <2>4. TruthInv'
    BY <1>19, RequestsAssumption DEF IInv, TypeOK, TruthInv, Truth, CallInv, PlaceInv,
        Untouched, Serialized, Motion, Close, Discard, Leave, callerVars, stopVars
  <2>5. StopInv'
    BY <1>19, RequestsAssumption DEF IInv, TypeOK, StopInv, PlaceInv, Untouched, Motion, Close,
        Discard, Leave, callerVars, stopVars
  <2>6. ClosedInv'
    BY <1>19, RequestsAssumption DEF IInv, TypeOK, ClosedInv, Drained, Motion, PlaceInv,
        Untouched, Close, Discard, Leave, callerVars, stopVars
  <2>7. AbandonedCallQuarantines'
    BY <1>19, RequestsAssumption DEF IInv, TypeOK, AbandonedCallQuarantines, Motion, PlaceInv,
        Untouched, Close, Discard, Leave, callerVars, stopVars
  <2> QED
    BY <1>0, <2>1, <2>2, <2>3, <2>4, <2>5, <2>6, <2>7 DEF IInv
<1>20. CASE ReportClose
  BY <1>0, <1>20, RequestsAssumption DEF IInv, TypeOK, PlaceInv, Untouched, Serialized, CallInv,
      TruthInv, Truth, StopInv, Motion, ClosedInv, Drained, AbandonedCallQuarantines, Statuses,
      Operations, Budgets, Events, Phases, Calls, Confirmations, ReportClose, callerVars,
      requestVars, queueVars, stopVars
<1>21. CASE UNCHANGED vars
  BY <1>0, <1>21 DEF IInv, TypeOK, PlaceInv, Untouched, CallInv, TruthInv, Truth, StopInv,
      Motion, ClosedInv, Drained, AbandonedCallQuarantines, vars, callerVars, requestVars,
      queueVars, stopVars
<1> QED
  BY <1>1, <1>2, <1>3, <1>4, <1>5, <1>6, <1>7, <1>8, <1>9, <1>10, <1>11, <1>12, <1>13,
      <1>14, <1>15, <1>16, <1>17, <1>18, <1>19, <1>20, <1>21
  DEF Next, CallerStep, CallerReturns, Worker, Driver

\* The scheduler starts in the invariant.
LEMMA Initial == Init => IInv
<1> SUFFICES ASSUME Init PROVE IInv
  OBVIOUS
<1>1. TypeOK
  BY DEF Init, TypeOK, Statuses, Operations, Budgets, Events, Phases, Calls, Confirmations
<1>2. PlaceInv /\ CallInv /\ TruthInv
  BY RequestsAssumption DEF Init, PlaceInv, Untouched, CallInv, TruthInv, Truth, Motion
<1>3. StopInv /\ ClosedInv /\ AbandonedCallQuarantines
  BY DEF Init, StopInv, ClosedInv, Drained, Motion, AbandonedCallQuarantines
<1>4. CountInv
  <2>1. Reads(queue) = {} /\ Motion(queue) = {}
    BY DEF Init, Reads, Motion
  <2> QED
    BY <2>1, FS_EmptySet, LimitsAssumption DEF Init, CountInv
<1> QED
  BY <1>1, <1>2, <1>3, <1>4 DEF IInv

\* The invariant holds in every reachable state.
LEMMA Invariance == Spec => []IInv
<1> QED
  BY Initial, Inductive, PTL DEF Spec

\* Type correctness of the scheduler.
THEOREM TypeCorrect == Spec => []TypeOK
<1>1. IInv => TypeOK
  BY DEF IInv
<1> QED
  BY <1>1, Invariance, PTL

\* The deque, the read counter and the stop pointer agree in every state.
THEOREM QueueStaysConsistent == Spec => []QueueConsistent
<1>1. IInv => QueueConsistent
  BY DEF IInv, QueueConsistent, PlaceInv, StopInv, CountInv
<1> QED
  BY <1>1, Invariance, PTL

\* No caller is ever told an untruth about its driver call.
THEOREM AnswersStayTruthful == Spec => []AnswersTruthful
<1>1. IInv => AnswersTruthful
  BY DEF IInv, AnswersTruthful, TruthInv, Truth
<1> QED
  BY <1>1, Invariance, PTL

\* An abandoned driver call keeps the bus quarantined and motion out of the queue.
THEOREM AbandonedCallsQuarantine == Spec => []AbandonedCallQuarantines
<1>1. IInv => AbandonedCallQuarantines
  BY DEF IInv
<1> QED
  BY <1>1, Invariance, PTL

\* A bus that close() reported drained has no driver call in flight, then or later.
THEOREM CloseReportsStayHonest == Spec => []CloseReportHonest
<1>1. IInv => CloseReportHonest
  BY RequestsAssumption DEF IInv, CloseReportHonest, ClosedInv, CallInv, Drained
<1> QED
  BY <1>1, Invariance, PTL

\* Stops overtake reads and actions.
THEOREM MotionWaitsForStops == Spec => NoMotionDuringStop
<1>1. IInv /\ [Next]_vars =>
        [\A r \in Requests : Pop(r) /\ op[r] # "stop" =>
             preCall = NoRequest /\ \A q \in queue : op[q] # "stop"]_vars
  <2> SUFFICES ASSUME IInv, NEW r \in Requests, Pop(r), op[r] # "stop"
               PROVE  preCall = NoRequest /\ \A q \in queue : op[q] # "stop"
    OBVIOUS
  <2>1. preCall = NoRequest
    BY DEF IInv, ClosedInv, Motion, Pop
  <2>2. ASSUME NEW q \in queue, op[q] = "stop" PROVE FALSE
    BY <2>2 DEF IInv, StopInv, Pop
  <2> QED
    BY <2>1, <2>2
<1> QED
  BY <1>1, Invariance, PTL DEF Spec, NoMotionDuringStop

-----------------------------------------------------------------------------
(* The scheduler implements the abstract port.                             *)

\* The status the worker leaves behind says how the driver call went, and there
\* is one before the caller is woken; who has not called has no operation, and
\* who has not been answered has no answer.
ResultInv ==
    \A r \in Requests :
        /\ result[r] = "COMPLETED" => call[r] \in Port!Returned
        /\ result[r] = "FAILED" => call[r] = "raised"
        /\ r \in done /\ op[r] # "preemptive" => result[r] # "none"
        /\ phase[r] = "idle" <=> op[r] = "none"
        /\ phase[r] # "answered" => answer[r] = "none"
        /\ phase[r] = "noting" => op[r] = "preemptive"

\* Every step keeps that.
LEMMA ResultStep == IInv /\ ResultInv /\ [Next]_vars => ResultInv'
<1> SUFFICES ASSUME IInv, ResultInv, [Next]_vars PROVE ResultInv'
  OBVIOUS
<1> USE DEF IInv, TypeOK, ResultInv, PlaceInv, CallInv, Untouched, Serialized, Port!Returned,
        callerVars, requestVars, queueVars, stopVars
<1>1. ASSUME NEW r \in Requests, NEW s \in Submissions, Submit(r, s) PROVE ResultInv'
  BY <1>1, SubmissionsAssumption DEF Submit, APICalls
<1>2. ASSUME NEW r \in Requests, PreemptiveCall(r) PROVE ResultInv'
  BY <1>2 DEF PreemptiveCall
<1>3. ASSUME NEW r \in Requests, DeadlinePasses(r) \/ SetCancelEvent(r) \/ WaitReturns(r)
                  \/ WaitExpires(r) \/ LateNotStarted(r) \/ PreemptiveNote(r)
      PROVE ResultInv'
  BY <1>3 DEF DeadlinePasses, SetCancelEvent, WaitReturns, WaitExpires, LateNotStarted,
      PreemptiveNote, Tell, Leave
<1>4. ASSUME NEW status \in {"UNKNOWN", "CANCELLED"}, NEW r \in Requests, Discard(status),
             UNCHANGED <<op, call>>,
             UNCHANGED <<phase, answer>> \/ (op[r] # "none" /\ \E st : Tell(r, st))
                 \/ (op[r] = "preemptive" /\ phase' = [phase EXCEPT ![r] = "noting"] /\ UNCHANGED answer
                       /\ phase[r] = "late")
      PROVE ResultInv'
  BY <1>4 DEF Discard, Motion, Tell
<1>5. ASSUME NEW r \in Requests, LateStarted(r) PROVE ResultInv'
  BY <1>4, <1>5 DEF LateStarted, Tell
<1>6. ASSUME NEW r \in Requests, PreemptiveEnter(r) PROVE ResultInv'
  BY <1>6 DEF PreemptiveEnter, Tell
<1>7. ASSUME NEW r \in Requests, PreemptiveAnswer(r) PROVE ResultInv'
  <2>1. op[r] = "preemptive" /\ Tell(r, StatusOf(call[r])) /\ UNCHANGED <<op, call>>
    BY <1>7 DEF PreemptiveAnswer, Tell
  <2>2. CASE Discard("UNKNOWN")
    BY <1>4, <2>1, <2>2
  <2>3. CASE UNCHANGED <<result, done>>
    BY <2>1, <2>3 DEF Tell
  <2> QED
    BY <1>7, <2>2, <2>3 DEF PreemptiveAnswer
<1>8. ASSUME NEW r \in Requests, PreemptiveLate(r) PROVE ResultInv'
  BY <1>4, <1>8 DEF PreemptiveLate
<1>9. ASSUME NEW r \in Requests, Pop(r) PROVE ResultInv'
  BY <1>9 DEF Pop
<1>10. ASSUME NEW r \in Requests, Skip(r) PROVE ResultInv'
  BY <1>10 DEF Skip, Settle
<1>11. ASSUME NEW r \in Requests, Invoke(r) PROVE ResultInv'
  BY <1>11, RequestsAssumption DEF Invoke, TruthInv, Truth
<1>12. ASSUME NEW r \in Requests, NEW v \in Returns(op[r]), CallReturns(r, v) PROVE ResultInv'
  BY <1>12, RequestsAssumption DEF CallReturns, Settle, StatusOf, Returns
<1>13. ASSUME NEW r \in Requests, NEW v \in Returns(op[r]), PreemptiveReturns(r, v) PROVE ResultInv'
  BY <1>13, RequestsAssumption DEF PreemptiveReturns, TruthInv, Truth, Returns
<1>14. CASE Recover \/ ReportClose
  BY <1>14 DEF Recover, ReportClose
<1>15. CASE Close
  BY <1>15 DEF Close, Discard, Motion
<1>16. CASE UNCHANGED vars
  BY <1>16 DEF vars
<1> QED
  BY <1>1, <1>2, <1>3, <1>5, <1>6, <1>7, <1>8, <1>9, <1>10, <1>11, <1>12, <1>13, <1>14, <1>15, <1>16
  DEF Next, CallerStep, CallerReturns, Worker, Driver

\* Motion that is dropped from the deque is a discard of the port.
LEMMA DiscardIsPort ==
    ASSUME IInv, NEW status, Discard(status), UNCHANGED op
    PROVE  \E D \in SUBSET queue : Port!Discards(D)
<1>1. Motion(queue) \in SUBSET queue
  BY DEF Motion
<1>2. Port!Discards(Motion(queue))
  BY DEF Port!Discards, Port!StopIn, Discard, Leave, Motion
<1> QED
  BY <1>1, <1>2

\* While the deque has no stop pointer there is no stop in it.
LEMMA NoStopIn == ASSUME IInv, queuedStop = NoRequest PROVE ~Port!StopIn(queue)
  BY DEF IInv, StopInv, Port!StopIn

\* A request that is admitted or refused is asked of the port.
LEMMA SubmitIsAsk ==
    ASSUME IInv, ResultInv, NEW r \in Requests, NEW s \in Submissions, Submit(r, s)
    PROVE  s.op \in {"execute", "read", "stop"} /\ Port!Ask(r, s.op)
<1> USE DEF Submit, requestVars, stopVars
<1>1. s.op \in {"execute", "read", "stop"}
  BY SubmissionsAssumption DEF APICalls
<1>2. op[r] = "none" /\ op' = [op EXCEPT ![r] = s.op]
  BY DEF ResultInv
<1>3. UNCHANGED <<active, preCall, call, closeReport = "COMPLETED">>
  OBVIOUS
<1>4. CASE Admission(s) # "queued"
  <2>1. Admission(s) \in {"EXPIRED", "REJECTED", "UNKNOWN"}
    BY <1>4 DEF Admission
  <2>2. answer' = [answer EXCEPT ![r] = Admission(s)] /\ queue' = queue
    BY <1>4 DEF queueVars
  <2> QED
    BY <1>1, <1>2, <1>3, <2>1, <2>2 DEF Port!Ask
<1>5. CASE Admission(s) = "queued"
  <2>1. queue' = queue \cup {r} /\ answer' = answer
    BY <1>5 DEF Enqueue
  <2>2. closeReport # "COMPLETED"
    BY <1>5 DEF Admission, IInv, ClosedInv
  <2>3. s.op = "stop" => ~Port!StopIn(queue) /\ ~(active # NoRequest /\ op[active] = "stop")
    BY <1>5, NoStopIn DEF Admission, Full, ActiveIsStop
  <2> QED
    BY <1>1, <1>2, <1>3, <2>1, <2>2, <2>3 DEF Port!Ask
<1> QED
  BY <1>1, <1>4, <1>5

\* A caller that gets an answer from its wait, or gives up, is answered by the port.
LEMMA AnswersArePort ==
    ASSUME IInv, ResultInv, NEW r \in Requests,
           WaitReturns(r) \/ LateNotStarted(r) \/ LateStarted(r) \/ PreemptiveAnswer(r)
             \/ PreemptiveNote(r)
    PROVE  \E st \in Statuses : Port!Answer(r, st)
<1> USE DEF Statuses, Tell, Port!Answer, Port!Truthful, Port!NeverDriven, Port!Returned,
            requestVars, queueVars, stopVars
<1>0. \E D \in SUBSET queue : UNCHANGED queue => Port!Discards(D)
  <2>1. UNCHANGED queue => Port!Discards({})
    BY DEF Port!Discards, Port!StopIn
  <2> QED
    BY <2>1
<1>1. CASE WaitReturns(r)
  <2>1. result[r] \in Statuses /\ answer[r] = "none" /\ op[r] # "none"
    BY <1>1 DEF WaitReturns, ResultInv, IInv, TypeOK
  <2>2. Port!Truthful(r, result[r])
    BY <1>1, <2>1 DEF WaitReturns, ResultInv, IInv, TruthInv, Truth, PlaceInv
  <2> QED
    BY <1>0, <1>1, <2>1, <2>2 DEF WaitReturns
<1>2. CASE LateNotStarted(r)
  <2>1. Port!Discards({r} \cap queue)
    BY <1>2 DEF LateNotStarted, Port!Discards, Port!StopIn, Leave
  <2>2. r # active /\ r # preCall /\ call[r] = "none" /\ r \notin queue'
    BY <1>2, RequestsAssumption DEF LateNotStarted, Leave, IInv, PlaceInv, CallInv
  <2>3. answer[r] = "none" /\ op[r] # "none"
    BY <1>2 DEF LateNotStarted, ResultInv
  <2>4. \E D \in SUBSET queue : Port!Discards(D)
    BY <2>1
  <2>5. UNCHANGED <<op, active, preCall, call, closeReport>>
    BY <1>2 DEF LateNotStarted
  <2>6. CASE event[r] # "none"
    <3>1. answer' = [answer EXCEPT ![r] = "CANCELLED"]
      BY <1>2, <2>6 DEF LateNotStarted
    <3> QED
      BY <2>2, <2>3, <2>4, <2>5, <3>1
  <2>7. CASE event[r] = "none"
    <3>1. answer' = [answer EXCEPT ![r] = "UNKNOWN"]
      BY <1>2, <2>7 DEF LateNotStarted
    <3> QED
      BY <2>2, <2>3, <2>4, <2>5, <3>1
  <2> QED
    BY <2>6, <2>7
<1>3. CASE LateStarted(r)
  <2>1. \E D \in SUBSET queue : Port!Discards(D)
    BY <1>3, DiscardIsPort DEF LateStarted
  <2>2. r \notin queue' \/ op[r] = "stop"
    BY <1>3 DEF LateStarted, Discard, Leave, IInv, PlaceInv
  <2>3. answer[r] = "none" /\ op[r] # "none"
    BY <1>3 DEF LateStarted, ResultInv
  <2> QED
    BY <1>3, <2>1, <2>2, <2>3 DEF LateStarted
<1>4. CASE PreemptiveAnswer(r)
  <2>1. \E D \in SUBSET queue : Port!Discards(D)
    <3>1. CASE Discard("UNKNOWN")
      BY <1>4, <3>1, DiscardIsPort DEF PreemptiveAnswer
    <3>2. CASE UNCHANGED queue
      BY <1>0, <3>2
    <3> QED
      BY <1>4, <3>1, <3>2 DEF PreemptiveAnswer
  <2>2. call[r] \in {"raised", "silent", "confirmed", "denied"}
    BY <1>4 DEF PreemptiveAnswer, IInv, TypeOK, CallInv, Calls
  <2>3. answer[r] = "none" /\ op[r] # "none"
    BY <1>4 DEF PreemptiveAnswer, ResultInv
  <2>4. StatusOf(call[r]) \in Statuses /\ Port!Truthful(r, StatusOf(call[r]))
    BY <2>2 DEF StatusOf
  <2>5. answer' = [answer EXCEPT ![r] = StatusOf(call[r])]
        /\ UNCHANGED <<op, active, preCall, call, closeReport>>
    BY <1>4 DEF PreemptiveAnswer
  <2> QED
    BY <2>1, <2>3, <2>4, <2>5
<1>5. CASE PreemptiveNote(r)
  <2>1. r \notin queue
    BY <1>5 DEF PreemptiveNote, ResultInv, IInv, PlaceInv, Serialized
  <2>2. answer[r] = "none" /\ op[r] # "none"
    BY <1>5 DEF PreemptiveNote, ResultInv
  <2> QED
    BY <1>0, <1>5, <2>1, <2>2 DEF PreemptiveNote
<1> QED
  BY <1>1, <1>2, <1>3, <1>4, <1>5

\* What the worker and the driver do is what the port does.
LEMMA WorkerIsPort ==
    ASSUME IInv, NEW r \in Requests
    PROVE  /\ Pop(r) => Port!Take(r)
           /\ Skip(r) => Port!Drop(r)
           /\ Invoke(r) => Port!Begin(r)
           /\ \A v : CallReturns(r, v) => Port!End(r, v)
           /\ \A v : PreemptiveReturns(r, v) => Port!UrgentEnd(r, v)
<1> USE DEF callerVars, queueVars, stopVars, requestVars
<1>1. ASSUME Pop(r) PROVE Port!Take(r)
  <2>1. op[r] # "stop" => preCall = NoRequest
    BY <1>1 DEF IInv, ClosedInv, Motion, Pop
  <2>2. op[r] # "stop" => ~Port!StopIn(queue)
    BY <1>1 DEF IInv, StopInv, Pop, Port!StopIn
  <2> QED
    BY <1>1, <2>1, <2>2 DEF Pop, Leave, Port!Take
<1>2. ASSUME Skip(r) PROVE Port!Drop(r)
  BY <1>2 DEF Skip, Settle, Port!Drop
<1>3. ASSUME Invoke(r) PROVE Port!Begin(r)
  BY <1>3 DEF Invoke, Port!Begin
<1>4. ASSUME NEW v, CallReturns(r, v) PROVE Port!End(r, v)
  BY <1>4 DEF CallReturns, Settle, Port!End
<1>5. ASSUME NEW v, PreemptiveReturns(r, v) PROVE Port!UrgentEnd(r, v)
  BY <1>5 DEF PreemptiveReturns, Port!UrgentEnd
<1> QED
  BY <1>1, <1>2, <1>3, <1>4, <1>5

\* A preemptive stop is asked of the port, and refused or begun.
LEMMA PreemptiveIsPort ==
    ASSUME IInv, ResultInv, NEW r \in Requests
    PROVE  /\ PreemptiveCall(r) => Port!Ask(r, "preemptive")
           /\ PreemptiveEnter(r) => Port!UrgentBegin(r) \/ Port!Answer(r, "REJECTED")
           /\ PreemptiveLate(r) => Port!Discard
<1> USE DEF queueVars, stopVars, requestVars
<1>1. ASSUME PreemptiveCall(r) PROVE Port!Ask(r, "preemptive")
  BY <1>1 DEF PreemptiveCall, ResultInv, Port!Ask
<1>2. ASSUME PreemptiveEnter(r) PROVE Port!UrgentBegin(r) \/ Port!Answer(r, "REJECTED")
  <2>1. Untouched(r) /\ op[r] = "preemptive"
    BY <1>2 DEF PreemptiveEnter, IInv, PlaceInv
  <2>2. CASE closed \/ preCall # NoRequest \/ queuedStop # NoRequest
    <3>1. Port!Discards({}) /\ {} \in SUBSET queue
      BY <1>2 DEF PreemptiveEnter, Port!Discards, Port!StopIn
    <3>2. Port!Truthful(r, "REJECTED")
      BY <1>2, <2>1 DEF PreemptiveEnter, Port!Truthful, Untouched, Port!NeverDriven
    <3> QED
      BY <1>2, <2>1, <2>2, <3>1, <3>2 DEF PreemptiveEnter, Tell, Port!Answer, Untouched
  <2>3. CASE ~(closed \/ preCall # NoRequest \/ queuedStop # NoRequest)
    BY <1>2, <2>1, <2>3, NoStopIn DEF PreemptiveEnter, Port!UrgentBegin, Untouched, IInv, ClosedInv
  <2> QED
    BY <2>2, <2>3
<1>3. ASSUME PreemptiveLate(r) PROVE Port!Discard
  BY <1>3, DiscardIsPort DEF PreemptiveLate, Port!Discard
<1> QED
  BY <1>1, <1>2, <1>3

\* Every step of the scheduler is one step of the port, or none.
LEMMA PortStep == IInv /\ ResultInv /\ [Next]_vars => [Port!Next]_(Port!vars)
<1> SUFFICES ASSUME IInv, ResultInv, [Next]_vars PROVE [Port!Next]_(Port!vars)
  OBVIOUS
<1>1. ASSUME NEW r \in Requests, NEW s \in Submissions, Submit(r, s) PROVE Port!Next
  BY <1>1, SubmitIsAsk DEF Port!Next
<1>2. ASSUME NEW r \in Requests, PreemptiveCall(r) \/ PreemptiveEnter(r) \/ PreemptiveLate(r)
      PROVE Port!Next
  BY <1>2, PreemptiveIsPort DEF Port!Next, Port!NeverDriven
<1>3. ASSUME NEW r \in Requests, DeadlinePasses(r) \/ SetCancelEvent(r) \/ WaitExpires(r)
      PROVE UNCHANGED Port!vars
  BY <1>3 DEF DeadlinePasses, SetCancelEvent, WaitExpires, Port!vars, requestVars, queueVars,
      stopVars, callerVars
<1>4. ASSUME NEW r \in Requests,
             WaitReturns(r) \/ LateNotStarted(r) \/ LateStarted(r) \/ PreemptiveAnswer(r)
               \/ PreemptiveNote(r)
      PROVE Port!Next
  BY <1>4, AnswersArePort DEF Port!Next, Port!NeverDriven, Statuses
<1>5. ASSUME NEW r \in Requests, Worker(r) PROVE Port!Next
  BY <1>5, WorkerIsPort DEF Worker, Port!Next
<1>6. ASSUME NEW r \in Requests, Driver(r) PROVE Port!Next
  <2>1. PICK v \in Returns(op[r]) : CallReturns(r, v) \/ PreemptiveReturns(r, v)
    BY <1>6 DEF Driver
  <2>2. v \in Port!Returned \cup {"raised"}
    BY DEF Returns, Port!Returned
  <2> QED
    BY <2>1, <2>2, WorkerIsPort DEF Port!Next
<1>7. CASE Close
  BY <1>7, DiscardIsPort DEF Close, Port!Next, Port!Discard, callerVars, stopVars
<1>8. CASE ReportClose
  <2>1. CASE Drained
    BY <1>8, <2>1 DEF ReportClose, Drained, Port!Next, Port!Drained, callerVars, requestVars,
        queueVars, stopVars
  <2>2. CASE ~Drained
    BY <1>8, <2>2 DEF ReportClose, IInv, ClosedInv, Port!vars, callerVars, requestVars, queueVars,
        stopVars
  <2> QED
    BY <2>1, <2>2
<1>9. CASE Recover
  BY <1>9 DEF Recover, Port!vars, callerVars, requestVars, queueVars, stopVars
<1>10. CASE UNCHANGED vars
  BY <1>10 DEF vars, Port!vars, callerVars, requestVars, queueVars, stopVars
<1> QED
  BY <1>1, <1>2, <1>3, <1>4, <1>5, <1>6, <1>7, <1>8, <1>9, <1>10
  DEF Next, CallerStep, CallerReturns

\* RobotIOScheduler implements the port its callers rely on: every behaviour of
\* the deque, the worker and the waiting callers is one of the abstract port.
THEOREM PortIsKept == Spec => PortKept
<1>1. Init => ResultInv /\ Port!Init
  BY DEF Init, ResultInv, Port!Init
<1>2. ResultInv /\ IInv /\ [Next]_vars => ResultInv'
  BY ResultStep
<1>3. Spec => []ResultInv
  BY <1>1, <1>2, Invariance, PTL DEF Spec
<1> QED
  BY <1>1, <1>3, PortStep, Invariance, PTL DEF Spec, PortKept, Port!Spec

-----------------------------------------------------------------------------
(* XLeRobotOwner.                                                          *)

\* What is known of the robot is sound, but for the scopes that a stop which was not
\* confirmed may leave active until the whole robot is stopped.
Sound(r) ==
    /\ r \in Robots
    /\ r.hw.active \subseteq r.hw.owned
    /\ r.hw.inherited => r.hw.uncertain
    /\ "inherited" \in r.doubt => r.hw.inherited
    /\ r.doubt # {} => r.hw.uncertain
    /\ r.hw.uncertain \/ r.moving \cap r.hw.owned \subseteq r.hw.active

\* Between the methods of HardwareRobot nothing is active while anything is in doubt.
RobotInv(r) == Sound(r) /\ (r.hw.uncertain => r.hw.active = {})

\* What a handler has in hand, by how far it has got.
HandlerInv ==
    /\ handler.at = "idle" => handler = Idle
    /\ handler.at = "begun" => handler.req \in RemoteCalls /\ handler.task = handler.req.op
    /\ handler.at = "call" =>
         \/ handler.task \in {"fault", "exit"} /\ handler.req = NoCall
         \/ handler.task \in {"arm", "command", "release", "stop", "stop_all", "give_up"} /\ handler.req \in RemoteCalls
    /\ handler.task = "release" => scopeOf[handler.req.client] # "all"
    /\ \A q \in requests : q.op = "release" => scopeOf[q.client] # "all"
    /\ ~up => handler = Idle /\ robot.hw.active = {}

\* The scope s is leased to the enable that activated it.
LeasedTo(s) == armedBy[s] = IF robot_owner # Nobody THEN robot_owner ELSE robot_owners[s]

\* The scopes that the call of a handler is about to stop need no lease any more.
Settled ==
    IF handler.at = "call" /\ handler.task \notin {"arm", "command"}
    THEN IF IsWhole THEN {} ELSE Scopes \ Target
    ELSE Scopes

LeaseInv ==
    /\ robot_owner # Nobody => robot_owners = Unleased
    /\ \A s \in Scopes : armedBy[s] = Nobody <=> s \notin robot.hw.active
    /\ \A s \in robot.hw.active \cap Settled : LeasedTo(s)
    /\ handler.at = "begun" => robot.hw.active \subseteq handler.seen
    /\ handler.at = "call" /\ handler.task = "arm" =>
          robot_owner = Nobody /\ \A s \in Target : robot_owners[s] = Nobody
    /\ handler.at = "call" /\ handler.task = "command" =>
          Held(robot_owner, robot_owners) = Token

OwnerIInv == OwnerTypeOK /\ RobotInv(robot) /\ HandlerInv /\ LeaseInv

-----------------------------------------------------------------------------
(* The methods of HardwareRobot.                                           *)

\* What _stop_locked records of a confirmed stop.
LEMMA ConfirmedFields ==
  ASSUME NEW h \in Hardware, NEW S \in SUBSET Scopes, NEW lifts \in BOOLEAN
  PROVE  /\ Halted(h, S, TRUE, lifts) \in Hardware
         /\ Halted(h, S, TRUE, lifts).active = h.active \ S
         /\ Halted(h, S, TRUE, lifts).owned = h.owned
         /\ Halted(h, S, TRUE, lifts).inherited <=> h.inherited /\ ~lifts
         /\ Halted(h, S, TRUE, lifts).uncertain <=> (h.inherited /\ ~lifts) \/ (h.uncertain /\ S # Scopes)
<1>1. Halted(h, S, TRUE, lifts) \in Hardware
  BY DEF Halted, Hardware
<1>2. Halted(h, S, TRUE, lifts).active = h.active \ S /\ Halted(h, S, TRUE, lifts).owned = h.owned
  BY DEF Halted, Hardware
<1>3. Halted(h, S, TRUE, lifts).inherited <=> h.inherited /\ ~lifts
  BY DEF Halted, Hardware
<1>4. Halted(h, S, TRUE, lifts).uncertain <=> (h.inherited /\ ~lifts) \/ (h.uncertain /\ S # Scopes)
  BY DEF Halted, Hardware
<1> QED
  BY <1>1, <1>2, <1>3, <1>4

\* What it records of a stop that was not confirmed.
LEMMA UnconfirmedFields ==
  ASSUME NEW h \in Hardware, NEW S \in SUBSET Scopes
  PROVE  /\ Halted(h, S, FALSE, FALSE) \in Hardware
         /\ Halted(h, S, FALSE, FALSE).active = h.active \ S
         /\ Halted(h, S, FALSE, FALSE).owned = h.owned
         /\ Halted(h, S, FALSE, FALSE).inherited <=> h.inherited
         /\ Halted(h, S, FALSE, FALSE).uncertain <=> TRUE
<1>1. Halted(h, S, FALSE, FALSE) \in Hardware
  BY DEF Halted, Hardware
<1>2. Halted(h, S, FALSE, FALSE).active = h.active \ S /\ Halted(h, S, FALSE, FALSE).owned = h.owned
  BY DEF Halted, Hardware
<1>3. Halted(h, S, FALSE, FALSE).inherited <=> h.inherited
  BY DEF Halted, Hardware
<1>4. Halted(h, S, FALSE, FALSE).uncertain <=> TRUE
  BY DEF Halted, Hardware
<1> QED
  BY <1>1, <1>2, <1>3, <1>4

\* A stop that is not confirmed puts what it names in doubt.
LEMMA UnconfirmedStop ==
  ASSUME NEW r, Sound(r), NEW S \in SUBSET Scopes, NEW m \in SUBSET r.moving,
         NEW x, x = [r EXCEPT !.hw = Halted(r.hw, S, FALSE, FALSE), !.moving = m, !.doubt = r.doubt \cup S]
  PROVE  Sound(x) /\ x.hw.active = r.hw.active \ S
<1> DEFINE h == Halted(r.hw, S, FALSE, FALSE)
           d == r.doubt \cup S
<1>1. r \in Robots /\ r.hw \in Hardware
  BY DEF Sound, Robots
<1>2. /\ h \in Hardware /\ h.active = r.hw.active \ S /\ h.owned = r.hw.owned
      /\ (h.inherited <=> r.hw.inherited) /\ h.uncertain
  BY <1>1, UnconfirmedFields
<1>3. m \in SUBSET Scopes /\ d \in SUBSET (Scopes \cup {"inherited"})
  BY <1>1 DEF Robots
<1>4. x = [r EXCEPT !.hw = h, !.moving = m, !.doubt = d]
  OBVIOUS
<1>5. "inherited" \in d => "inherited" \in r.doubt
  BY DEF Scopes
<1> HIDE DEF h, d
<1>6. x \in Robots /\ x.hw = h /\ x.doubt = d
  BY <1>1, <1>2, <1>3, <1>4 DEF Robots
<1> QED
  BY <1>2, <1>5, <1>6 DEF Sound

\* One stop: the scopes it names are dropped, what stays active is still watched, and only
\* a confirmed one leaves other scopes active for good.
LEMMA StopOfOutcome ==
  ASSUME NEW r, Sound(r), NEW S \in SUBSET Scopes, NEW writes \in BOOLEAN, NEW recover \in BOOLEAN,
         NEW o \in StopOf(r, S, writes, recover)
  PROVE  /\ Sound(o.robot) /\ o.ok \in BOOLEAN
         /\ \A s \in o.robot.hw.active : s \in r.hw.active /\ s \notin S
         /\ RobotInv(r) /\ o.ok => RobotInv(o.robot)
<1> DEFINE good(l) == [r EXCEPT !.hw = Halted(r.hw, S, TRUE, l), !.moving = r.moving \ S,
                                !.doubt = r.doubt \ (S \cup (IF l THEN {"inherited"} ELSE {}))]
           bad(m) == [r EXCEPT !.hw = Halted(r.hw, S, FALSE, FALSE), !.moving = m, !.doubt = r.doubt \cup S]
<1>1. ASSUME NEW l \in BOOLEAN, l => S = Scopes
      PROVE  Sound(good(l)) /\ good(l).hw.active = r.hw.active \ S /\ (RobotInv(r) => RobotInv(good(l)))
  <2> DEFINE h == Halted(r.hw, S, TRUE, l)
             m == r.moving \ S
             d == r.doubt \ (S \cup (IF l THEN {"inherited"} ELSE {}))
  <2>1. r \in Robots /\ r.hw \in Hardware
    BY DEF Sound, Robots
  <2>2. h \in Hardware /\ h.active = r.hw.active \ S /\ h.owned = r.hw.owned
    <3>1. h.active = r.hw.active \ S
      BY <2>1 DEF Halted, Hardware
    <3>2. h.owned = r.hw.owned
      BY <2>1 DEF Halted, Hardware
    <3>3. h \in Hardware
      BY <2>1, ConfirmedFields
    <3> QED
      BY <3>1, <3>2, <3>3
  <2>3. h.inherited <=> r.hw.inherited /\ ~l
    BY <2>1, ConfirmedFields
  <2>4. h.uncertain <=> (r.hw.inherited /\ ~l) \/ (r.hw.uncertain /\ S # Scopes)
    BY <2>1, ConfirmedFields
  <2>5. m \in SUBSET Scopes /\ d \in SUBSET (Scopes \cup {"inherited"})
    BY <2>1 DEF Robots
  <2>6. good(l) = [r EXCEPT !.hw = h, !.moving = m, !.doubt = d]
    OBVIOUS
  <2>7. "inherited" \in d => "inherited" \in r.doubt /\ ~l
    OBVIOUS
  <2>8. d # {} => r.doubt # {}
    OBVIOUS
  <2>9. S = Scopes => m = {} /\ d \subseteq {"inherited"}
    BY <2>1 DEF Robots
  <2>10. m \subseteq r.moving
    OBVIOUS
  <2>11. \A j \in m : j \notin S
    OBVIOUS
  <2> HIDE DEF h, m, d, good
  <2>12. good(l) \in Robots /\ good(l).hw = h /\ good(l).moving = m /\ good(l).doubt = d
    BY <2>1, <2>2, <2>5, <2>6 DEF Robots
  <2>13. "inherited" \in d => h.inherited
    BY <2>3, <2>7 DEF Sound
  <2>14. d # {} => h.uncertain
    <3>1. CASE S = Scopes
      BY <3>1, <2>3, <2>4, <2>9, <2>13
    <3>2. CASE S # Scopes
      BY <3>2, <2>4, <2>8 DEF Sound
    <3> QED
      BY <3>1, <3>2
  <2>15. h.uncertain \/ m \cap h.owned \subseteq h.active
    <3>1. CASE S = Scopes
      BY <3>1, <2>9
    <3>2. CASE S # Scopes
      BY <3>2, <2>2, <2>4, <2>10, <2>11 DEF Sound
    <3> QED
      BY <3>1, <3>2
  <2>16. h.active \subseteq h.owned /\ (h.inherited => h.uncertain)
    BY <2>2, <2>3, <2>4 DEF Sound
  <2>17. RobotInv(r) /\ h.uncertain => h.active = {}
    BY <2>2, <2>4 DEF Sound, RobotInv
  <2> QED
    BY <2>2, <2>12, <2>13, <2>14, <2>15, <2>16, <2>17 DEF Sound, RobotInv
<1>2. ASSUME NEW m \in SUBSET r.moving PROVE Sound(bad(m)) /\ bad(m).hw.active = r.hw.active \ S
  <2> DEFINE x == bad(m)
  <2>1. x = [r EXCEPT !.hw = Halted(r.hw, S, FALSE, FALSE), !.moving = m, !.doubt = r.doubt \cup S]
    OBVIOUS
  <2> HIDE DEF x
  <2>2. Sound(x) /\ x.hw.active = r.hw.active \ S
    BY <2>1, UnconfirmedStop
  <2> QED
    BY <2>2 DEF x
<1>3. \/ \E l \in BOOLEAN : (l => S = Scopes) /\ o = Outcome(good(l), TRUE)
      \/ \E m \in SUBSET r.moving : o = Outcome(bad(m), FALSE)
  <2> DEFINE lifts == recover /\ writes /\ S = Scopes
  <2>1. \A X : r.moving \ X \in SUBSET r.moving
    OBVIOUS
  <2>2. StopOf(r, S, writes, recover) =
          {Outcome(good(lifts), TRUE)} \cup {Outcome(bad(r.moving \ X), FALSE) : X \in SUBSET (IF writes THEN S ELSE {})}
    BY DEF StopOf
  <2>3. lifts \in BOOLEAN /\ (lifts => S = Scopes)
    OBVIOUS
  <2> HIDE DEF lifts, good, bad
  <2> QED
    BY <2>1, <2>2, <2>3
<1> HIDE DEF good, bad
<1>4. ASSUME NEW l \in BOOLEAN, l => S = Scopes, o = Outcome(good(l), TRUE)
      PROVE  o.robot = good(l) /\ o.ok /\ o.ok \in BOOLEAN
  BY <1>4 DEF Outcome
<1>5. ASSUME NEW m \in SUBSET r.moving, o = Outcome(bad(m), FALSE)
      PROVE  o.robot = bad(m) /\ ~o.ok /\ o.ok \in BOOLEAN
  BY <1>5 DEF Outcome
<1>6. CASE \E l \in BOOLEAN : (l => S = Scopes) /\ o = Outcome(good(l), TRUE)
  BY <1>1, <1>4, <1>6
<1>7. CASE \E m \in SUBSET r.moving : o = Outcome(bad(m), FALSE)
  BY <1>2, <1>5, <1>7
<1> QED
  BY <1>3, <1>6, <1>7

\* A stop of the whole robot ends with nothing active, confirmed or not.
LEMMA WholeStopOutcome ==
  ASSUME NEW r, Sound(r), NEW writes \in BOOLEAN, NEW recover \in BOOLEAN,
         NEW o \in StopOf(r, Scopes, writes, recover)
  PROVE  RobotInv(o.robot) /\ o.robot.hw.active = {}
<1>1. Sound(o.robot) /\ o.robot.hw.active \subseteq r.hw.active \ Scopes
  BY StopOfOutcome
<1>2. r.hw.active \subseteq Scopes
  BY DEF Sound, Robots, Hardware
<1> QED
  BY <1>1, <1>2 DEF RobotInv

LEMMA WholeIfUnconfirmedOutcome ==
  ASSUME NEW o, Sound(o.robot), o.ok \in BOOLEAN, o.ok => RobotInv(o.robot), NEW f \in WholeIfUnconfirmed(o)
  PROVE  RobotInv(f.robot) /\ f.robot.hw.active \subseteq o.robot.hw.active
<1>1. CASE o.ok \/ o.robot.hw.active = {}
  BY <1>1 DEF WholeIfUnconfirmed, RobotInv
<1>2. CASE ~(o.ok \/ o.robot.hw.active = {})
  <2>1. f \in StopOf(o.robot, Scopes, TRUE, FALSE)
    BY <1>2 DEF WholeIfUnconfirmed
  <2> QED
    BY <2>1, WholeStopOutcome
<1> QED
  BY <1>1, <1>2

\* stop, stop_all
LEMMA StopOutcome ==
  ASSUME NEW r, RobotInv(r), NEW S \in SUBSET Scopes, NEW recover \in BOOLEAN, NEW o \in Stop(r, S, recover)
  PROVE  RobotInv(o.robot) /\ o.robot.hw.active \subseteq r.hw.active \ S
<1>1. PICK p \in StopOf(r, S, r.hw.owned \cap S # {}, recover) : \E f \in WholeIfUnconfirmed(p) : o = Outcome(f.robot, p.ok)
  BY DEF Stop
<1>2. PICK f \in WholeIfUnconfirmed(p) : o = Outcome(f.robot, p.ok)
  BY <1>1
<1>3. Sound(p.robot) /\ p.ok \in BOOLEAN /\ p.robot.hw.active \subseteq r.hw.active \ S /\ (p.ok => RobotInv(p.robot))
  <2> DEFINE writes == r.hw.owned \cap S # {}
  <2>1. Sound(r) /\ writes \in BOOLEAN /\ p \in StopOf(r, S, writes, recover)
    BY <1>1 DEF RobotInv
  <2> HIDE DEF writes
  <2> QED
    BY <2>1, StopOfOutcome
<1>4. RobotInv(f.robot) /\ f.robot.hw.active \subseteq p.robot.hw.active
  BY <1>2, <1>3, WholeIfUnconfirmedOutcome
<1>5. o.robot = f.robot
  BY <1>2 DEF Outcome
<1> QED
  BY <1>3, <1>4, <1>5

\* A stop of the watchdog's, or its breaking down.
LEMMA WatchdogStopOutcome ==
  ASSUME NEW r, RobotInv(r), NEW s \in Scopes, NEW o \in WatchdogStop(r, s)
  PROVE  RobotInv(o.robot) /\ o.robot.hw.active \subseteq r.hw.active
<1>1. CASE o = WatchdogError(r)
  <2> DEFINE h == [r.hw EXCEPT !.active = {}, !.uncertain = TRUE]
             d == r.doubt \cup Scopes
             x == [r EXCEPT !.hw = h, !.doubt = d]
  <2>1. r \in Robots /\ r.hw \in Hardware
    BY DEF RobotInv, Sound, Robots
  <2>2. h \in Hardware /\ h.active = {} /\ h.uncertain /\ (h.inherited <=> r.hw.inherited)
    BY <2>1 DEF Hardware
  <2>3. d \in SUBSET (Scopes \cup {"inherited"}) /\ ("inherited" \in d => "inherited" \in r.doubt)
    BY <2>1 DEF Robots, Scopes
  <2>4. o.robot = [r EXCEPT !.hw = h, !.doubt = d]
    BY <1>1 DEF WatchdogError, Outcome
  <2> HIDE DEF h, d
  <2>5. o.robot \in Robots /\ o.robot.hw = h /\ o.robot.doubt = d
    BY <2>1, <2>2, <2>3, <2>4 DEF Robots
  <2> QED
    BY <2>2, <2>3, <2>5 DEF RobotInv, Sound
<1>2. ASSUME NEW p \in StopOf(r, {s}, TRUE, FALSE), o \in WholeIfUnconfirmed(p)
      PROVE  RobotInv(o.robot) /\ o.robot.hw.active \subseteq r.hw.active
  <2>1. Sound(p.robot) /\ p.ok \in BOOLEAN /\ p.robot.hw.active \subseteq r.hw.active /\ (p.ok => RobotInv(p.robot))
    <3> DEFINE S == {s}
    <3>1. Sound(r) /\ S \in SUBSET Scopes /\ p \in StopOf(r, S, TRUE, FALSE)
      BY DEF RobotInv
    <3> HIDE DEF S
    <3>2. Sound(p.robot) /\ p.ok \in BOOLEAN /\ p.robot.hw.active \subseteq r.hw.active /\ (p.ok => RobotInv(p.robot))
      BY <3>1, StopOfOutcome
    <3> QED
      BY <3>2 DEF S
  <2>2. RobotInv(o.robot) /\ o.robot.hw.active \subseteq p.robot.hw.active
    BY <1>2, <2>1, WholeIfUnconfirmedOutcome
  <2> QED
    BY <2>1, <2>2
<1> QED
  BY <1>1, <1>2 DEF WatchdogStop

LEMMA WatchdogOutcome ==
  ASSUME NEW r, RobotInv(r), NEW expired \in SUBSET Scopes, NEW o \in Watchdog(r, expired)
  PROVE  RobotInv(o.robot) /\ o.robot.hw.active \subseteq r.hw.active
<1>1. PICK s \in expired : o \in IF expired = {s} THEN WatchdogStop(r, s)
           ELSE UNION {WatchdogStop(p.robot, t) : p \in WatchdogStop(r, s), t \in expired \ {s}}
  BY DEF Watchdog
<1>2. CASE o \in WatchdogStop(r, s)
  BY <1>2, WatchdogStopOutcome
<1>3. ASSUME NEW p \in WatchdogStop(r, s), NEW t \in expired \ {s}, o \in WatchdogStop(p.robot, t)
      PROVE  RobotInv(o.robot) /\ o.robot.hw.active \subseteq r.hw.active
  <2>1. RobotInv(p.robot) /\ p.robot.hw.active \subseteq r.hw.active
    BY WatchdogStopOutcome
  <2>2. RobotInv(o.robot) /\ o.robot.hw.active \subseteq p.robot.hw.active
    BY <1>3, <2>1, WatchdogStopOutcome
  <2> QED
    BY <2>1, <2>2
<1> QED
  BY <1>1, <1>2, <1>3

\* arm: the scopes asked for become active, or at most fewer are.
LEMMA ArmOutcome ==
  ASSUME NEW r, RobotInv(r), NEW S \in SUBSET Scopes, NEW o \in Arm(r, S)
  PROVE  /\ RobotInv(o.robot) /\ o.ok \in BOOLEAN
         /\ o.ok => o.robot.hw.active = r.hw.active \cup S
         /\ ~o.ok => o.robot.hw.active \subseteq r.hw.active
<1>1. r \in Robots /\ r.hw \in Hardware
  BY DEF RobotInv, Sound, Robots
<1>2. CASE S \subseteq r.hw.active
  <2>1. o = Outcome(r, TRUE)
    BY <1>2 DEF Arm
  <2>2. o.robot = r /\ o.ok /\ o.ok \in BOOLEAN
    BY <2>1 DEF Outcome
  <2>3. r.hw.active \cup S = r.hw.active
    BY <1>2
  <2> QED
    BY <2>2, <2>3
<1>3. CASE o = Outcome(r, FALSE)
  BY <1>3 DEF Outcome
<1>4. CASE MayArm(r, S) /\ o = Outcome(Armed(r, S), TRUE)
  <2> DEFINE h == [r.hw EXCEPT !.active = r.hw.active \cup S, !.owned = r.hw.owned \cup S,
                               !.stopped = r.hw.stopped \ S, !.byUs = FALSE]
             p == r.powered \cup S
  <2>1. /\ h \in Hardware /\ h.active = r.hw.active \cup S /\ h.owned = r.hw.owned \cup S
        /\ (h.inherited <=> r.hw.inherited) /\ (h.uncertain <=> r.hw.uncertain)
    BY <1>1 DEF Hardware
  <2>2. p \in SUBSET Scopes
    BY <1>1 DEF Robots
  <2>3. o.robot = [r EXCEPT !.hw = h, !.powered = p] /\ o.ok
    <3>1. o.robot = Armed(r, S) /\ o.ok
      BY <1>4 DEF Outcome
    <3>2. Armed(r, S) = [r EXCEPT !.hw = h, !.powered = p]
      BY DEF Armed
    <3> QED
      BY <3>1, <3>2
  <2>4. o.ok \in BOOLEAN
    BY <1>4 DEF Outcome
  <2> HIDE DEF h, p
  <2>5. o.robot \in Robots /\ o.robot.hw = h /\ o.robot.doubt = r.doubt /\ o.robot.moving = r.moving
    BY <1>1, <2>1, <2>2, <2>3 DEF Robots
  <2>6. ~r.hw.uncertain /\ r.moving \cap S = {}
    BY <1>4 DEF MayArm, Preflight
  <2> QED
    BY <2>1, <2>3, <2>4, <2>5, <2>6 DEF RobotInv, Sound
<1>5. ASSUME MayArm(r, S), NEW T \in SUBSET S, NEW P \in SUBSET T, NEW m \in SUBSET r.moving,
             o = Outcome(ArmFailed(r, S, T, P, m), FALSE)
      PROVE  RobotInv(o.robot) /\ o.ok = FALSE /\ o.robot.hw.active \subseteq r.hw.active
  <2> DEFINE torn == T # {}
             unsure == T # {} \/ r.hw.owned # {}
             h == [r.hw EXCEPT !.active = {}, !.owned = r.hw.owned \cup T, !.byUs = FALSE,
                               !.torn = torn, !.uncertain = unsure]
             p == r.powered \cup P
             d == r.doubt \cup T \cup r.hw.active
  <2>1. h \in Hardware /\ h.active = {} /\ h.owned = r.hw.owned \cup T
    BY <1>1 DEF Hardware
  <2>2. (h.inherited <=> r.hw.inherited) /\ (h.uncertain <=> T # {} \/ r.hw.owned # {})
    BY <1>1 DEF Hardware
  <2>3. p \in SUBSET Scopes /\ d \in SUBSET (Scopes \cup {"inherited"}) /\ m \in SUBSET Scopes
    BY <1>1 DEF Robots, Hardware
  <2>4. o.robot = [r EXCEPT !.hw = h, !.moving = m, !.powered = p, !.doubt = d] /\ o.ok = FALSE
    <3>1. o.robot = ArmFailed(r, S, T, P, m) /\ o.ok = FALSE
      BY <1>5 DEF Outcome
    <3>2. ArmFailed(r, S, T, P, m) = [r EXCEPT !.hw = h, !.moving = m, !.powered = p, !.doubt = d]
      BY DEF ArmFailed
    <3> QED
      BY <3>1, <3>2
  <2>5. ~r.hw.uncertain /\ r.doubt = {} /\ ~r.hw.inherited /\ r.hw.active \subseteq r.hw.owned
    BY <1>5 DEF MayArm, RobotInv, Sound
  <2>6. ("inherited" \notin d) /\ (T = {} /\ r.hw.owned = {} => d = {})
    BY <1>1, <2>5 DEF Scopes, Robots, Hardware
  <2> HIDE DEF h, p, d, torn, unsure
  <2>7. o.robot \in Robots /\ o.robot.hw = h /\ o.robot.doubt = d /\ o.robot.moving = m
    BY <1>1, <2>1, <2>3, <2>4 DEF Robots
  <2> QED
    BY <2>1, <2>2, <2>4, <2>5, <2>6, <2>7 DEF RobotInv, Sound
<1>6. \/ S \subseteq r.hw.active \/ o = Outcome(r, FALSE)
      \/ MayArm(r, S) /\ o = Outcome(Armed(r, S), TRUE)
      \/ MayArm(r, S) /\ \E T \in SUBSET S : \E P \in SUBSET T, m \in SUBSET r.moving :
                            o = Outcome(ArmFailed(r, S, T, P, m), FALSE)
  <2>1. CASE ~(S \subseteq r.hw.active) /\ MayArm(r, S) /\ o # Outcome(r, FALSE)
    <3>1. o \in {Outcome(Armed(r, S), TRUE)} \cup
            UNION {UNION {{Outcome(ArmFailed(r, S, T, P, m), FALSE) : m \in SUBSET r.moving} :
                          P \in SUBSET T} : T \in SUBSET S}
      BY <2>1 DEF Arm
    <3>2. CASE o = Outcome(Armed(r, S), TRUE)
      BY <2>1, <3>2
    <3>3. CASE o # Outcome(Armed(r, S), TRUE)
      <4>1. PICK T \in SUBSET S : o \in
              UNION {{Outcome(ArmFailed(r, S, T, P, m), FALSE) : m \in SUBSET r.moving} : P \in SUBSET T}
        BY <3>1, <3>3
      <4>2. PICK P \in SUBSET T : o \in {Outcome(ArmFailed(r, S, T, P, m), FALSE) : m \in SUBSET r.moving}
        BY <4>1
      <4>3. PICK m \in SUBSET r.moving : o = Outcome(ArmFailed(r, S, T, P, m), FALSE)
        BY <4>2
      <4> QED
        BY <2>1, <4>3
    <3> QED
      BY <3>2, <3>3
  <2>2. CASE ~(S \subseteq r.hw.active) /\ ~MayArm(r, S)
    BY <2>2 DEF Arm
  <2> QED
    BY <2>1, <2>2
<1> QED
  BY <1>2, <1>3, <1>4, <1>5, <1>6

\* command: nothing becomes active, and what is run is active.
LEMMA CommandOutcome ==
  ASSUME NEW r, RobotInv(r), NEW S \in (SUBSET Scopes) \ {{}}, NEW o \in Command(r, S)
  PROVE  /\ RobotInv(o.robot) /\ o.ok \in BOOLEAN
         /\ o.robot.hw.active \subseteq r.hw.active
<1>1. r \in Robots /\ r.hw \in Hardware
  BY DEF RobotInv, Sound, Robots
<1>2. CASE o = Outcome(r, FALSE)
  BY <1>2 DEF Outcome
<1>3. CASE S \subseteq r.hw.active /\ o = Outcome([r EXCEPT !.moving = @ \cup S], TRUE)
  <2> DEFINE m == r.moving \cup S
  <2>1. m \in SUBSET Scopes
    BY <1>1 DEF Robots
  <2>2. o.robot = [r EXCEPT !.moving = m] /\ o.ok
    BY <1>3 DEF Outcome
  <2>3. o.ok \in BOOLEAN
    BY <1>3 DEF Outcome
  <2>4. r.hw.uncertain \/ m \cap r.hw.owned \subseteq r.hw.active
    BY <1>3 DEF RobotInv, Sound
  <2> HIDE DEF m
  <2>5. o.robot \in Robots /\ o.robot.hw = r.hw /\ o.robot.doubt = r.doubt /\ o.robot.moving = m
    BY <1>1, <2>1, <2>2 DEF Robots
  <2> QED
    BY <2>2, <2>3, <2>4, <2>5 DEF RobotInv, Sound
<1>4. ASSUME S \subseteq r.hw.active, NEW m \in SUBSET (r.moving \cup S), o = Outcome(CommandFailed(r, m), FALSE)
      PROVE  RobotInv(o.robot) /\ o.ok = FALSE /\ o.robot.hw.active \subseteq r.hw.active
  <2> DEFINE unsure == r.hw.owned # {}
             h == [r.hw EXCEPT !.active = {}, !.uncertain = unsure]
             d == r.doubt \cup r.hw.active
  <2>1. r.hw.owned # {}
    BY <1>4 DEF RobotInv, Sound
  <2>2. h \in Hardware /\ h.active = {} /\ h.uncertain /\ (h.inherited <=> r.hw.inherited)
    BY <1>1, <2>1 DEF Hardware
  <2>3. d \in SUBSET (Scopes \cup {"inherited"}) /\ m \in SUBSET Scopes
    BY <1>1 DEF Robots, Hardware
  <2>4. "inherited" \in d => "inherited" \in r.doubt
    BY <1>1 DEF Hardware, Scopes
  <2>5. o.robot = [r EXCEPT !.hw = h, !.moving = m, !.doubt = d] /\ o.ok = FALSE
    BY <1>4 DEF Outcome, CommandFailed
  <2> HIDE DEF h, d, unsure
  <2>6. o.robot \in Robots /\ o.robot.hw = h /\ o.robot.doubt = d
    BY <1>1, <2>2, <2>3, <2>5 DEF Robots
  <2> QED
    BY <2>2, <2>4, <2>5, <2>6 DEF RobotInv, Sound
<1>5. \/ o = Outcome(r, FALSE)
      \/ S \subseteq r.hw.active /\ o = Outcome([r EXCEPT !.moving = @ \cup S], TRUE)
      \/ S \subseteq r.hw.active /\ \E m \in SUBSET (r.moving \cup S) : o = Outcome(CommandFailed(r, m), FALSE)
  BY DEF Command
<1> QED
  BY <1>2, <1>3, <1>4, <1>5

\* What the process knew goes with it.
LEMMA ColdRestartSound ==
  ASSUME NEW r \in Robots
  PROVE  RobotInv(ColdRestart(r)) /\ ColdRestart(r).hw.active = {}
<1>1. NewHardware \in Hardware
  BY DEF NewHardware, Hardware
<1>2. /\ ColdRestart(r) \in Robots /\ ColdRestart(r).hw = NewHardware
      /\ ColdRestart(r).doubt = {}
  BY <1>1 DEF ColdRestart, Robots
<1>3. /\ NewHardware.active = {} /\ NewHardware.owned = {}
      /\ ~NewHardware.uncertain /\ ~NewHardware.inherited
  BY DEF NewHardware
<1> QED
  BY <1>2, <1>3 DEF RobotInv, Sound

\* A fault taken over keeps the robot in doubt.
LEMMA FaultRestartSound ==
  ASSUME NEW r \in Robots, NEW torn \in BOOLEAN
  PROVE  RobotInv(FaultRestart(r, torn)) /\ FaultRestart(r, torn).hw.active = {}
<1> DEFINE h == [NewHardware EXCEPT !.owned = Scopes, !.uncertain = TRUE,
                                    !.inherited = TRUE, !.torn = torn]
           d == Scopes \cup {"inherited"}
<1>1. h \in Hardware /\ h.active = {} /\ h.uncertain /\ h.inherited
  BY DEF NewHardware, Hardware
<1>2. FaultRestart(r, torn) = [r EXCEPT !.hw = h, !.doubt = d]
  BY DEF FaultRestart
<1> HIDE DEF h
<1>3. FaultRestart(r, torn) \in Robots /\ FaultRestart(r, torn).hw = h
  BY <1>1, <1>2 DEF Robots
<1> QED
  BY <1>1, <1>3 DEF RobotInv, Sound

\* A robot taken over as held stands still, or is in doubt.
LEMMA HeldRestartSound ==
  ASSUME NEW r \in Robots, NEW o \in HeldRestart(r)
  PROVE  RobotInv(o.robot) /\ o.robot.hw.active = {}
<1>1. PICK p \in StopOf(ColdRestart(r), Scopes, FALSE, FALSE) :
        o = Outcome(IF p.ok
                    THEN [p.robot EXCEPT !.hw = [@ EXCEPT !.owned = r.powered, !.stopped = Scopes,
                                                          !.byUs = TRUE]]
                    ELSE p.robot, p.ok)
  BY DEF HeldRestart
<1>2. RobotInv(p.robot) /\ p.robot.hw.active = {}
  BY ColdRestartSound, WholeStopOutcome DEF RobotInv
<1>3. CASE ~p.ok
  BY <1>1, <1>2, <1>3 DEF Outcome
<1>4. CASE p.ok
  <2> DEFINE h == [p.robot.hw EXCEPT !.owned = r.powered, !.stopped = Scopes, !.byUs = TRUE]
  <2>1. p.robot \in Robots /\ p.robot.hw \in Hardware /\ r.powered \in SUBSET Scopes
    BY <1>2 DEF RobotInv, Sound, Robots
  <2>2. /\ h \in Hardware /\ h.active = {} /\ h.owned = r.powered
        /\ (h.uncertain <=> p.robot.hw.uncertain) /\ (h.inherited <=> p.robot.hw.inherited)
    BY <1>2, <2>1 DEF Hardware
  <2>3. o.robot = [p.robot EXCEPT !.hw = h]
    BY <1>1, <1>4 DEF Outcome
  <2> HIDE DEF h
  <2>4. o.robot \in Robots /\ o.robot.hw = h /\ o.robot.doubt = p.robot.doubt /\ o.robot.moving = p.robot.moving
    BY <2>1, <2>2, <2>3 DEF Robots
  <2>5. p.robot.moving = {}
    <3> DEFINE c == ColdRestart(r)
               good == [c EXCEPT !.hw = Halted(c.hw, Scopes, TRUE, FALSE), !.moving = c.moving \ Scopes,
                                 !.doubt = c.doubt \ Scopes]
               bad(m) == [c EXCEPT !.hw = Halted(c.hw, Scopes, FALSE, FALSE), !.moving = m, !.doubt = c.doubt \cup Scopes]
    <3>1. c \in Robots
      BY ColdRestartSound DEF RobotInv, Sound
    <3> HIDE DEF c
    <3>2. \/ p.robot = good
          \/ ~p.ok
      <4>1. StopOf(c, Scopes, FALSE, FALSE) =
              {Outcome(good, TRUE)} \cup {Outcome(bad(c.moving \ X), FALSE) : X \in SUBSET {}}
        BY DEF StopOf
      <4>2. p = Outcome(good, TRUE) \/ \E X : p = Outcome(bad(X), FALSE)
        <5> HIDE DEF good, bad
        <5> QED
          BY <1>1, <4>1 DEF c
      <4> HIDE DEF good, bad
      <4> QED
        BY <4>2 DEF Outcome
    <3>3. good.moving = c.moving \ Scopes
      BY <3>1 DEF Robots
    <3>4. c.moving \subseteq Scopes
      BY <3>1 DEF Robots
    <3> HIDE DEF good
    <3> QED
      BY <1>4, <3>2, <3>3, <3>4
  <2> QED
    BY <1>2, <2>2, <2>4, <2>5 DEF RobotInv, Sound
<1> QED
  BY <1>3, <1>4

-----------------------------------------------------------------------------
(* The server.                                                             *)

\* A client was started with the whole robot or with one scope.
LEMMA ScopesOfClient ==
  ASSUME OwnerTypeOK, NEW c \in Clients
  PROVE  /\ ScopesOf(c) \in (SUBSET Scopes) \ {{}}
         /\ scopeOf[c] = "all" => ScopesOf(c) = Scopes
         /\ scopeOf[c] # "all" => ScopesOf(c) = {scopeOf[c]} /\ scopeOf[c] \in Scopes
<1>1. scopeOf[c] \in {"all", "arms", "base"}
  BY OwnerAssumption DEF OwnerTypeOK
<1> QED
  BY <1>1 DEF ScopesOf, Scopes

\* The scope of the handler's request.
LEMMA TargetOfCall ==
  ASSUME OwnerTypeOK, handler.req \in RemoteCalls
  PROVE  /\ Target \in (SUBSET Scopes) \ {{}}
         /\ Whole => Target = Scopes
         /\ ~Whole => \E t \in Scopes : Target = {t} /\ (CHOOSE s \in Target : TRUE) = t
         /\ Token \in Clients \X Nat /\ Token # Nobody
<1>1. handler.req.client \in Clients /\ handler.req.era \in Nat
  BY DEF RemoteCalls
<1>2. Token \in Clients \X Nat
  BY <1>1 DEF Token, TokenOf
<1>3. Token # Nobody
  BY <1>2, OwnerAssumption
<1>4. ~Whole => \E t \in Scopes : Target = {t}
  BY <1>1, ScopesOfClient DEF Target, Whole
<1>5. \A t : (CHOOSE s \in {t} : TRUE) = t
  OBVIOUS
<1> QED
  BY <1>1, <1>2, <1>3, <1>4, <1>5, ScopesOfClient DEF Target, Whole

\* Every way a handler has of using the robot.
LEMMA OutcomesSound ==
  ASSUME OwnerTypeOK, RobotInv(robot), HandlerInv, handler.at = "call", NEW o \in Outcomes
  PROVE  /\ RobotInv(o.robot)
         /\ handler.task = "arm" => o.robot.hw.active \subseteq robot.hw.active \cup IF o.ok THEN Target ELSE {}
         /\ handler.task = "command" => o.robot.hw.active \subseteq robot.hw.active
         /\ handler.task \notin {"arm", "command"} =>
               o.robot.hw.active \subseteq IF IsWhole THEN {} ELSE robot.hw.active \ Target
<1>1. CASE handler.task = "arm"
  <2>1. o \in Arm(robot, Target)
    BY <1>1 DEF Outcomes
  <2>2. Target \in SUBSET Scopes
    BY <1>1, TargetOfCall DEF HandlerInv
  <2> QED
    BY <1>1, <2>1, <2>2, ArmOutcome
<1>2. CASE handler.task = "command"
  <2>1. o \in UNION {Command(robot, S) : S \in (SUBSET Target) \ {{}}}
    BY <1>2 DEF Outcomes
  <2>2. Target \in SUBSET Scopes
    BY <1>2, TargetOfCall DEF HandlerInv
  <2>3. PICK S \in (SUBSET Target) \ {{}} : o \in Command(robot, S)
    BY <2>1
  <2>4. S \in (SUBSET Scopes) \ {{}}
    BY <2>2
  <2> QED
    BY <1>2, <2>3, <2>4, CommandOutcome
<1>3. CASE handler.task \notin {"arm", "command"}
  <2>1. o \in IF IsWhole THEN Stop(robot, Scopes, Lifts) ELSE Stop(robot, Target, FALSE)
    BY <1>3 DEF Outcomes
  <2>2. CASE IsWhole
    <3>1. Lifts \in BOOLEAN
      BY DEF Lifts
    <3>2. PICK recover \in BOOLEAN : o \in Stop(robot, Scopes, recover)
      BY <2>1, <2>2, <3>1
    <3>3. RobotInv(o.robot) /\ o.robot.hw.active \subseteq robot.hw.active \ Scopes
      BY <3>2, StopOutcome
    <3>4. robot.hw.active \subseteq Scopes
      BY DEF RobotInv, Sound, Robots, Hardware
    <3> QED
      BY <1>3, <2>2, <3>3, <3>4
  <2>3. CASE ~IsWhole
    <3>1. handler.req \in RemoteCalls
      BY <1>3, <2>3 DEF HandlerInv, IsWhole
    <3>2. Target \in SUBSET Scopes
      BY <3>1, TargetOfCall
    <3>3. o \in Stop(robot, Target, FALSE)
      BY <2>1, <2>3
    <3>4. RobotInv(o.robot) /\ o.robot.hw.active \subseteq robot.hw.active \ Target
      <4> DEFINE S == Target
      <4>1. S \in SUBSET Scopes /\ o \in Stop(robot, S, FALSE)
        BY <3>2, <3>3
      <4> HIDE DEF S
      <4>2. RobotInv(o.robot) /\ o.robot.hw.active \subseteq robot.hw.active \ S
        BY <4>1, StopOutcome
      <4> QED
        BY <4>2 DEF S
    <3> QED
      BY <1>3, <2>3, <3>4
  <2> QED
    BY <2>2, <2>3
<1> QED
  BY <1>1, <1>2, <1>3

\* What each step makes of the robot.
LEMMA RobotStep ==
  ASSUME OwnerIInv, [OwnerNext]_ownerVars
  PROVE  RobotInv(robot')
<1> USE DEF OwnerIInv
<1>1. CASE robot' = robot
  BY <1>1
<1>2. CASE Call
  <2>1. handler.at = "call"
    BY <1>2 DEF Call
  <2>2. PICK o \in Outcomes : robot' = IF up' THEN o.robot ELSE ColdRestart(o.robot)
    BY <1>2 DEF Call, RobotBecomes
  <2>3. RobotInv(o.robot)
    BY <2>1, OutcomesSound
  <2> QED
    BY <2>2, <2>3, ColdRestartSound DEF RobotInv, Sound
<1>3. ASSUME NEW expired \in SUBSET Scopes, WatchdogFires(expired) PROVE RobotInv(robot')
  BY <1>3, WatchdogOutcome DEF WatchdogFires, RobotBecomes
<1>4. CASE Ended
  BY <1>4, ColdRestartSound DEF Ended, RobotBecomes, RobotInv, Sound
<1>5. CASE PowerOff
  <2> DEFINE none == {}
  <2>1. robot' = [robot EXCEPT !.powered = none, !.moving = none] /\ none \in SUBSET Scopes
    BY <1>5 DEF PowerOff
  <2>2. none = {}
    OBVIOUS
  <2> HIDE DEF none
  <2>3. robot' \in Robots /\ robot'.hw = robot.hw /\ robot'.doubt = robot.doubt /\ robot'.moving = none
    BY <2>1 DEF Robots, RobotInv, Sound
  <2> QED
    BY <2>2, <2>3 DEF RobotInv, Sound
<1>6. CASE Restart
  <2>1. \/ robot' = robot
        \/ robot' = FaultRestart(robot, TRUE) \/ robot' = FaultRestart(robot, FALSE)
        \/ \E o \in HeldRestart(robot) : robot' = o.robot
    BY <1>6 DEF Restart
  <2> QED
    BY <2>1, FaultRestartSound, HeldRestartSound DEF RobotInv, Sound
<1> QED
  BY <1>1, <1>2, <1>3, <1>4, <1>5, <1>6
     DEF OwnerNext, ownerVars, Enable, Drive, Halt, Send, GiveUp, ConnectionLost, Observe, LateLost,
         Accept, Resume, TickFault, Exit, Crash, HandOver

\* The history follows the robot: what is no longer active was activated by nobody, what was
\* active before keeps its sender.
LEMMA ArmedByFollows ==
  ASSUME OwnerTypeOK, NEW r, NEW sender, RobotBecomes(r, sender),
         \/ r.hw.active \subseteq robot.hw.active
         \/ sender \in Owners
  PROVE  /\ armedBy' \in [Scopes -> Owners]
         /\ \A s \in Scopes : s \notin r.hw.active => armedBy'[s] = Nobody
         /\ \A s \in Scopes : s \in r.hw.active \cap robot.hw.active => armedBy'[s] = armedBy[s]
         /\ \A s \in Scopes : s \in r.hw.active /\ s \notin robot.hw.active => armedBy'[s] = sender
BY DEF RobotBecomes, OwnerTypeOK, Owners

LEMMA OwnerTypeStep ==
  ASSUME OwnerIInv, [OwnerNext]_ownerVars
  PROVE  OwnerTypeOK'
<1> USE DEF OwnerIInv
<1> DEFINE Handlers == [at : {"idle", "begun", "call"},
                    task : {"none", "arm", "command", "release", "stop", "stop_all", "give_up",
                            "fault", "exit"},
                    req : RemoteCalls \cup {NoCall}, seen : SUBSET Scopes]
           States == [at : {"rest", "arm", "armed", "command", "quit", "stop"}, era : Nat]
<1>0. /\ handler \in Handlers /\ client \in [Clients -> States]
      /\ Idle \in Handlers /\ Unleased \in [Scopes -> Owners] /\ Nobody \in Owners
  BY DEF OwnerTypeOK, Idle, Unleased, Owners
<1>1. robot' \in Robots
  BY RobotStep DEF RobotInv, Sound
<1>2. scopeOf' \in ScopeChoices
  BY DEF OwnerTypeOK, OwnerNext, ownerVars, Enable, Drive, Halt, Send, GiveUp, ConnectionLost, Observe,
         LateLost, Accept, Resume, Call, TickFault, WatchdogFires, Exit, Crash, HandOver, Restart, PowerOff
<1>3. snapshot' \in {"none", "held", "fault", "torn_fault"}
  BY DEF OwnerTypeOK, OwnerNext, ownerVars, Enable, Drive, Halt, Send, GiveUp, ConnectionLost, Observe,
         LateLost, Accept, Resume, Call, TickFault, WatchdogFires, Exit, Crash, HandOver, Restart, PowerOff
<1>4. up' \in BOOLEAN
  <2>1. CASE Call
    <3>1. \E ok, uncertain : Apply(ok, uncertain)
      BY <2>1 DEF Call
    <3> QED
      BY <3>1 DEF Apply, OwnerTypeOK
  <2> QED
    BY <2>1 DEF OwnerTypeOK, OwnerNext, ownerVars, Enable, Drive, Halt, Send, GiveUp, ConnectionLost, Observe,
         LateLost, Accept, Resume, TickFault, WatchdogFires, Exit, Crash, HandOver, Restart, PowerOff, Ended
<1>5. stop_unconfirmed' \in BOOLEAN
  <2>1. CASE Call
    <3>1. \E ok, uncertain : Apply(ok, uncertain)
      BY <2>1 DEF Call
    <3> QED
      BY <3>1 DEF Apply, OwnerTypeOK, server
  <2>2. CASE Resume
    BY <2>2 DEF Resume, Proceed, Refuse, OwnerTypeOK
  <2>3. CASE Restart
    BY <2>3, <1>1 DEF Restart, Robots, Hardware
  <2> QED
    BY <2>1, <2>2, <2>3
       DEF OwnerTypeOK, OwnerNext, ownerVars, server, Enable, Drive, Halt, Send, GiveUp, ConnectionLost, Observe,
         LateLost, Accept, TickFault, WatchdogFires, Exit, Crash, HandOver, PowerOff, Ended
<1>6. requests' \subseteq RemoteCalls
  <2>1. ASSUME NEW c \in Clients, NEW verb \in {"arm", "command", "release", "stop", "stop_all"}, NEW at,
               NEW era \in Nat, Send(c, verb, at, era)
        PROVE  requests' \subseteq RemoteCalls
    <3>1. [op |-> verb, client |-> c, era |-> era, late |-> FALSE] \in RemoteCalls
      BY DEF RemoteCalls
    <3> QED
      BY <2>1, <3>1 DEF Send, OwnerTypeOK
  <2>2. ASSUME NEW c \in Clients, GiveUp(c) PROVE requests' \subseteq RemoteCalls
    <3>1. ASSUME NEW q \in requests PROVE [q EXCEPT !.late = TRUE] \in RemoteCalls
      BY DEF RemoteCalls, OwnerTypeOK
    <3> QED
      BY <2>2, <3>1 DEF GiveUp, OwnerTypeOK
  <2>3. ASSUME NEW c \in Clients PROVE client[c].era \in Nat
    BY <1>0
  <2>4. ASSUME NEW c \in Clients, Enable(c) \/ Drive(c) \/ Halt(c) PROVE requests' \subseteq RemoteCalls
    BY <2>1, <2>3, <2>4 DEF Enable, Drive, Halt, StopOps
  <2> QED
    BY <2>2, <2>4
       DEF OwnerTypeOK, OwnerNext, ownerVars, ConnectionLost, Observe, LateLost, Accept, Resume, Call,
           TickFault, WatchdogFires, Exit, Crash, HandOver, PowerOff, Restart
<1>7. handler' \in Handlers
  <2>1. ASSUME NEW at, Reply(at) PROVE handler' \in Handlers
    BY <1>0, <2>1 DEF Reply
  <2>2. CASE Accept
    BY <2>2 DEF Accept, RemoteCalls, OwnerTypeOK, Robots, Hardware
  <2>3. CASE Resume
    <3>1. \/ handler' = [handler EXCEPT !.at = "call"]
          \/ \E at : Reply(at)
      BY <2>3 DEF Resume, Proceed, Refuse
    <3> QED
      BY <1>0, <2>1, <3>1
  <2>4. CASE Call
    <3>1. \/ handler' = [handler EXCEPT !.task = "give_up"]
          \/ \E at : Reply(at)
      <4>1. \E ok, uncertain : Apply(ok, uncertain)
        BY <2>4 DEF Call
      <4> QED
        BY <4>1 DEF Apply
    <3> QED
      BY <1>0, <2>1, <3>1
  <2>5. ASSUME NEW c \in Clients, GiveUp(c) PROVE handler' \in Handlers
    <3>1. \/ handler' = handler
          \/ handler.req.client = c /\ handler' = [handler EXCEPT !.req.late = TRUE]
      BY <2>5 DEF GiveUp, Awaited
    <3>2. handler.req.client = c => handler.req \in RemoteCalls
      BY <1>0, OwnerAssumption DEF NoCall
    <3> DEFINE late == [handler.req EXCEPT !.late = TRUE]
    <3>3. handler.req.client = c => late \in RemoteCalls
      BY <3>2 DEF RemoteCalls
    <3>4. [handler EXCEPT !.req.late = TRUE] = [handler EXCEPT !.req = late]
      OBVIOUS
    <3> HIDE DEF late
    <3>5. ASSUME NEW x \in RemoteCalls PROVE [handler EXCEPT !.req = x] \in Handlers
      BY <1>0
    <3> HIDE DEF Handlers
    <3> QED
      BY <1>0, <3>1, <3>3, <3>4, <3>5
  <2>6. CASE \/ handler' = Idle
             \/ handler' = [Idle EXCEPT !.at = "call", !.task = "fault"]
             \/ handler' = [Idle EXCEPT !.at = "call", !.task = "exit"]
    BY <1>0, <2>6 DEF Idle
  <2> QED
    BY <1>0, <2>2, <2>3, <2>4, <2>5, <2>6
       DEF OwnerNext, ownerVars, Enable, Drive, Halt, Send, ConnectionLost, Observe, LateLost,
           TickFault, WatchdogFires, Exit, Crash, HandOver, PowerOff, Restart
<1>8. client' \in [Clients -> States]
  <2>1. ASSUME NEW q \in RemoteCalls \cup {NoCall}, NEW at \in {"rest", "armed", "quit"}, Answer(q, at)
        PROVE  client' \in [Clients -> States]
    BY <1>0, <2>1 DEF Answer, RemoteCalls
  <2>2. ASSUME NEW at \in {"rest", "armed", "quit"}, Reply(at) PROVE client' \in [Clients -> States]
    BY <1>0, <2>1, <2>2 DEF Reply
  <2>3. ASSUME NEW c \in Clients, NEW verb, NEW at \in {"arm", "command", "stop"}, NEW era \in Nat,
               Send(c, verb, at, era)
        PROVE  client' \in [Clients -> States]
    BY <1>0, <2>3 DEF Send
  <2>4. ASSUME NEW c \in Clients, FailedCall(c) PROVE client' \in [Clients -> States]
    BY <1>0, <2>4 DEF FailedCall, AfterError
  <2>5. ASSUME NEW c \in Clients, Observe(c) PROVE client' \in [Clients -> States]
    <3>1. client' = [client EXCEPT ![c].at = "quit"] \/ client' = [client EXCEPT ![c].at = client[c].at]
      BY <2>5 DEF Observe
    <3> QED
      BY <1>0, <3>1
  <2>6. ASSUME NEW c \in Clients, Enable(c) \/ Drive(c) \/ Halt(c) PROVE client' \in [Clients -> States]
    <3>1. client[c].era \in Nat
      BY <1>0
    <3>2. \E verb, at, era : at \in {"arm", "command", "stop"} /\ era \in Nat /\ Send(c, verb, at, era)
      <4>1. client[c].era + 1 \in Nat
        BY <3>1
      <4> QED
        BY <2>6, <3>1, <4>1 DEF Enable, Drive, Halt
    <3> QED
      BY <2>3, <3>2
  <2>7. CASE Resume
    <3>1. client' = client \/ \E at \in {"rest", "armed", "quit"} : Reply(at)
      BY <2>7 DEF Resume, Proceed, Refuse
    <3> QED
      BY <1>0, <2>2, <3>1
  <2>8. CASE Call
    <3>1. client' = client \/ \E at \in {"rest", "armed", "quit"} : Reply(at)
      <4>1. \E ok, uncertain : Apply(ok, uncertain)
        BY <2>8 DEF Call
      <4> QED
        BY <4>1 DEF Apply
    <3> QED
      BY <1>0, <2>2, <3>1
  <2> QED
    BY <1>0, <2>4, <2>5, <2>6, <2>7, <2>8
       DEF OwnerNext, ownerVars, GiveUp, ConnectionLost, LateLost, Accept,
           TickFault, WatchdogFires, Exit, Crash, HandOver, PowerOff, Restart
<1>9. robot_owner' \in Owners /\ robot_owners' \in [Scopes -> Owners]
  <2>1. /\ KeptOwner \in Owners /\ \A seen : KeptOwners(seen) \in [Scopes -> Owners]
        /\ \A owners \in [Scopes -> Owners] : Without(owners) \in [Scopes -> Owners]
    BY <1>0 DEF OwnerTypeOK, KeptOwner, KeptOwners, Without
  <2>2. ASSUME NEW owner \in Owners, NEW owners \in [Scopes -> Owners],
               Proceed(owner, owners) \/ \E at : Refuse(owner, owners, at)
        PROVE  robot_owner' \in Owners /\ robot_owners' \in [Scopes -> Owners]
    BY <2>2 DEF Proceed, Refuse
  <2>3. CASE Resume
    <3>1. \E owner \in Owners, owners \in [Scopes -> Owners] :
            Proceed(owner, owners) \/ \E at : Refuse(owner, owners, at)
      <4> DEFINE owner == KeptOwner
                 owners == KeptOwners(handler.seen)
      <4>1. \/ Proceed(owner, owners) \/ Proceed(owner, Without(owners)) \/ Proceed(Nobody, Unleased)
            \/ \E at : Refuse(owner, owners, at)
        BY <2>3 DEF Resume
      <4>2. owner \in Owners /\ owners \in [Scopes -> Owners] /\ Without(owners) \in [Scopes -> Owners]
        BY <2>1
      <4> HIDE DEF owner, owners
      <4> QED
        BY <1>0, <4>1, <4>2
    <3> QED
      BY <2>2, <3>1
  <2>4. CASE Call
    <3>1. PICK ok, uncertain : Apply(ok, uncertain)
      BY <2>4 DEF Call
    <3>2. CASE handler.task = "arm"
      <4>1. Token \in Owners
        BY <2>4, <3>2, TargetOfCall DEF Call, HandlerInv, Owners
      <4> QED
        BY <3>1, <3>2, <4>1 DEF Apply, OwnerTypeOK
    <3>3. CASE handler.task = "command"
      BY <1>0, <2>1, <3>1, <3>3 DEF Apply, OwnerTypeOK, server
    <3>4. CASE handler.task \notin {"arm", "command"}
      BY <3>1, <3>4 DEF Apply, OwnerTypeOK
    <3> QED
      BY <3>2, <3>3, <3>4
  <2>5. ASSUME NEW c \in Clients, Observe(c)
        PROVE  robot_owner' \in Owners /\ robot_owners' \in [Scopes -> Owners]
    BY <2>1, <2>5 DEF Observe
  <2>6. CASE robot_owner' = Nobody /\ robot_owners' = Unleased
    BY <1>0, <2>6
  <2> QED
    BY <2>3, <2>4, <2>5, <2>6
       DEF OwnerTypeOK, OwnerNext, ownerVars, server, Enable, Drive, Halt, Send, GiveUp, ConnectionLost,
           LateLost, Accept, TickFault, WatchdogFires, Exit, Crash, HandOver, PowerOff, Restart, Ended
<1>10. armedBy' \in [Scopes -> Owners]
  <2>1. CASE Call
    <3>1. PICK o \in Outcomes : RobotBecomes(IF up' THEN o.robot ELSE ColdRestart(o.robot),
                                             <<handler.req.client, handler.req.era>>)
      BY <2>1 DEF Call
    <3> DEFINE r == IF up' THEN o.robot ELSE ColdRestart(o.robot)
               sender == <<handler.req.client, handler.req.era>>
    <3>2. RobotInv(o.robot)
      BY <2>1, OutcomesSound DEF Call
    <3>3. r.hw.active \subseteq o.robot.hw.active
      BY <3>2, ColdRestartSound DEF RobotInv, Sound
    <3>4. r.hw.active \subseteq robot.hw.active \/ sender \in Owners
      <4>1. CASE handler.task = "arm"
        BY <2>1, <4>1 DEF Call, HandlerInv, RemoteCalls, Owners
      <4>2. CASE handler.task # "arm"
        <5>1. o.robot.hw.active \subseteq robot.hw.active
          BY <2>1, <4>2, OutcomesSound DEF Call
        <5> QED
          BY <3>3, <5>1
      <4> QED
        BY <4>1, <4>2
    <3> HIDE DEF r, sender
    <3>5. RobotBecomes(r, sender)
      BY <3>1 DEF r, sender
    <3> QED
      BY <3>4, <3>5, ArmedByFollows
  <2>2. ASSUME NEW r, NEW sender \in Owners, RobotBecomes(r, sender) PROVE armedBy' \in [Scopes -> Owners]
    BY <2>2, ArmedByFollows
  <2> QED
    BY <1>0, <2>1, <2>2
       DEF OwnerTypeOK, OwnerNext, ownerVars, Enable, Drive, Halt, Send, GiveUp, ConnectionLost, Observe,
           LateLost, Accept, Resume, TickFault, WatchdogFires, Exit, Crash, HandOver, PowerOff, Restart, Ended
<1> QED
  BY <1>1, <1>2, <1>3, <1>4, <1>5, <1>6, <1>7, <1>8, <1>9, <1>10 DEF OwnerTypeOK

LEMMA HandlerStep ==
  ASSUME OwnerIInv, [OwnerNext]_ownerVars
  PROVE  HandlerInv'
<1> USE DEF OwnerIInv
<1>1. scopeOf' = scopeOf
  BY DEF OwnerNext, ownerVars, Enable, Drive, Halt, Send, GiveUp, ConnectionLost, Observe, LateLost, Accept,
         Resume, Call, TickFault, WatchdogFires, Exit, Crash, HandOver, Restart, PowerOff
<1>2. \A q \in requests' : q.op = "release" => scopeOf[q.client] # "all"
  <2>1. ASSUME NEW c \in Clients, NEW verb, NEW at, NEW era, Send(c, verb, at, era),
               verb = "release" => scopeOf[c] # "all"
        PROVE  \A q \in requests' : q.op = "release" => scopeOf[q.client] # "all"
    BY <2>1 DEF Send, HandlerInv
  <2>2. ASSUME NEW c \in Clients, Enable(c) \/ Drive(c) \/ Halt(c)
        PROVE  \A q \in requests' : q.op = "release" => scopeOf[q.client] # "all"
    <3>1. \E verb, at, era : Send(c, verb, at, era) /\ (verb = "release" => scopeOf[c] # "all")
      BY <2>2 DEF Enable, Drive, Halt, StopOps
    <3> QED
      BY <2>1, <3>1
  <2>3. ASSUME NEW c \in Clients, GiveUp(c)
        PROVE  \A q \in requests' : q.op = "release" => scopeOf[q.client] # "all"
    <3>1. ASSUME NEW q \in requests PROVE LET l == [q EXCEPT !.late = TRUE] IN l.op = q.op /\ l.client = q.client
      BY DEF OwnerTypeOK, RemoteCalls
    <3> QED
      BY <2>3, <3>1 DEF GiveUp, HandlerInv
  <2> QED
    BY <2>2, <2>3
       DEF HandlerInv, OwnerNext, ownerVars, ConnectionLost, Observe, LateLost, Accept, Resume, Call,
           TickFault, WatchdogFires, Exit, Crash, HandOver, Restart, PowerOff
<1>3. ~up' => handler' = Idle /\ robot'.hw.active = {}
  <2>1. CASE Call
    <3>1. PICK o \in Outcomes : /\ Apply(o.ok, o.robot.hw.uncertain)
                                /\ robot' = IF up' THEN o.robot ELSE ColdRestart(o.robot)
      BY <2>1 DEF Call, RobotBecomes
    <3>2. RobotInv(o.robot) /\ handler.at = "call"
      BY <2>1, OutcomesSound DEF Call
    <3>3. up
      BY <3>2 DEF HandlerInv, Idle
    <3>4. ~up' => handler' = Idle
      BY <3>1, <3>3 DEF Apply, Reply
    <3> QED
      BY <3>1, <3>2, <3>4, ColdRestartSound DEF RobotInv, Sound
  <2>2. CASE Ended /\ handler' = Idle
    BY <2>2, ColdRestartSound DEF Ended, RobotBecomes, RobotInv, Sound
  <2>3. CASE PowerOff
    <3>1. robot' = [robot EXCEPT !.powered = {}, !.moving = {}]
      BY <2>3 DEF PowerOff
    <3>2. robot'.hw = robot.hw
      BY <3>1 DEF OwnerTypeOK, Robots
    <3> QED
      BY <2>3, <3>2 DEF PowerOff, HandlerInv
  <2>4. CASE up' = up /\ handler' = handler /\ robot' = robot
    BY <2>4 DEF HandlerInv
  <2>5. CASE up'
    BY <2>5
  <2>7. ASSUME NEW c \in Clients, GiveUp(c), ~up PROVE handler' = handler
    <3>1. ~(handler.req.client = c)
      BY <2>7, OwnerAssumption DEF HandlerInv, Idle, NoCall
    <3> QED
      BY <2>7, <3>1 DEF GiveUp, Awaited
  <2>8. Resume => up
    BY DEF Resume, HandlerInv, Idle
  <2> QED
    BY <2>1, <2>2, <2>3, <2>4, <2>5, <2>7, <2>8
       DEF OwnerNext, ownerVars, Enable, Drive, Halt, Send, GiveUp, ConnectionLost, Observe, LateLost, Accept,
           Resume, TickFault, WatchdogFires, Exit, Crash, HandOver, Restart
<1>4. /\ handler'.at = "idle" => handler' = Idle
      /\ handler'.at = "begun" => handler'.req \in RemoteCalls /\ handler'.task = handler'.req.op
      /\ handler'.at = "call" =>
           \/ handler'.task \in {"fault", "exit"} /\ handler'.req = NoCall
           \/ /\ handler'.task \in {"arm", "command", "release", "stop", "stop_all", "give_up"}
              /\ handler'.req \in RemoteCalls
      /\ handler'.task = "release" => scopeOf[handler'.req.client] # "all"
  <2> DEFINE P == /\ handler'.at = "idle" => handler' = Idle
                  /\ handler'.at = "begun" => handler'.req \in RemoteCalls /\ handler'.task = handler'.req.op
                  /\ handler'.at = "call" =>
                       \/ handler'.task \in {"fault", "exit"} /\ handler'.req = NoCall
                       \/ /\ handler'.task \in {"arm", "command", "release", "stop", "stop_all", "give_up"}
                          /\ handler'.req \in RemoteCalls
                  /\ handler'.task = "release" => scopeOf[handler'.req.client] # "all"
  <2>1. CASE handler' = handler
    BY <2>1 DEF HandlerInv
  <2>2. CASE \/ handler' = Idle
             \/ handler' = [Idle EXCEPT !.at = "call", !.task = "fault"]
             \/ handler' = [Idle EXCEPT !.at = "call", !.task = "exit"]
    <3>1. Idle.at = "idle" /\ Idle.task = "none" /\ Idle.req = NoCall
      BY DEF Idle
    <3>2. CASE handler' = Idle
      BY <3>1, <3>2
    <3>3. ASSUME NEW t \in {"fault", "exit"}, handler' = [Idle EXCEPT !.at = "call", !.task = t] PROVE P
      <4>1. handler'.at = "call" /\ handler'.task = t /\ handler'.req = NoCall
        BY <3>3 DEF Idle
      <4> QED
        BY <4>1
    <3> QED
      BY <2>2, <3>2, <3>3
  <2>3. CASE Accept
    <3>1. PICK q \in requests : handler' = [at |-> "begun", task |-> q.op, req |-> q, seen |-> robot.hw.active]
      BY <2>3 DEF Accept
    <3> QED
      BY <3>1 DEF HandlerInv, OwnerTypeOK
  <2>4. CASE Resume
    <3>1. handler.at = "begun" /\ (handler' = Idle \/ handler' = [handler EXCEPT !.at = "call"])
      BY <2>4 DEF Resume, Proceed, Refuse, Reply
    <3>2. CASE handler' = [handler EXCEPT !.at = "call"]
      <4>1. /\ handler'.at = "call" /\ handler'.task = handler.task /\ handler'.req = handler.req
        BY <3>2 DEF OwnerTypeOK
      <4> QED
        BY <3>1, <4>1 DEF HandlerInv, RemoteCalls
    <3> QED
      BY <2>2, <3>1, <3>2
  <2>5. CASE Call
    <3>1. PICK ok, uncertain : Apply(ok, uncertain)
      BY <2>5 DEF Call
    <3>2. handler.at = "call"
      BY <2>5 DEF Call
    <3>3. CASE handler' = Idle
      BY <2>2, <3>3
    <3>4. CASE handler.task = "command" /\ handler' = [handler EXCEPT !.task = "give_up"]
      <4>1. /\ handler'.at = "call" /\ handler'.task = "give_up" /\ handler'.req = handler.req
        BY <3>2, <3>4 DEF OwnerTypeOK
      <4> QED
        BY <3>2, <3>4, <4>1 DEF HandlerInv
    <3> QED
      BY <3>1, <3>3, <3>4 DEF Apply, Reply
  <2>6. ASSUME NEW c \in Clients, GiveUp(c) PROVE P
    <3>1. CASE handler.req.client = c /\ handler' = [handler EXCEPT !.req.late = TRUE]
      <4> DEFINE late == [handler.req EXCEPT !.late = TRUE]
      <4>1. handler.req \in RemoteCalls /\ handler.req # NoCall
        BY <3>1, OwnerAssumption DEF OwnerTypeOK, NoCall
      <4>2. late \in RemoteCalls /\ late.op = handler.req.op /\ late.client = handler.req.client
        BY <4>1 DEF RemoteCalls
      <4>3. handler' = [handler EXCEPT !.req = late]
        BY <3>1
      <4> HIDE DEF late
      <4>4. /\ handler'.at = handler.at /\ handler'.task = handler.task /\ handler'.req = late
        BY <4>3 DEF OwnerTypeOK
      <4>5. handler.at # "idle"
        BY <4>1 DEF HandlerInv, Idle
      <4> QED
        BY <4>1, <4>2, <4>4, <4>5 DEF HandlerInv
    <3> QED
      BY <2>1, <2>6, <3>1 DEF GiveUp, Awaited
  <2> QED
    BY <2>1, <2>2, <2>3, <2>4, <2>5, <2>6
       DEF OwnerNext, ownerVars, Enable, Drive, Halt, Send, ConnectionLost, Observe, LateLost,
           TickFault, WatchdogFires, Exit, Crash, HandOver, Restart, PowerOff
<1> QED
  BY <1>1, <1>2, <1>3, <1>4 DEF HandlerInv

\* The robot has at most fewer active scopes than before.
Dropped ==
    /\ robot'.hw.active \subseteq robot.hw.active
    /\ \A s \in Scopes : armedBy'[s] = Nobody <=> s \notin robot'.hw.active
    /\ \A s \in robot'.hw.active : armedBy'[s] = armedBy[s]

LEMMA DroppedByRobot ==
  ASSUME OwnerIInv, NEW r, NEW sender, RobotBecomes(r, sender), RobotInv(r), r.hw.active \subseteq robot.hw.active
  PROVE  Dropped
<1>1. robot' = r /\ r.hw.active \subseteq Scopes
  BY DEF RobotBecomes, RobotInv, Sound, Robots, Hardware
<1>2. OwnerTypeOK /\ \A s \in Scopes : armedBy[s] = Nobody <=> s \notin robot.hw.active
  BY DEF OwnerIInv, LeaseInv
<1>3. /\ \A s \in Scopes : s \notin r.hw.active => armedBy'[s] = Nobody
      /\ \A s \in Scopes : s \in r.hw.active \cap robot.hw.active => armedBy'[s] = armedBy[s]
  BY <1>2, ArmedByFollows
<1> QED
  BY <1>1, <1>2, <1>3 DEF Dropped

\* Whatever drops scopes, the server's leases are right about the others.
LEMMA LeaseDropped ==
  ASSUME OwnerIInv, Dropped, handler' = handler, scopeOf' = scopeOf,
         robot_owner' = robot_owner, robot_owners' = robot_owners
  PROVE  LeaseInv'
<1>1. Settled' = Settled /\ Target' = Target /\ Token' = Token
  BY DEF Settled, IsWhole, Whole, Target, ScopesOf, Token, TokenOf
<1>2. Held(robot_owner, robot_owners)' = Held(robot_owner, robot_owners)
  BY DEF Held, Whole, Target, ScopesOf
<1>3. \A s \in robot'.hw.active : LeasedTo(s)' <=> LeasedTo(s)
  BY DEF LeasedTo, Dropped
<1> HIDE DEF Settled
<1> QED
  BY <1>1, <1>2, <1>3 DEF OwnerIInv, LeaseInv, Dropped, Unleased

\* Nothing changes but the clients and what is on its way.
LEMMA DroppedNothing ==
  ASSUME OwnerIInv, armedBy' = armedBy, robot'.hw.active = robot.hw.active
  PROVE  Dropped
BY DEF OwnerIInv, LeaseInv, Dropped

\* refresh_robot_owners: what it keeps is what is still active, and only that; the scopes
\* that the watchdog has dropped since they were read are not active any more.
LEMMA Pruned ==
  ASSUME OwnerIInv, NEW seen, robot.hw.active \subseteq seen, Settled = Scopes
  PROVE  /\ KeptOwner \in Owners /\ KeptOwners(seen) \in [Scopes -> Owners]
         /\ KeptOwner # Nobody => KeptOwners(seen) = Unleased
         /\ \A s \in robot.hw.active :
               /\ s \in Scopes /\ armedBy[s] # Nobody
               /\ armedBy[s] = IF KeptOwner # Nobody THEN KeptOwner ELSE KeptOwners(seen)[s]
<1>1. robot.hw.active \subseteq Scopes
  BY DEF OwnerIInv, OwnerTypeOK, Robots, Hardware
<1>2. KeptOwner \in Owners /\ KeptOwners(seen) \in [Scopes -> Owners]
  BY DEF OwnerIInv, OwnerTypeOK, KeptOwner, KeptOwners, Owners
<1>3. KeptOwner # Nobody => KeptOwners(seen) = Unleased
  BY DEF OwnerIInv, LeaseInv, KeptOwner, KeptOwners, Unleased
<1>4. ASSUME NEW s \in robot.hw.active
      PROVE  armedBy[s] # Nobody /\ armedBy[s] = IF KeptOwner # Nobody THEN KeptOwner ELSE KeptOwners(seen)[s]
  <2>1. armedBy[s] # Nobody /\ LeasedTo(s)
    BY <1>1 DEF OwnerIInv, LeaseInv
  <2>2. KeptOwner = robot_owner /\ KeptOwners(seen)[s] = robot_owners[s]
    BY <1>1 DEF KeptOwner, KeptOwners
  <2> QED
    BY <2>1, <2>2 DEF LeasedTo
<1> QED
  BY <1>1, <1>2, <1>3, <1>4

LEMMA LeaseAccept == ASSUME OwnerIInv, Accept PROVE LeaseInv'
<1>1. PICK q \in requests : handler' = [at |-> "begun", task |-> q.op, req |-> q, seen |-> robot.hw.active]
  BY DEF Accept
<1>2. Settled' = Scopes /\ Settled = Scopes
  BY <1>1 DEF Settled, Accept, Idle
<1>3. \A s \in Scopes : LeasedTo(s)' <=> LeasedTo(s)
  BY DEF LeasedTo, Accept, server
<1>4. handler'.at = "begun" /\ handler'.seen = robot.hw.active
  BY <1>1
<1> HIDE DEF Settled
<1> QED
  BY <1>2, <1>3, <1>4 DEF Accept, server, OwnerIInv, LeaseInv, Unleased

LEMMA LeaseObserve == ASSUME OwnerIInv, NEW c \in Clients, Observe(c) PROVE LeaseInv'
<1>1. handler' = handler /\ handler = Idle /\ robot' = robot /\ armedBy' = armedBy
  BY DEF Observe
<1>2. Settled' = Scopes /\ Settled = Scopes
  BY <1>1 DEF Settled, Idle
<1>3. robot_owner' = KeptOwner /\ robot_owners' = KeptOwners(robot.hw.active)
  BY DEF Observe
<1>4. /\ KeptOwner # Nobody => KeptOwners(robot.hw.active) = Unleased
      /\ \A s \in robot.hw.active :
           armedBy[s] = IF KeptOwner # Nobody THEN KeptOwner ELSE KeptOwners(robot.hw.active)[s]
  BY <1>2, Pruned
<1>5. \A s \in robot'.hw.active : LeasedTo(s)'
  BY <1>1, <1>3, <1>4 DEF LeasedTo
<1>6. handler'.at = "idle"
  BY <1>1 DEF Idle
<1>7. \A s \in Scopes : armedBy'[s] = Nobody <=> s \notin robot'.hw.active
  BY <1>1 DEF OwnerIInv, LeaseInv
<1>8. robot_owner' # Nobody => robot_owners' = Unleased
  BY <1>3, <1>4
<1> QED
  BY <1>5, <1>6, <1>7, <1>8 DEF LeaseInv, Unleased

\* Between the body of an endpoint and its call of the robot, leases say what the
\* call may do.
LEMMA LeaseResume == ASSUME OwnerIInv, Resume PROVE LeaseInv'
<1> DEFINE owner == KeptOwner
           owners == KeptOwners(handler.seen)
           right(s, o, os) == armedBy[s] = IF o # Nobody THEN o ELSE os[s]
<1>1. /\ handler.at = "begun" /\ robot' = robot /\ armedBy' = armedBy /\ scopeOf' = scopeOf
      /\ handler.req \in RemoteCalls /\ handler.task = handler.req.op
  BY DEF Resume, OwnerIInv, HandlerInv
<1>2. Settled = Scopes
  BY <1>1 DEF Settled
<1>3. /\ owner \in Owners /\ owners \in [Scopes -> Owners]
      /\ owner # Nobody => owners = Unleased
      /\ \A s \in robot.hw.active : s \in Scopes /\ armedBy[s] # Nobody /\ right(s, owner, owners)
  BY <1>1, <1>2, Pruned DEF OwnerIInv, LeaseInv
<1>4. /\ Target \in (SUBSET Scopes) \ {{}} /\ (Whole => Target = Scopes) /\ Token # Nobody
      /\ ~Whole => \E t \in Scopes : Target = {t} /\ (CHOOSE s \in Target : TRUE) = t
  BY <1>1, TargetOfCall DEF OwnerIInv
<1>5. \A s \in Scopes : armedBy'[s] = Nobody <=> s \notin robot'.hw.active
  BY <1>1 DEF OwnerIInv, LeaseInv
<1>6. \A s : Unleased[s] = Nobody \/ s \notin Scopes
  BY DEF Unleased
<1>7. ASSUME NEW o, NEW os, NEW at, Refuse(o, os, at), o = owner, os = owners PROVE LeaseInv'
  <2>1. handler' = Idle /\ robot_owner' = owner /\ robot_owners' = owners
    BY <1>7 DEF Refuse, Reply
  <2>2. Settled' = Scopes /\ handler'.at = "idle"
    BY <2>1 DEF Settled, Idle
  <2>3. \A s \in robot'.hw.active : LeasedTo(s)'
    BY <1>1, <1>3, <2>1 DEF LeasedTo
  <2> HIDE DEF owner, owners
  <2> QED
    BY <1>3, <1>5, <2>1, <2>2, <2>3 DEF LeaseInv, Unleased
<1>8. ASSUME NEW o, NEW os, Proceed(o, os)
      PROVE  /\ handler'.at = "call" /\ handler'.task = handler.task /\ robot_owner' = o /\ robot_owners' = os
             /\ Target' = Target /\ Token' = Token /\ Whole' = Whole /\ IsWhole' = IsWhole
             /\ handler'.req = handler.req
  <2>1. handler' = [handler EXCEPT !.at = "call"] /\ robot_owner' = o /\ robot_owners' = os
    BY <1>8 DEF Proceed
  <2>2. handler'.at = "call" /\ handler'.task = handler.task /\ handler'.req = handler.req
    BY <2>1 DEF OwnerIInv, OwnerTypeOK
  <2> QED
    BY <1>1, <2>1, <2>2 DEF Target, Token, TokenOf, Whole, IsWhole, ScopesOf
<1> HIDE DEF owner, owners
<1>9. CASE handler.task = "arm" /\ MayLease(owner, owners) /\ Proceed(owner, owners)
  <2>1. owner = Nobody /\ \A s \in Target : owners[s] = Nobody
    BY <1>9 DEF MayLease
  <2>2. /\ handler'.at = "call" /\ handler'.task = "arm" /\ robot_owner' = owner /\ robot_owners' = owners
        /\ Target' = Target
    BY <1>8, <1>9
  <2>3. \A s \in robot'.hw.active : LeasedTo(s)'
    BY <1>1, <1>3, <2>2 DEF LeasedTo
  <2> QED
    BY <1>3, <1>5, <2>1, <2>2, <2>3 DEF LeaseInv
<1>10. CASE handler.task = "command" /\ Held(owner, owners) = Token /\ Proceed(owner, owners)
  <2>1. /\ handler'.at = "call" /\ handler'.task = "command" /\ robot_owner' = owner /\ robot_owners' = owners
        /\ Target' = Target /\ Token' = Token /\ Whole' = Whole
    BY <1>8, <1>10
  <2>2. \A s \in robot'.hw.active : LeasedTo(s)'
    BY <1>1, <1>3, <2>1 DEF LeasedTo
  <2>3. Held(robot_owner, robot_owners)' = Token'
    BY <1>10, <2>1 DEF Held
  <2> QED
    BY <1>3, <1>5, <2>1, <2>2, <2>3 DEF LeaseInv, Unleased
<1>11. ASSUME handler.task \notin {"arm", "command"}, Proceed(Nobody, Unleased), IsWhole PROVE LeaseInv'
  <2>1. /\ handler'.at = "call" /\ handler'.task = handler.task /\ robot_owner' = Nobody /\ IsWhole'
    BY <1>8, <1>11
  <2>2. Settled' = {}
    BY <1>11, <2>1 DEF Settled
  <2> QED
    BY <1>5, <1>11, <2>1, <2>2 DEF LeaseInv
<1>12. ASSUME handler.task \notin {"arm", "command"}, owner = Nobody, Proceed(owner, Without(owners)), ~IsWhole
       PROVE  LeaseInv'
  <2>1. /\ handler'.at = "call" /\ handler'.task = handler.task /\ robot_owner' = Nobody /\ ~IsWhole'
        /\ robot_owners' = Without(owners) /\ Target' = Target
    BY <1>8, <1>12
  <2>2. Settled' = Scopes \ Target
    BY <1>12, <2>1 DEF Settled
  <2>3. \A s \in Scopes \ Target : Without(owners)[s] = owners[s]
    BY DEF Without
  <2>4. \A s \in robot'.hw.active \ Target : LeasedTo(s)'
    BY <1>1, <1>3, <1>12, <2>1, <2>3 DEF LeasedTo
  <2> QED
    BY <1>3, <1>5, <1>12, <2>1, <2>2, <2>4 DEF LeaseInv
<1>13. handler.task \in {"release", "stop", "stop_all"} \/ handler.task \in {"arm", "command"}
  BY <1>1 DEF RemoteCalls
<1>14. ~IsWhole <=> handler.task # "stop_all" /\ ~Whole
  BY <1>1, <1>13 DEF IsWhole
<1>15. handler.task = "release" => ~Whole
  BY <1>1 DEF OwnerIInv, HandlerInv, Whole
<1>16. Held(owner, owners) = Token /\ ~Whole => owner = Nobody
  BY <1>3, <1>4, <1>6 DEF Held
<1>17. \/ \E at : Refuse(owner, owners, at)
       \/ handler.task = "arm" /\ MayLease(owner, owners) /\ Proceed(owner, owners)
       \/ handler.task = "command" /\ Held(owner, owners) = Token /\ Proceed(owner, owners)
       \/ handler.task = "release" /\ Held(owner, owners) = Token /\ Proceed(owner, Without(owners))
       \/ handler.task \in {"stop", "stop_all"} /\ IsWhole /\ Proceed(Nobody, Unleased)
       \/ handler.task = "stop" /\ ~IsWhole /\ owner = Nobody /\ Proceed(owner, Without(owners))
  <2>1. CASE handler.task = "arm"
    BY <2>1 DEF Resume, owner, owners
  <2>2. CASE handler.task = "command"
    BY <2>2 DEF Resume, owner, owners
  <2>3. CASE handler.task = "release"
    BY <2>3 DEF Resume, owner, owners
  <2>4. CASE handler.task = "stop_all" \/ (handler.task = "stop" /\ Whole)
    BY <2>4 DEF Resume, IsWhole
  <2>5. CASE handler.task = "stop" /\ ~Whole
    BY <2>5, <1>14 DEF Resume, owner, owners
  <2> QED
    BY <1>13, <2>1, <2>2, <2>3, <2>4, <2>5
<1> QED
  BY <1>7, <1>9, <1>10, <1>11, <1>12, <1>14, <1>15, <1>16, <1>17

\* The call of the robot: an enable leases what it activated, a command that failed and a
\* stop give up what they did not leave active.
LEMMA LeaseCall == ASSUME OwnerIInv, Call PROVE LeaseInv'
<1>1. /\ handler.at = "call" /\ scopeOf' = scopeOf
      /\ handler.task \in {"fault", "exit"} \/ handler.req \in RemoteCalls
  BY DEF Call, OwnerIInv, HandlerInv
<1>2. PICK o \in Outcomes :
        /\ Apply(o.ok, o.robot.hw.uncertain)
        /\ RobotBecomes(IF up' THEN o.robot ELSE ColdRestart(o.robot), <<handler.req.client, handler.req.era>>)
  BY DEF Call
<1> DEFINE r == IF up' THEN o.robot ELSE ColdRestart(o.robot)
<1>3. /\ RobotInv(o.robot)
      /\ handler.task = "arm" => o.robot.hw.active \subseteq robot.hw.active \cup IF o.ok THEN Target ELSE {}
      /\ handler.task = "command" => o.robot.hw.active \subseteq robot.hw.active
      /\ handler.task \notin {"arm", "command"} =>
            o.robot.hw.active \subseteq IF IsWhole THEN {} ELSE robot.hw.active \ Target
  BY <1>1, OutcomesSound DEF OwnerIInv
<1>4. RobotInv(r) /\ r.hw.active \subseteq o.robot.hw.active /\ robot' = r
  BY <1>2, <1>3, ColdRestartSound DEF RobotInv, Sound, RobotBecomes
<1>5. RobotBecomes(r, <<handler.req.client, handler.req.era>>)
  BY <1>2
<1> HIDE DEF r
<1>6. r.hw.active \subseteq robot.hw.active => Dropped
  BY <1>4, <1>5, DroppedByRobot
<1>7. \A s \in robot.hw.active : s \in Scopes /\ armedBy[s] # Nobody
  BY DEF OwnerIInv, OwnerTypeOK, LeaseInv, Robots, Hardware
<1>8. handler.task \in {"arm", "command"} => \A s \in robot.hw.active : LeasedTo(s)
  BY <1>1, <1>7 DEF OwnerIInv, LeaseInv, Settled
<1>9. robot_owner # Nobody => robot_owners = Unleased
  BY DEF OwnerIInv, LeaseInv
<1>10. robot_owners \in [Scopes -> Owners]
  BY DEF OwnerIInv, OwnerTypeOK
<1>11. handler' = Idle => handler'.at = "idle" /\ Settled' = Scopes
  BY DEF Idle, Settled
<1>12. CASE handler.task = "arm" /\ o.ok
  <2>1. robot_owner = Nobody /\ \A s \in Target : robot_owners[s] = Nobody
    BY <1>1, <1>12 DEF OwnerIInv, LeaseInv
  <2>2. /\ Target \in SUBSET Scopes /\ (Whole => Target = Scopes) /\ Token \in Owners /\ Token # Nobody
    BY <1>1, <1>12, TargetOfCall DEF OwnerIInv, Owners
  <2>3. Target \cap robot.hw.active = {}
    BY <1>7, <1>8, <1>12, <2>1 DEF LeasedTo
  <2>4. /\ handler' = Idle
        /\ robot_owner' = (IF Whole THEN Token ELSE robot_owner)
        /\ robot_owners' = [s \in Scopes |-> IF ~Whole /\ s \in Target THEN Token ELSE robot_owners[s]]
    BY <1>2, <1>12 DEF Apply, Reply
  <2>5. Token = <<handler.req.client, handler.req.era>>
    BY DEF Token, TokenOf
  <2>6. OwnerTypeOK /\ RobotBecomes(r, Token)
    BY <1>5, <2>5 DEF OwnerIInv
  <2>7. /\ \A s \in Scopes : s \notin r.hw.active => armedBy'[s] = Nobody
        /\ \A s \in Scopes : s \in r.hw.active \cap robot.hw.active => armedBy'[s] = armedBy[s]
        /\ \A s \in Scopes : s \in r.hw.active /\ s \notin robot.hw.active => armedBy'[s] = Token
    BY <2>2, <2>6, ArmedByFollows
  <2>8. \A s \in r.hw.active : s \in Scopes /\ (s \in robot.hw.active \/ s \in Target)
    BY <1>3, <1>4, <1>7, <1>12, <2>2
  <2>9. \A s \in Scopes : armedBy'[s] = Nobody <=> s \notin robot'.hw.active
    BY <1>4, <1>7, <2>2, <2>7
  <2>10. robot_owner' # Nobody => robot_owners' = Unleased
    BY <2>1, <2>2, <2>4 DEF Unleased
  <2>11. \A s \in robot'.hw.active : LeasedTo(s)'
    <3>1. CASE Whole
      BY <1>4, <2>2, <2>3, <2>4, <2>7, <2>8, <3>1 DEF LeasedTo
    <3>2. CASE ~Whole
      <4> SUFFICES ASSUME NEW s \in robot'.hw.active PROVE LeasedTo(s)'
        OBVIOUS
      <4>1. s \in Scopes /\ s \in r.hw.active /\ robot_owner' = Nobody
        BY <1>4, <2>1, <2>4, <2>8, <3>2
      <4>2. CASE s \in robot.hw.active
        <5>1. armedBy'[s] = armedBy[s] /\ armedBy[s] = robot_owners[s]
          BY <1>8, <1>12, <2>1, <2>7, <4>1, <4>2 DEF LeasedTo
        <5>2. robot_owners'[s] = robot_owners[s]
          BY <2>3, <2>4, <4>1, <4>2
        <5> QED
          BY <4>1, <5>1, <5>2 DEF LeasedTo
      <4>3. CASE s \notin robot.hw.active
        <5>1. armedBy'[s] = Token /\ robot_owners'[s] = Token
          BY <2>4, <2>7, <2>8, <3>2, <4>1, <4>3
        <5> QED
          BY <4>1, <5>1 DEF LeasedTo
      <4> QED
        BY <4>2, <4>3
    <3> QED
      BY <3>1, <3>2
  <2> QED
    BY <1>11, <2>4, <2>9, <2>10, <2>11 DEF LeaseInv
<1>13. CASE (handler.task = "arm" /\ ~o.ok) \/ (handler.task = "command" /\ o.ok)
  <2>1. /\ handler' = Idle /\ robot_owner' = robot_owner /\ robot_owners' = robot_owners
    BY <1>2, <1>10, <1>13 DEF Apply, Reply, server
  <2>2. Dropped
    BY <1>3, <1>4, <1>6, <1>13
  <2>3. \A s \in robot'.hw.active : LeasedTo(s)'
    BY <1>8, <1>13, <2>1, <2>2 DEF LeasedTo, Dropped
  <2> QED
    BY <1>9, <1>11, <2>1, <2>2, <2>3 DEF LeaseInv, Dropped, Unleased
<1>14. CASE handler.task = "command" /\ ~o.ok
  <2>1. /\ handler' = [handler EXCEPT !.task = "give_up"]
        /\ robot_owner' = (IF Whole THEN Nobody ELSE robot_owner)
        /\ robot_owners' = Without(robot_owners)
    BY <1>2, <1>14 DEF Apply
  <2>2. handler'.at = "call" /\ handler'.task = "give_up" /\ handler'.req = handler.req
    BY <1>1, <2>1 DEF OwnerIInv, OwnerTypeOK
  <2>3. Whole' = Whole /\ Target' = Target /\ IsWhole' = Whole
    BY <1>1, <2>2 DEF Whole, Target, ScopesOf, IsWhole
  <2>4. Settled' = IF Whole THEN {} ELSE Scopes \ Target
    BY <2>2, <2>3 DEF Settled
  <2>5. Dropped
    BY <1>3, <1>4, <1>6, <1>14
  <2>6. ~Whole => robot_owner = Nobody
    <3>1. Held(robot_owner, robot_owners) = Token
      BY <1>1, <1>14 DEF OwnerIInv, LeaseInv
    <3>2. Token # Nobody /\ (~Whole => \E t \in Scopes : Target = {t} /\ (CHOOSE s \in Target : TRUE) = t)
      BY <1>1, <1>14, TargetOfCall DEF OwnerIInv
    <3> QED
      BY <1>9, <3>1, <3>2 DEF Held, Unleased
  <2>7. robot_owner' = Nobody
    BY <2>1, <2>6
  <2>8. \A s \in robot'.hw.active \cap Settled' : LeasedTo(s)'
    <3> SUFFICES ASSUME NEW s \in robot'.hw.active, s \in Settled' PROVE LeasedTo(s)'
      OBVIOUS
    <3>1. ~Whole /\ s \in Scopes \ Target
      BY <2>4
    <3>2. robot_owners'[s] = robot_owners[s]
      BY <2>1, <3>1 DEF Without
    <3>3. armedBy'[s] = armedBy[s] /\ LeasedTo(s)
      BY <1>8, <1>14, <2>5 DEF Dropped
    <3> QED
      BY <2>6, <2>7, <3>1, <3>2, <3>3 DEF LeasedTo
  <2> QED
    BY <2>2, <2>5, <2>7, <2>8 DEF LeaseInv, Dropped
<1>15. CASE handler.task \notin {"arm", "command"}
  <2>1. handler' = Idle /\ robot_owner' = robot_owner /\ robot_owners' = robot_owners
    BY <1>2, <1>15 DEF Apply, Reply
  <2>2. robot'.hw.active \subseteq IF IsWhole THEN {} ELSE robot.hw.active \ Target
    BY <1>3, <1>4, <1>15
  <2>3. Dropped
    <3>1. r.hw.active \subseteq robot.hw.active
      BY <1>4, <2>2
    <3> QED
      BY <1>6, <3>1
  <2>4. \A s \in robot'.hw.active : LeasedTo(s)'
    <3> SUFFICES ASSUME NEW s \in robot'.hw.active PROVE LeasedTo(s)'
      OBVIOUS
    <3>1. ~IsWhole /\ s \in robot.hw.active \ Target
      BY <2>2
    <3>2. s \in Settled
      BY <1>1, <1>7, <1>15, <3>1 DEF Settled
    <3>3. LeasedTo(s)
      BY <3>1, <3>2 DEF OwnerIInv, LeaseInv
    <3> QED
      BY <2>1, <2>3, <3>3 DEF LeasedTo, Dropped
  <2> QED
    BY <1>9, <1>11, <2>1, <2>3, <2>4 DEF LeaseInv, Dropped, Unleased
<1> QED
  BY <1>12, <1>13, <1>14, <1>15

\* The end of the server takes the leases with it.
LEMMA LeaseEnded ==
  ASSUME OwnerIInv, Ended, handler' = Idle
  PROVE  LeaseInv'
<1>1. RobotBecomes(ColdRestart(robot), Nobody) /\ robot_owner' = Nobody
  BY DEF Ended
<1>2. RobotInv(ColdRestart(robot)) /\ ColdRestart(robot).hw.active = {}
  BY ColdRestartSound DEF OwnerIInv, OwnerTypeOK
<1>3. Dropped /\ robot' = ColdRestart(robot)
  BY <1>1, <1>2, DroppedByRobot DEF RobotBecomes
<1> QED
  BY <1>1, <1>2, <1>3 DEF LeaseInv, Dropped, Idle

\* A read fault, and close(), give every lease up before they stop the robot.
LEMMA LeaseGivenUp ==
  ASSUME OwnerIInv, NEW t \in {"fault", "exit"}, handler' = [Idle EXCEPT !.at = "call", !.task = t],
         robot' = robot, armedBy' = armedBy, robot_owner' = Nobody
  PROVE  LeaseInv'
<1>1. handler'.at = "call" /\ handler'.task = t
  BY DEF Idle
<1>2. Settled' = {}
  BY <1>1 DEF Settled, IsWhole
<1> QED
  BY <1>1, <1>2 DEF LeaseInv, OwnerIInv

LEMMA LeaseGiveUp == ASSUME OwnerIInv, NEW c \in Clients, GiveUp(c) PROVE LeaseInv'
<1>1. Dropped
  BY DroppedNothing DEF GiveUp
<1>2. CASE handler' = handler
  BY <1>1, <1>2, LeaseDropped DEF GiveUp, server
<1>3. CASE handler' = [handler EXCEPT !.req.late = TRUE] /\ handler.req.client = c
  <2> DEFINE late == [handler.req EXCEPT !.late = TRUE]
  <2>1. handler.req \in RemoteCalls
    BY <1>3, OwnerAssumption DEF OwnerIInv, OwnerTypeOK, NoCall
  <2>2. late.client = handler.req.client /\ late.era = handler.req.era
    BY <2>1 DEF RemoteCalls
  <2>3. handler' = [handler EXCEPT !.req = late]
    BY <1>3
  <2> HIDE DEF late
  <2>4. /\ handler'.at = handler.at /\ handler'.task = handler.task /\ handler'.req = late
        /\ handler'.seen = handler.seen
    BY <2>3 DEF OwnerIInv, OwnerTypeOK
  <2>5. /\ robot' = robot /\ armedBy' = armedBy /\ scopeOf' = scopeOf
        /\ robot_owner' = robot_owner /\ robot_owners' = robot_owners
    BY DEF GiveUp, server
  <2>6. Whole' = Whole /\ Target' = Target /\ Token' = Token
    BY <2>2, <2>4, <2>5 DEF Whole, Target, Token, TokenOf, ScopesOf
  <2>7. Settled' = Settled /\ Held(robot_owner, robot_owners)' = Held(robot_owner, robot_owners)
    BY <2>4, <2>5, <2>6 DEF Settled, IsWhole, Held
  <2>8. \A s : LeasedTo(s)' <=> LeasedTo(s)
    BY <2>5 DEF LeasedTo
  <2> QED
    BY <2>4, <2>5, <2>6, <2>7, <2>8 DEF OwnerIInv, LeaseInv, Unleased
<1> QED
  BY <1>2, <1>3 DEF GiveUp, Awaited

LEMMA LeaseStep ==
  ASSUME OwnerIInv, [OwnerNext]_ownerVars
  PROVE  LeaseInv'
<1>1. CASE \/ \E c \in Clients : Enable(c) \/ Drive(c) \/ Halt(c) \/ ConnectionLost(c)
           \/ LateLost \/ UNCHANGED ownerVars
  <2>1. UNCHANGED <<robot, server, handler, scopeOf, armedBy>>
    BY <1>1 DEF Enable, Drive, Halt, Send, ConnectionLost, LateLost, ownerVars
  <2> QED
    BY <2>1, DroppedNothing, LeaseDropped DEF server
<1>2. ASSUME NEW c \in Clients, GiveUp(c) PROVE LeaseInv'
  BY <1>2, LeaseGiveUp
<1>3. ASSUME NEW c \in Clients, Observe(c) PROVE LeaseInv'
  BY <1>3, LeaseObserve
<1>4. CASE TickFault
  BY <1>4, LeaseGivenUp DEF TickFault
<1>5. ASSUME NEW expired \in SUBSET Scopes, WatchdogFires(expired) PROVE LeaseInv'
  <2>1. PICK o \in Watchdog(robot, expired) : RobotBecomes(o.robot, Nobody)
    BY <1>5 DEF WatchdogFires
  <2>2. RobotInv(o.robot) /\ o.robot.hw.active \subseteq robot.hw.active
    BY WatchdogOutcome DEF OwnerIInv
  <2> QED
    BY <1>5, <2>1, <2>2, DroppedByRobot, LeaseDropped DEF WatchdogFires, server
<1>6. CASE Exit
  <2>1. CASE Ended /\ UNCHANGED handler
    BY <1>6, <2>1, LeaseEnded DEF Exit
  <2>2. CASE ~(Ended /\ UNCHANGED handler)
    BY <1>6, <2>2, LeaseGivenUp DEF Exit
  <2> QED
    BY <2>1, <2>2
<1>7. CASE Crash \/ HandOver
  BY <1>7, LeaseEnded DEF Crash, HandOver
<1>8. CASE Restart \/ PowerOff
  <2>1. ~up /\ UNCHANGED <<handler, scopeOf, robot_owner, robot_owners, armedBy>>
    BY <1>8 DEF Restart, PowerOff, server
  <2>2. robot.hw.active = {}
    BY <2>1 DEF OwnerIInv, HandlerInv
  <2>3. robot'.hw.active = {}
    <3>1. CASE PowerOff
      BY <2>2, <3>1 DEF PowerOff, OwnerIInv, OwnerTypeOK, Robots
    <3>2. CASE Restart
      <4>1. \/ robot' = robot
            \/ robot' = FaultRestart(robot, TRUE) \/ robot' = FaultRestart(robot, FALSE)
            \/ \E o \in HeldRestart(robot) : robot' = o.robot
        BY <3>2 DEF Restart
      <4> QED
        BY <2>2, <4>1, FaultRestartSound, HeldRestartSound DEF OwnerIInv, RobotInv, Sound
    <3> QED
      BY <1>8, <3>1, <3>2
  <2> QED
    BY <2>1, <2>2, <2>3, DroppedNothing, LeaseDropped
<1> QED
  BY <1>1, <1>2, <1>3, <1>4, <1>5, <1>6, <1>7, <1>8, LeaseAccept, LeaseResume, LeaseCall DEF OwnerNext

-----------------------------------------------------------------------------

LEMMA OwnerInitially == OwnerInit => OwnerIInv
<1> SUFFICES ASSUME OwnerInit PROVE OwnerIInv
  OBVIOUS
<1>1. NewHardware \in Hardware /\ NewHardware.active = {} /\ ~NewHardware.uncertain /\ ~NewHardware.inherited
  BY DEF NewHardware, Hardware
<1>2. robot \in Robots /\ robot.hw = NewHardware /\ robot.doubt = {} /\ robot.moving = {}
  BY <1>1 DEF OwnerInit, Robots
<1>3. RobotInv(robot)
  BY <1>1, <1>2 DEF RobotInv, Sound
<1>4. OwnerTypeOK
  BY <1>2 DEF OwnerInit, OwnerTypeOK, Idle, Unleased, Owners
<1>5. HandlerInv
  BY DEF OwnerInit, HandlerInv, Idle
<1>6. LeaseInv
  BY <1>1, <1>2 DEF OwnerInit, LeaseInv, Idle, Unleased
<1> QED
  BY <1>3, <1>4, <1>5, <1>6 DEF OwnerIInv

LEMMA OwnerInvariance == OwnerSpec => []OwnerIInv
<1>1. OwnerIInv /\ [OwnerNext]_ownerVars => OwnerIInv'
  BY OwnerTypeStep, RobotStep, HandlerStep, LeaseStep DEF OwnerIInv
<1> QED
  BY <1>1, OwnerInitially, PTL DEF OwnerSpec

\* Every variable of the owner has its type.
THEOREM OwnerTypeCorrect == OwnerSpec => []OwnerTypeOK
<1>1. OwnerIInv => OwnerTypeOK
  BY DEF OwnerIInv
<1> QED
  BY <1>1, OwnerInvariance, PTL

\* _stop_locked, arm, command and the watchdog: an unconfirmed outcome leaves no scope
\* active and is on record until a stop lifts it, over restarts and handoffs.
THEOREM DoubtStopsAll == OwnerSpec => []DoubtStopsEverything
<1>1. OwnerIInv => DoubtStopsEverything
  BY DEF OwnerIInv, RobotInv, Sound, DoubtStopsEverything
<1> QED
  BY <1>1, OwnerInvariance, PTL

\* robot_endpoint and refresh_robot_owners: an active scope is leased to the enable that
\* activated it, and a lease of the whole robot is the only one.
THEOREM OneDriverAtATime == OwnerSpec => []OneDriver
<1>1. OwnerIInv => OneDriver
  <2> SUFFICES ASSUME OwnerIInv, handler = Idle
               PROVE  /\ robot_owner # Nobody => robot_owners = Unleased
                      /\ \A s \in robot.hw.active :
                           /\ armedBy[s] # Nobody
                           /\ TokenOf(armedBy[s][1], armedBy[s][2]) =
                                (IF robot_owner # Nobody THEN robot_owner ELSE robot_owners[s])
    BY DEF OneDriver
  <2>1. robot.hw.active \subseteq Scopes /\ Settled = Scopes
    BY DEF OwnerIInv, OwnerTypeOK, Robots, Hardware, Settled, Idle
  <2>2. \A s \in robot.hw.active : armedBy[s] # Nobody /\ armedBy[s] \in Owners /\ LeasedTo(s)
    BY <2>1 DEF OwnerIInv, LeaseInv, OwnerTypeOK
  <2>3. \A x \in Clients \X Nat : TokenOf(x[1], x[2]) = x
    BY DEF TokenOf
  <2> QED
    BY <2>2, <2>3 DEF OwnerIInv, LeaseInv, LeasedTo, Owners
<1> QED
  BY <1>1, OwnerInvariance, PTL

\* robot_endpoint, the lease of a command: what a command moves was activated by the enable
\* it was sent under, however late the command is handled.
THEOREM CommandsStayOwn == OwnerSpec => CommandsAreOwn
<1>1. OwnerIInv =>
        (handler.at = "call" /\ handler.task = "command"
           => \A s \in Target \cap robot.hw.active : armedBy[s] = <<handler.req.client, handler.req.era>>)
  <2> SUFFICES ASSUME OwnerIInv, handler.at = "call", handler.task = "command",
                      NEW s \in Target \cap robot.hw.active
               PROVE  armedBy[s] = Token
    BY DEF Token, TokenOf
  <2>1. /\ Held(robot_owner, robot_owners) = Token
        /\ robot_owner # Nobody => robot_owners = Unleased
    BY DEF OwnerIInv, LeaseInv
  <2>2. /\ Token # Nobody /\ Target \in SUBSET Scopes
        /\ ~Whole => \E t \in Scopes : Target = {t} /\ (CHOOSE x \in Target : TRUE) = t
    BY TargetOfCall DEF OwnerIInv, HandlerInv
  <2>3. LeasedTo(s)
    BY <2>2 DEF OwnerIInv, LeaseInv, Settled
  <2>4. CASE Whole
    BY <2>1, <2>2, <2>3, <2>4 DEF Held, LeasedTo
  <2>5. CASE ~Whole
    <3>1. robot_owners[s] = Token /\ s \in Scopes
      BY <2>1, <2>2, <2>5 DEF Held
    <3>2. robot_owner = Nobody
      BY <2>1, <2>2, <3>1 DEF Unleased
    <3> QED
      BY <2>3, <3>1, <3>2 DEF LeasedTo
  <2> QED
    BY <2>4, <2>5
<1>2. OwnerIInv =>
        [/\ handler.at = "call" /\ handler.task = "command"
         /\ handler' = Idle /\ up'
         => \A s \in Target \cap robot.hw.active : armedBy[s] = <<handler.req.client, handler.req.era>>]_ownerVars
  BY <1>1
<1> QED
  BY <1>2, OwnerInvariance, PTL DEF CommandsAreOwn
=============================================================================
