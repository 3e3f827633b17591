--------------------------- MODULE Go2AgentProofs ---------------------------
(***************************************************************************)
(* Proofs about Go2Agent, with and without restarts and for any bound on   *)
(* the queue.                                                              *)
(***************************************************************************)
EXTENDS Go2Agent, SequenceTheorems, TLAPS

Waits(c) == waiting[c] \in {"waiting", "late"}

\* The call that c makes now: its method, and whether it is a halt.
MethodOf(c) ==
    IF c = "worker" THEN IF worker = "moving" THEN "Move" ELSE "StopMove"
                    ELSE IF opAt = "posturing" THEN "Posture" ELSE "StopMove"
HaltOf(c) == c = "op" /\ op \in {"stop", "close"}

IsCallOf(c, call) ==
    call.by = c /\ call.waited /\ call.method = MethodOf(c) /\ (call.halt <=> HaltOf(c))

\* Who holds which lock, and how far an operation can be.
PlaceInv ==
    /\ commandLock = "worker" <=> worker \in {"moving", "stopping"}
    /\ commandLock = "op" <=> opAt \in {"stopping", "posturing"}
    /\ waiting["worker"] # "out" <=> worker \in {"moving", "stopping"}
    /\ waiting["op"] # "out" <=> opAt \in {"stopping", "posturing", "final"}
    /\ \A c \in Callers : Waits(c) => submitLock = c
    /\ submitLock = "worker" => Waits("worker")
    /\ submitLock = "op" => Waits("op") \/ opAt \in {"final", "ending"}
    /\ opAt \in {"final", "ending"} => submitLock = "op"
    /\ opAt = "final" => waiting["op"] # "entering"
    /\ op = "none" <=> opAt = "out"
    /\ opAt \in {"posture", "posturing"} => op = "posture"
    /\ opAt \in {"close", "final", "ending"} <=>
          op = "close" /\ opAt \notin {"joining", "stop", "stopping"}
    /\ op # "none" => stopEvent
    /\ opJoined => op # "none" /\ ~WorkerAlive
    /\ op = "close" <=> closed = "closing"
    /\ process = "init" => sent = "none"

\* The owner has a call in hand or none; the None that ends its loop is the last.
OwnerInv ==
    /\ owner \in {"taken", "calling", "returned"} <=> current # NoCall
    /\ sdkClosed <=> opAt = "ending" \/ closed = "closed"
    /\ \A i \in 1..Len(queue) : queue[i] = NoCall => i = Len(queue) /\ sdkClosed

\* What somebody waits for is the last call in the queue, the one the owner has in
\* hand, or done.
InQueue(c) == future[c] = "pending" /\ queue # <<>> /\ IsCallOf(c, queue[Len(queue)])

InHand(c) ==
    /\ future[c] = "running" /\ queue = <<>> /\ IsCallOf(c, current)
    /\ owner \in {"taken", "calling"}
    /\ (owner = "calling" => sent = MethodOf(c) /\ (HaltOf(c) => halted))

Done(c) ==
    /\ future[c] \in {"ok", "bad"} /\ queue = <<>> /\ owner \in {"returned", "idle"}
    /\ current.method \in {MethodOf(c), "Exit"}
    /\ (MethodOf(c) = "StopMove" \/ future[c] = "ok" => sent = MethodOf(c) /\ (HaltOf(c) => halted))

FutureInv == \A c \in Callers : Waits(c) => InQueue(c) \/ InHand(c) \/ Done(c)

\* A call that is waited for is one that somebody waits for.
WaitedInv ==
    /\ \A i \in 1..Len(queue) :
          queue[i].waited => i = Len(queue) /\ Waits(queue[i].by) /\ future[queue[i].by] = "pending"
    /\ owner \in {"taken", "calling"} /\ current.waited =>
          Waits(current.by) /\ future[current.by] = "running"

\* The method of no call in the queue or in the owner's hand.
No(m) == current.method # m /\ \A i \in 1..Len(queue) : queue[i].method # m

\* A posture or a confirmed stop finds no motion, and none can begin after it.
PostureInv ==
    /\ opAt \in {"posture", "posturing"} => ~ready /\ ~WorkerAlive /\ No("Move")
    /\ No("Posture") \/ (~ready /\ ~WorkerAlive /\ No("Move"))

ReportInv ==
    /\ opJoined /\ opAt = "stopping" /\ waiting["op"] = "ok" =>
          queue = <<>> /\ No("Move") /\ No("Posture") /\ sent = "StopMove"
    /\ stopReport = "stopped" =>
          /\ ~ready /\ op # "posture" /\ ~WorkerAlive
          /\ No("Move") /\ No("Posture") /\ sent = "StopMove"

\* Once a halting StopMove is in the FIFO no motion comes behind it.
Halting == halted \/ current.halt \/ \E i \in 1..Len(queue) : queue[i].halt

Motions == {"Move", "Posture"}

HaltInv ==
    /\ opAt \notin {"out", "joining", "stop"} => worker # "moving"
    /\ opAt \in {"close", "final", "ending"} => ~ready
    /\ Halting => /\ worker # "moving" /\ stopEvent
                  /\ op # "posture" /\ (op = "none" => ~ready)
    /\ halted => sent = "StopMove"

OrderInv ==
    /\ current.halt => current.method = "StopMove"
    /\ halted => current.method \notin Motions
    /\ \A i \in 1..Len(queue) :
          /\ queue[i].halt => queue[i].method = "StopMove"
          /\ halted \/ current.halt => queue[i].method \notin Motions
          /\ \A j \in 1..i : queue[j].halt => queue[i].method \notin Motions

\* The final StopMove is made, or the transport faulted, before the agent exits.
FinalInv ==
    /\ opAt = "final" /\ ~Waits("op") => halted \/ faulted
    /\ opAt = "ending" \/ closed = "closed" => halted \/ faulted
    /\ ExitSafe

IInv ==
        /\ TypeOK /\ PlaceInv /\ OwnerInv /\ FutureInv /\ WaitedInv /\ PostureInv /\ ReportInv
        /\ HaltInv /\ OrderInv /\ FinalInv

-----------------------------------------------------------------------------
(* What the operations do to the queue.                                    *)

Entries == Calls \cup {NoCall}

\* A call that is appended is the last one.
LEMMA Appended ==
    ASSUME TypeOK, NEW call \in Entries, queue' = Append(queue, call)
    PROVE  /\ queue' \in Seq(Entries) /\ Len(queue') = Len(queue) + 1 /\ Len(queue) \in Nat
           /\ queue' # <<>> /\ queue'[Len(queue')] = call
           /\ \A i \in 1..Len(queue) : queue'[i] = queue[i]
           /\ \A i \in 1..Len(queue') : i <= Len(queue) \/ queue'[i] = call
<1>1. queue \in Seq(Entries)
  BY DEF TypeOK, OwnerTypeOK, Entries
<1> QED
  BY <1>1

\* The owner takes the first call.
LEMMA Taken ==
    ASSUME TypeOK, OwnerTakes
    PROVE  /\ queue' \in Seq(Entries) /\ Len(queue') = Len(queue) - 1
           /\ Len(queue) \in Nat \ {0} /\ Len(queue') \in Nat
           /\ current' = queue[1] /\ current' \in Calls
           /\ (queue' = <<>> <=> Len(queue) = 1)
           /\ \A i \in 1..Len(queue') : queue'[i] = queue[i + 1] /\ i + 1 \in 1..Len(queue)
<1>1. queue \in Seq(Entries) /\ queue # <<>> /\ queue' = Tail(queue) /\ current' = Head(queue)
      /\ Head(queue) # NoCall
  BY DEF TypeOK, OwnerTypeOK, Entries, OwnerTakes
<1>2. Head(queue) \in Entries /\ Head(queue) = queue[1] /\ Len(queue) \in Nat \ {0}
  BY <1>1
<1>3. /\ queue' \in Seq(Entries) /\ Len(queue') = Len(queue) - 1
      /\ \A i \in 1..Len(queue') : queue'[i] = queue[i + 1]
  BY <1>1, <1>2
<1>4. Len(queue') \in Nat /\ (queue' = <<>> <=> Len(queue') = 0)
  BY <1>3
<1>5. current' \in Calls
  BY <1>1, <1>2 DEF Entries
<1> QED
  BY <1>1, <1>2, <1>3, <1>4, <1>5

\* A wait that cancels its call takes the last one away.
LEMMA LastCancelled ==
    ASSUME TypeOK, queue # <<>>, queue' = SubSeq(queue, 1, Len(queue) - 1)
    PROVE  /\ queue' \in Seq(Entries) /\ Len(queue') = Len(queue) - 1
           /\ Len(queue) \in Nat \ {0} /\ Len(queue') \in Nat
           /\ \A i \in 1..Len(queue') : queue'[i] = queue[i] /\ i \in 1..Len(queue) /\ i # Len(queue)
<1>1. queue \in Seq(Entries) /\ Len(queue) \in Nat \ {0}
  BY DEF TypeOK, OwnerTypeOK, Entries
<1>2. Len(queue) - 1 \in 0..Len(queue)
  BY <1>1
<1>3. \A i \in 1..(Len(queue) - 1) : queue[i] \in Entries
  BY <1>1
<1> DEFINE n == Len(queue) - 1
<1>4. n \in Int /\ \A i \in 1..n : queue[i] \in Entries
  BY <1>1, <1>3
<1>5. queue' = SubSeq(queue, 1, n)
  OBVIOUS
<1> HIDE DEF n
<1>6. /\ queue' \in Seq(Entries)
      /\ Len(queue') = IF 1 <= n THEN n - 1 + 1 ELSE 0
      /\ \A i \in 1..n - 1 + 1 : queue'[i] = queue[1 + i - 1]
  BY <1>4, <1>5, SubSeqProperties
<1>7. n \in Nat
  BY <1>1 DEF n
<1>8. Len(queue') = n
  BY <1>6, <1>7
<1>9. \A i \in 1..n : queue'[i] = queue[i]
  BY <1>6, <1>7
<1> QED
  BY <1>1, <1>6, <1>7, <1>8, <1>9 DEF n

\* A wait that is given up leaves every call where it is.
LEMMA WaitDetached ==
    ASSUME TypeOK, NEW c \in Callers, Detach(c)
    PROVE  /\ queue' \in Seq(Entries) /\ Len(queue') = Len(queue) /\ Len(queue) \in Nat
           /\ (queue' = <<>> <=> queue = <<>>)
           /\ \A i \in 1..Len(queue) :
                 /\ queue'[i].method = queue[i].method /\ queue'[i].by = queue[i].by
                 /\ queue'[i].halt = queue[i].halt
                 /\ queue'[i].waited <=> queue[i].waited /\ queue[i].by # c
                 /\ queue'[i] = NoCall <=> queue[i].method = "Exit"
                 /\ queue[i] = NoCall <=> queue[i].method = "Exit"
           /\ current'.method = current.method /\ current'.by = current.by
           /\ current'.halt = current.halt
           /\ (current'.waited <=> current.waited /\ current.by # c)
           /\ (current' = NoCall <=> current = NoCall) /\ current' \in Entries
<1>1. queue \in Seq(Entries) /\ current \in Entries /\ DOMAIN queue = 1..Len(queue) /\ Len(queue) \in Nat
  BY DEF TypeOK, OwnerTypeOK, Entries
<1>2. ASSUME NEW call \in Entries
      PROVE  /\ Detached(call, c) \in Entries
             /\ Detached(call, c).method = call.method /\ Detached(call, c).by = call.by
             /\ Detached(call, c).halt = call.halt
             /\ Detached(call, c).waited <=> call.waited /\ call.by # c
             /\ Detached(call, c) = NoCall <=> call.method = "Exit"
             /\ call = NoCall <=> call.method = "Exit"
  <2>1. CASE call = NoCall
    BY <2>1 DEF Detached, Entries, Calls, NoCall, Methods
  <2>2. CASE call \in Calls
    <3>1. call.method # "Exit"
      BY <2>2 DEF Calls, Methods
    <3>2. CASE call.by = c
      <4>1. Detached(call, c) = [call EXCEPT !.waited = FALSE]
        BY <3>2 DEF Detached
      <4>2. Detached(call, c) \in Calls /\ Detached(call, c).waited = FALSE
        BY <2>2, <4>1 DEF Calls
      <4>3. /\ Detached(call, c).method = call.method /\ Detached(call, c).by = call.by
            /\ Detached(call, c).halt = call.halt
        BY <2>2, <4>1 DEF Calls
      <4>4. Detached(call, c) # NoCall /\ call # NoCall
        BY <3>1, <4>3 DEF NoCall
      <4> QED
        BY <3>1, <3>2, <4>2, <4>3, <4>4 DEF Entries
    <3>3. CASE call.by # c
      BY <2>2, <3>1, <3>3 DEF Detached, Entries, NoCall
    <3> QED
      BY <3>2, <3>3
  <2> QED
    BY <2>1, <2>2 DEF Entries
<1>3. /\ queue' = [i \in 1..Len(queue) |-> Detached(queue[i], c)]
      /\ \A i \in 1..Len(queue) : queue[i] \in Entries /\ Detached(queue[i], c) \in Entries
      /\ current' = Detached(current, c)
  BY <1>1, <1>2 DEF Detach
<1>4. queue' \in Seq(Entries) /\ Len(queue') = Len(queue)
  BY <1>1, <1>3
<1> QED
  BY <1>1, <1>2, <1>3, <1>4

\* What is true of the queue and of what the owner has in hand.
LEMMA QueueTypes ==
    ASSUME TypeOK
    PROVE  /\ queue \in Seq(Entries) /\ Len(queue) \in Nat /\ DOMAIN queue = 1..Len(queue)
           /\ (queue = <<>> <=> Len(queue) = 0)
           /\ \A i \in 1..Len(queue) : queue[i] \in Entries
           /\ current \in Entries
           /\ \A call \in Calls : call \in Entries /\ call # NoCall /\ call.by \in Callers
                                   /\ call.method \in Methods
           /\ NoCall.method = "Exit" /\ ~NoCall.halt /\ ~NoCall.waited
<1>1. queue \in Seq(Entries) /\ current \in Entries
  BY DEF TypeOK, OwnerTypeOK, Entries
<1>2. \A call \in Calls : call \in Entries /\ call # NoCall /\ call.by \in Callers /\ call.method \in Methods
  BY DEF Calls, NoCall, Entries, Methods
<1>3. NoCall.method = "Exit" /\ ~NoCall.halt /\ ~NoCall.waited
  BY DEF NoCall
<1> QED
  BY <1>1, <1>2, <1>3

-----------------------------------------------------------------------------
(* The steps of Submit and of WaitStep, by what they do.                   *)

\* A call with a method is the last in the queue.
Pushed(m, c, h) ==
    /\ Len(queue) \in Nat /\ Len(queue') = Len(queue) + 1 /\ queue' # <<>>
    /\ \A i \in 1..Len(queue) : queue'[i] = queue[i]
    /\ \A i \in 1..Len(queue') : i \in 1..Len(queue) \/ i = Len(queue')
    /\ queue'[Len(queue')] # NoCall
    /\ queue'[Len(queue')].method = m /\ queue'[Len(queue')].by = c
    /\ queue'[Len(queue')].waited /\ (queue'[Len(queue')].halt <=> h)

Queues(c) ==
    /\ waiting[c] = "entering" /\ submitLock = "none" /\ submitLock' = c
    /\ waiting' = [waiting EXCEPT ![c] = "waiting"]
    /\ future' = [future EXCEPT ![c] = "pending"]
    /\ ~sdkClosed
    /\ Pushed(MethodOf(c), c, HaltOf(c))
    /\ UNCHANGED <<ready, process, closed, opVars, leaseVars, commandLock, current, owner,
                   sdkClosing, sdkClosed, faulted, adapterLease, historyVars>>

IsRefused(c) ==
    /\ waiting[c] = "entering"
    /\ waiting' = [waiting EXCEPT ![c] = "bad"]
    /\ UNCHANGED <<ready, process, closed, opVars, leaseVars, lockVars, ownerVars, future,
                   adapterLease, historyVars>>

\* Submit queues a call of the caller, or refuses it.
LEMMA SubmitCases ==
    ASSUME IInv, WorkerSubmits \/ OpSubmits
    PROVE  \E c \in Callers : Queues(c) \/ IsRefused(c)
<1> USE DEF opVars, leaseVars, lockVars, ownerVars, callVars, historyVars
<1>1. ASSUME NEW c \in Callers, NEW m \in Methods, NEW h \in BOOLEAN, Submit(c, m, h), ~Refused(m)
      PROVE  Pushed(m, c, h)
  <2> DEFINE call == [method |-> m, by |-> c, halt |-> h, waited |-> TRUE]
  <2>1. call \in Calls /\ call.method = m /\ call.by = c /\ call.waited /\ (call.halt <=> h)
    BY <1>1 DEF Calls
  <2>2. queue' = Append(queue, call)
    BY <1>1 DEF Submit
  <2> HIDE DEF call
  <2>3. call \in Entries /\ call # NoCall
    BY <2>1, QueueTypes DEF IInv
  <2> QED
    BY <2>1, <2>2, <2>3, Appended DEF IInv, Pushed
<1>2. CASE WorkerSubmits
  <2> DEFINE m == IF worker = "moving" THEN "Move" ELSE "StopMove"
  <2>1. m \in Methods /\ "worker" \in Callers /\ FALSE \in BOOLEAN
    BY DEF Methods, Callers
  <2>2. Submit("worker", m, FALSE)
        /\ UNCHANGED <<ready, process, closed, opVars, leaseVars, commandLock, adapterLease, historyVars>>
    BY <1>2 DEF WorkerSubmits, WorkerRest
  <2>3. m = MethodOf("worker") /\ ~HaltOf("worker")
    BY DEF MethodOf, HaltOf
  <2> HIDE DEF m
  <2>4. CASE Refused(m)
    BY <2>1, <2>2, <2>4 DEF Submit, IsRefused
  <2>5. CASE ~Refused(m)
    <3>1. Pushed(m, "worker", FALSE)
      BY <1>1, <2>1, <2>2, <2>5
    <3>2. Pushed(MethodOf("worker"), "worker", HaltOf("worker"))
      BY <3>1, <2>3 DEF Pushed
    <3> QED
      BY <2>1, <2>2, <2>5, <3>2 DEF Submit, Refused, Queues
  <2> QED
    BY <2>4, <2>5
<1>3. CASE OpSubmits
  <2> DEFINE m == IF opAt = "posturing" THEN "Posture" ELSE "StopMove"
  <2>1. m \in Methods /\ "op" \in Callers /\ (op \in {"stop", "close"}) \in BOOLEAN
    BY DEF Methods, Callers
  <2>2. Submit("op", m, op \in {"stop", "close"})
        /\ UNCHANGED <<ready, process, closed, opVars, leaseVars, commandLock, adapterLease, historyVars>>
    BY <1>3 DEF OpSubmits, OpRest
  <2>3. m = MethodOf("op") /\ (HaltOf("op") <=> op \in {"stop", "close"})
    BY DEF MethodOf, HaltOf
  <2> HIDE DEF m
  <2>4. CASE Refused(m)
    BY <2>1, <2>2, <2>4 DEF Submit, IsRefused
  <2>5. CASE ~Refused(m)
    <3>1. Pushed(m, "op", op \in {"stop", "close"})
      BY <1>1, <2>1, <2>2, <2>5
    <3>2. Pushed(MethodOf("op"), "op", HaltOf("op"))
      BY <3>1, <2>3 DEF Pushed
    <3> QED
      BY <2>1, <2>2, <2>5, <3>2 DEF Submit, Refused, Queues
  <2> QED
    BY <2>4, <2>5
<1> QED
  BY <1>2, <1>3

WaitRest == <<ready, process, closed, opVars, leaseVars, commandLock, adapterLease, historyVars, future>>
GivesUp(c) == submitLock' = IF c = "op" /\ opAt = "final" THEN "op" ELSE "none"

IsAnswered(c) ==
    /\ Waits(c) /\ future[c] \in {"ok", "bad"}
    /\ waiting' = [waiting EXCEPT ![c] = future[c]]
    /\ GivesUp(c) /\ UNCHANGED <<WaitRest, ownerVars>>

Expires(c) ==
    /\ waiting[c] = "waiting" /\ waiting' = [waiting EXCEPT ![c] = "late"]
    /\ UNCHANGED <<WaitRest, ownerVars, submitLock>>

\* The motion that was the last in the queue is no longer there.
Cancels(c) ==
    /\ Waits(c) /\ future[c] = "pending" /\ MethodOf(c) # "StopMove"
    /\ queue # <<>> /\ Len(queue) \in Nat /\ Len(queue') = Len(queue) - 1 /\ Len(queue') \in Nat
    /\ \A i \in 1..Len(queue') : queue'[i] = queue[i] /\ i \in 1..Len(queue) /\ i # Len(queue)
    /\ waiting' = [waiting EXCEPT ![c] = "bad"]
    /\ GivesUp(c) /\ UNCHANGED <<WaitRest, current, owner, sdkClosing, sdkClosed, faulted>>

\* The call stays where it is, and nobody waits for it.
GivenUp(c) ==
    /\ waiting[c] = "late" /\ waiting' = [waiting EXCEPT ![c] = "bad"] /\ faulted'
    /\ Len(queue) \in Nat /\ Len(queue') = Len(queue) /\ (queue' = <<>> <=> queue = <<>>)
    /\ \A i \in 1..Len(queue) :
          /\ queue'[i].method = queue[i].method /\ queue'[i].by = queue[i].by
          /\ queue'[i].halt = queue[i].halt
          /\ queue'[i].waited <=> queue[i].waited /\ queue[i].by # c
          /\ queue'[i] = NoCall <=> queue[i] = NoCall
    /\ current'.method = current.method /\ current'.by = current.by
    /\ current'.halt = current.halt /\ (current'.waited <=> current.waited /\ current.by # c)
    /\ (current' = NoCall <=> current = NoCall)
    /\ GivesUp(c) /\ UNCHANGED <<WaitRest, owner, sdkClosing, sdkClosed>>

\* A wait is answered, goes on, takes its call back or leaves it behind.
LEMMA WaitCases ==
    ASSUME IInv, NEW c \in Callers, WaitStep(c)
    PROVE  IsAnswered(c) \/ Expires(c) \/ Cancels(c) \/ GivenUp(c)
<1> USE DEF opVars, leaseVars, lockVars, ownerVars, callVars, historyVars, WaitRest, GivesUp
<1>1. CASE WaitFaults(c)
  <2>1. TypeOK /\ Detach(c)
    BY <1>1 DEF WaitFaults, IInv
  <2> QED
    BY <1>1, <2>1, WaitDetached
       DEF WaitStep, WaitFaults, WaitDone, WaitCancels, WaitExpires, GivenUp
<1>2. CASE WaitCancels(c)
  <2>1. InQueue(c) /\ waiting[c] = "waiting" /\ future[c] = "pending" /\ ~Pending(c, "StopMove")
    BY <1>2 DEF WaitCancels, IInv, FutureInv, Waits, InHand, Done
  <2>2. TypeOK /\ queue # <<>> /\ queue' = SubSeq(queue, 1, Len(queue) - 1)
    BY <1>2, <2>1 DEF IInv, InQueue, WaitCancels
  <2>3. Len(queue) \in 1..Len(queue)
    BY <2>2, QueueTypes
  <2>4. MethodOf(c) # "StopMove"
    BY <2>1, <2>3 DEF InQueue, Pending, Mine, IsMine, IsCallOf
  <2> QED
    BY <1>2, <2>1, <2>2, <2>4, LastCancelled
       DEF WaitStep, WaitFaults, WaitDone, WaitCancels, WaitExpires, Cancels, Waits
<1>3. CASE WaitExpires(c)
  BY <1>3 DEF WaitStep, WaitFaults, WaitDone, WaitCancels, WaitExpires, Expires
<1>4. CASE WaitDone(c, "waiting") \/ WaitDone(c, "late")
  BY <1>4 DEF WaitStep, WaitFaults, WaitDone, WaitCancels, WaitExpires, IsAnswered, Waits
<1> QED
  BY <1>1, <1>2, <1>3, <1>4 DEF WaitStep

\* close() queues a StopMove that is a halt.
LEMMA FinalPushed ==
    ASSUME TypeOK, FinalStop
    PROVE  Pushed("StopMove", "op", TRUE)
<1> DEFINE call == [method |-> "StopMove", by |-> "op", halt |-> TRUE, waited |-> TRUE]
<1>1. call \in Calls /\ call.method = "StopMove" /\ call.by = "op" /\ call.waited /\ call.halt
  BY DEF Calls, Methods, Callers
<1>2. queue' = Append(queue, call)
  BY DEF FinalStop
<1> HIDE DEF call
<1>3. call \in Entries /\ call # NoCall
  BY <1>1, QueueTypes
<1> QED
  BY <1>1, <1>2, <1>3, Appended DEF Pushed

-----------------------------------------------------------------------------

\* Every action keeps the types.
LEMMA ExecutorTypeStep ==
    ASSUME IInv, Next
    PROVE  ExecutorTypeOK'
<1> USE DEF IInv, TypeOK, opVars, leaseVars, lockVars, ownerVars, callVars, historyVars,
   WorkerStates, Callers
<1>1. CASE OwnerInit
  BY <1>1 DEF OwnerInit, Rest, ExecutorTypeOK
<1>2. CASE WorkerTests("begin", "loop")
  BY <1>2 DEF WorkerTests, WorkerRest, LeaseOver, ExecutorTypeOK
<1>3. CASE WorkerTests("loop", "checked")
  BY <1>3 DEF WorkerTests, WorkerRest, LeaseOver, ExecutorTypeOK
<1>4. CASE WorkerLocks
  BY <1>4 DEF WorkerLocks, WorkerRest, ExecutorTypeOK
<1>5. CASE WorkerStops
  BY <1>5 DEF WorkerStops, WorkerRest, ExecutorTypeOK
<1>6. CASE WorkerSubmits
  BY <1>6 DEF WorkerSubmits, WorkerRest, Submit, Refused, Motion, ExecutorTypeOK
<1>7. CASE WorkerResumes
  BY <1>7 DEF WorkerResumes, ExecutorTypeOK
<1>8. CASE OpJoins
  BY <1>8 DEF OpJoins, OpRest, ExecutorTypeOK
<1>9. CASE OpLocks("stop", "stopping")
  BY <1>9 DEF OpLocks, OpRest, ExecutorTypeOK
<1>10. CASE OpLocks("posture", "posturing")
  BY <1>10 DEF OpLocks, OpRest, ExecutorTypeOK
<1>11. CASE OpSubmits
  BY <1>11 DEF OpSubmits, OpRest, Submit, Refused, Motion, ExecutorTypeOK
<1>12. CASE StopReturns
  BY <1>12 DEF StopReturns, OpRest, Called, Returned, OpEnds, Confirmed, ExecutorTypeOK
<1>13. CASE PostureStopped
  <2>1. ready' \in BOOLEAN /\ opJoined' \in BOOLEAN
    BY <1>13 DEF PostureStopped, OpRest, Called, Returned, OpEnds, Confirmed, ExecutorTypeOK
  <2> QED
    BY <1>13, <2>1 DEF PostureStopped, OpRest, Called, Returned, OpEnds, Confirmed,
       ExecutorTypeOK
<1>14. CASE PostureReturns
  <2>1. ready' \in BOOLEAN /\ opJoined' \in BOOLEAN
    BY <1>14 DEF PostureReturns, OpRest, Called, Returned, OpEnds, ExecutorTypeOK
  <2> QED
    BY <1>14, <2>1 DEF PostureReturns, OpRest, Called, Returned, OpEnds, ExecutorTypeOK
<1>15. CASE CloseStopped
  <2>1. ready' \in BOOLEAN /\ opJoined' \in BOOLEAN
    BY <1>15 DEF CloseStopped, OpRest, Called, Returned, ExecutorTypeOK
  <2> QED
    BY <1>15, <2>1 DEF CloseStopped, OpRest, Called, Returned, ExecutorTypeOK
<1>16. CASE FinalStop
  BY <1>16 DEF FinalStop, OpRest, ExecutorTypeOK
<1>17. CASE EndOwner
  BY <1>17 DEF EndOwner, OpRest, Called, Returned, ExecutorTypeOK
<1>18. CASE CloseReturns
  BY <1>18 DEF CloseReturns, OpRest, OpEnds, ExecutorTypeOK
<1>19. ASSUME NEW c \in Callers, WaitStep(c) PROVE ExecutorTypeOK'
  BY <1>19 DEF WaitStep, WaitDone, WaitCancels, WaitFaults, WaitExpires, Detach, Detached,
     Pending, Mine, IsMine, ExecutorTypeOK
<1>20. CASE OwnerTakes
  BY <1>20 DEF OwnerTakes, Rest, Deliver, ExecutorTypeOK
<1>21. CASE OwnerRefuses
  BY <1>21 DEF OwnerRefuses, Rest, Deliver, Motion, ExecutorTypeOK
<1>22. CASE process = "serving" /\ OwnerCalls
  BY <1>22 DEF OwnerCalls, Rest, Motion, ExecutorTypeOK
<1>23. CASE OwnerReturns
  BY <1>23 DEF OwnerReturns, Rest, Motion, ExecutorTypeOK
<1>24. CASE OwnerExits
  BY <1>24 DEF OwnerExits, Rest, ExecutorTypeOK
<1>25. CASE SdkReturns
  BY <1>25 DEF SdkReturns, Rest, Deliver, ExecutorTypeOK
<1>26. CASE LeaseElapses
  BY <1>26 DEF LeaseElapses, ExecutorTypeOK
<1>27. CASE StartMotion
  BY <1>27 DEF StartMotion, Admits, ReadyForMotion, ExecutorTypeOK
<1>28. ASSUME NEW o \in {"posture", "stop", "close"}, OpBegins(o) PROVE ExecutorTypeOK'
  BY <1>28 DEF OpBegins, Admits, ReadyForMotion, ExecutorTypeOK
<1>29. CASE Serve
  BY <1>29 DEF Serve, ExecutorTypeOK
<1>30. CASE Exit
  BY <1>30 DEF Exit, ExecutorTypeOK
<1>31. CASE Restart
  BY <1>31 DEF Restart, ExecutorTypeOK
<1> QED
  BY <1>1, <1>2, <1>3, <1>4, <1>5, <1>6, <1>7, <1>8, <1>9, <1>10, <1>11, <1>12, <1>13, <1>14,
     <1>15, <1>16, <1>17, <1>18, <1>19, <1>20, <1>21, <1>22, <1>23, <1>24, <1>25, <1>26, <1>27,
     <1>28, <1>29, <1>30, <1>31 DEF Next, WorkerStep, OpStep, OwnerStep

\* Every action keeps the types.
LEMMA WaitsTypeStep ==
    ASSUME IInv, Next
    PROVE  WaitsTypeOK'
<1> USE DEF IInv, TypeOK, opVars, leaseVars, lockVars, ownerVars, callVars, historyVars,
   Callers, Futures, WaitStates
<1>1. CASE OwnerInit
  BY <1>1 DEF OwnerInit, Rest, WaitsTypeOK
<1>2. CASE WorkerTests("begin", "loop")
  BY <1>2 DEF WorkerTests, WorkerRest, LeaseOver, WaitsTypeOK
<1>3. CASE WorkerTests("loop", "checked")
  BY <1>3 DEF WorkerTests, WorkerRest, LeaseOver, WaitsTypeOK
<1>4. CASE WorkerLocks
  BY <1>4 DEF WorkerLocks, WorkerRest, WaitsTypeOK
<1>5. CASE WorkerStops
  BY <1>5 DEF WorkerStops, WorkerRest, WaitsTypeOK
<1>6. CASE WorkerSubmits
  BY <1>6 DEF WorkerSubmits, WorkerRest, Submit, Refused, Motion, WaitsTypeOK
<1>7. CASE WorkerResumes
  BY <1>7 DEF WorkerResumes, WaitsTypeOK
<1>8. CASE OpJoins
  BY <1>8 DEF OpJoins, OpRest, WaitsTypeOK
<1>9. CASE OpLocks("stop", "stopping")
  BY <1>9 DEF OpLocks, OpRest, WaitsTypeOK
<1>10. CASE OpLocks("posture", "posturing")
  BY <1>10 DEF OpLocks, OpRest, WaitsTypeOK
<1>11. CASE OpSubmits
  BY <1>11 DEF OpSubmits, OpRest, Submit, Refused, Motion, WaitsTypeOK
<1>12. CASE StopReturns
  BY <1>12 DEF StopReturns, OpRest, Called, Returned, OpEnds, Confirmed, WaitsTypeOK
<1>13. CASE PostureStopped
  BY <1>13 DEF PostureStopped, OpRest, Called, Returned, OpEnds, Confirmed, WaitsTypeOK
<1>14. CASE PostureReturns
  BY <1>14 DEF PostureReturns, OpRest, Called, Returned, OpEnds, WaitsTypeOK
<1>15. CASE CloseStopped
  BY <1>15 DEF CloseStopped, OpRest, Called, Returned, WaitsTypeOK
<1>16. CASE FinalStop
  BY <1>16 DEF FinalStop, OpRest, WaitsTypeOK
<1>17. CASE EndOwner
  BY <1>17 DEF EndOwner, OpRest, Called, Returned, WaitsTypeOK
<1>18. CASE CloseReturns
  BY <1>18 DEF CloseReturns, OpRest, OpEnds, WaitsTypeOK
<1>19. ASSUME NEW c \in Callers, WaitStep(c) PROVE WaitsTypeOK'
  BY <1>19 DEF WaitStep, WaitDone, WaitCancels, WaitFaults, WaitExpires, Detach, Detached,
     Pending, Mine, IsMine, WaitsTypeOK
<1>20. CASE OwnerTakes
  BY <1>20 DEF OwnerTakes, Rest, Deliver, WaitsTypeOK
<1>21. CASE OwnerRefuses
  BY <1>21 DEF OwnerRefuses, Rest, Deliver, Motion, WaitsTypeOK
<1>22. CASE process = "serving" /\ OwnerCalls
  BY <1>22 DEF OwnerCalls, Rest, Motion, WaitsTypeOK
<1>23. CASE OwnerReturns
  BY <1>23 DEF OwnerReturns, Rest, Motion, WaitsTypeOK
<1>24. CASE OwnerExits
  BY <1>24 DEF OwnerExits, Rest, WaitsTypeOK
<1>25. CASE SdkReturns
  BY <1>25 DEF SdkReturns, Rest, Deliver, WaitsTypeOK
<1>26. CASE LeaseElapses
  BY <1>26 DEF LeaseElapses, WaitsTypeOK
<1>27. CASE StartMotion
  BY <1>27 DEF StartMotion, Admits, ReadyForMotion, WaitsTypeOK
<1>28. ASSUME NEW o \in {"posture", "stop", "close"}, OpBegins(o) PROVE WaitsTypeOK'
  BY <1>28 DEF OpBegins, Admits, ReadyForMotion, WaitsTypeOK
<1>29. CASE Serve
  BY <1>29 DEF Serve, WaitsTypeOK
<1>30. CASE Exit
  BY <1>30 DEF Exit, WaitsTypeOK
<1>31. CASE Restart
  BY <1>31 DEF Restart, WaitsTypeOK
<1> QED
  BY <1>1, <1>2, <1>3, <1>4, <1>5, <1>6, <1>7, <1>8, <1>9, <1>10, <1>11, <1>12, <1>13, <1>14,
     <1>15, <1>16, <1>17, <1>18, <1>19, <1>20, <1>21, <1>22, <1>23, <1>24, <1>25, <1>26, <1>27,
     <1>28, <1>29, <1>30, <1>31 DEF Next, WorkerStep, OpStep, OwnerStep

\* Every action keeps the types.
LEMMA OwnerTypeStep ==
    ASSUME IInv, Next
    PROVE  OwnerTypeOK'
<1> USE DEF IInv, TypeOK, opVars, leaseVars, lockVars, ownerVars, callVars, historyVars, Callers
<1>1. CASE OwnerInit
  BY <1>1 DEF OwnerInit, Rest, OwnerTypeOK, Methods, Calls, NoCall
<1>2. CASE WorkerTests("begin", "loop")
  BY <1>2 DEF WorkerTests, WorkerRest, LeaseOver, OwnerTypeOK, Methods, Calls, NoCall
<1>3. CASE WorkerTests("loop", "checked")
  BY <1>3 DEF WorkerTests, WorkerRest, LeaseOver, OwnerTypeOK, Methods, Calls, NoCall
<1>4. CASE WorkerLocks
  BY <1>4 DEF WorkerLocks, WorkerRest, OwnerTypeOK, Methods, Calls, NoCall
<1>5. CASE WorkerStops
  BY <1>5 DEF WorkerStops, WorkerRest, OwnerTypeOK, Methods, Calls, NoCall
<1>6. CASE WorkerSubmits
  <2>1. CASE Refused((IF worker = "moving" THEN "Move" ELSE "StopMove"))
    BY <1>6, <2>1 DEF WorkerSubmits, WorkerRest, Submit, OwnerTypeOK
  <2>2. CASE ~Refused((IF worker = "moving" THEN "Move" ELSE "StopMove"))
    <3>1. [method |-> (IF worker = "moving" THEN "Move" ELSE "StopMove"),
           by |-> "worker", halt |-> FALSE, waited |-> TRUE] \in Calls
      BY DEF Calls, Methods
    <3>2. queue' = Append(queue, [method |-> (IF worker = "moving" THEN "Move" ELSE "StopMove"),
                                  by |-> "worker", halt |-> FALSE, waited |-> TRUE])
      BY <1>6, <2>2 DEF WorkerSubmits, Submit
    <3>3. queue' \in Seq(Entries)
      BY <3>1, <3>2, Appended DEF Entries
    <3> QED
      BY <1>6, <2>2, <3>3 DEF WorkerSubmits, WorkerRest, Submit, OwnerTypeOK, Entries
  <2> QED
    BY <2>1, <2>2
<1>7. CASE WorkerResumes
  BY <1>7 DEF WorkerResumes, OwnerTypeOK, Methods, Calls, NoCall
<1>8. CASE OpJoins
  BY <1>8 DEF OpJoins, OpRest, OwnerTypeOK, Methods, Calls, NoCall
<1>9. CASE OpLocks("stop", "stopping")
  BY <1>9 DEF OpLocks, OpRest, OwnerTypeOK, Methods, Calls, NoCall
<1>10. CASE OpLocks("posture", "posturing")
  BY <1>10 DEF OpLocks, OpRest, OwnerTypeOK, Methods, Calls, NoCall
<1>11. CASE OpSubmits
  <2>1. CASE Refused((IF opAt = "posturing" THEN "Posture" ELSE "StopMove"))
    BY <1>11, <2>1 DEF OpSubmits, OpRest, Submit, OwnerTypeOK
  <2>2. CASE ~Refused((IF opAt = "posturing" THEN "Posture" ELSE "StopMove"))
    <3>1. [method |-> (IF opAt = "posturing" THEN "Posture" ELSE "StopMove"),
           by |-> "op", halt |-> op \in {"stop", "close"}, waited |-> TRUE] \in Calls
      BY DEF Calls, Methods
    <3>2. queue' = Append(queue, [method |-> (IF opAt = "posturing" THEN "Posture" ELSE "StopMove"),
                                  by |-> "op", halt |-> op \in {"stop", "close"}, waited |-> TRUE])
      BY <1>11, <2>2 DEF OpSubmits, Submit
    <3>3. queue' \in Seq(Entries)
      BY <3>1, <3>2, Appended DEF Entries
    <3> QED
      BY <1>11, <2>2, <3>3 DEF OpSubmits, OpRest, Submit, OwnerTypeOK, Entries
  <2> QED
    BY <2>1, <2>2
<1>12. CASE StopReturns
  BY <1>12 DEF StopReturns, OpRest, Called, Returned, OpEnds, Confirmed, OwnerTypeOK, Methods,
     Calls, NoCall
<1>13. CASE PostureStopped
  BY <1>13 DEF PostureStopped, OpRest, Called, Returned, OpEnds, Confirmed, OwnerTypeOK,
     Methods, Calls, NoCall
<1>14. CASE PostureReturns
  BY <1>14 DEF PostureReturns, OpRest, Called, Returned, OpEnds, OwnerTypeOK, Methods, Calls,
     NoCall
<1>15. CASE CloseStopped
  BY <1>15 DEF CloseStopped, OpRest, Called, Returned, OwnerTypeOK, Methods, Calls, NoCall
<1>16. CASE FinalStop
  BY <1>16 DEF FinalStop, OpRest, OwnerTypeOK, Methods, Calls, NoCall
<1>17. CASE EndOwner
  BY <1>17 DEF EndOwner, OpRest, Called, Returned, OwnerTypeOK, Methods, Calls, NoCall
<1>18. CASE CloseReturns
  BY <1>18 DEF CloseReturns, OpRest, OpEnds, OwnerTypeOK, Methods, Calls, NoCall
<1>19. ASSUME NEW c \in Callers, WaitStep(c) PROVE OwnerTypeOK'
  <2>1. CASE Detach(c)
    <3>1. queue' \in Seq(Entries) /\ current' \in Entries
      BY <2>1, WaitDetached
    <3>2. faulted' \in BOOLEAN
      BY <1>19 DEF WaitStep, WaitDone, WaitCancels, WaitFaults, WaitExpires, OwnerTypeOK
    <3> QED
      BY <1>19, <3>1, <3>2 DEF WaitStep, WaitDone, WaitCancels, WaitFaults, WaitExpires,
         OwnerTypeOK, Entries
  <2>2. CASE WaitCancels(c)
    <3>1. queue # <<>>
      BY <2>2 DEF WaitCancels, FutureInv, Waits, InQueue, InHand, Done
    <3>2. queue' \in Seq(Entries)
      BY <2>2, <3>1, LastCancelled DEF WaitCancels
    <3> QED
      BY <1>19, <2>2, <3>2 DEF WaitStep, WaitCancels, OwnerTypeOK, Entries
  <2> QED
    BY <1>19, <2>1, <2>2 DEF WaitStep, WaitDone, WaitFaults, WaitExpires, OwnerTypeOK
<1>20. CASE OwnerTakes
  BY <1>20 DEF OwnerTakes, Rest, Deliver, OwnerTypeOK, Methods, Calls, NoCall
<1>21. CASE OwnerRefuses
  BY <1>21 DEF OwnerRefuses, Rest, Deliver, Motion, OwnerTypeOK, Methods, Calls, NoCall
<1>22. CASE process = "serving" /\ OwnerCalls
  <2>1. current \in Calls
    BY <1>22 DEF OwnerCalls, OwnerInv, OwnerTypeOK
  <2>2. sent' \in Methods /\ halted' \in BOOLEAN
    BY <1>22, <2>1 DEF OwnerCalls, Calls, OwnerTypeOK
  <2> QED
    BY <1>22, <2>2 DEF OwnerCalls, Rest, OwnerTypeOK
<1>23. CASE OwnerReturns
  BY <1>23 DEF OwnerReturns, Rest, Motion, OwnerTypeOK, Methods, Calls, NoCall
<1>24. CASE OwnerExits
  BY <1>24 DEF OwnerExits, Rest, OwnerTypeOK, Methods, Calls, NoCall
<1>25. CASE SdkReturns
  BY <1>25 DEF SdkReturns, Rest, Deliver, OwnerTypeOK, Methods, Calls, NoCall
<1>26. CASE LeaseElapses
  BY <1>26 DEF LeaseElapses, OwnerTypeOK, Methods, Calls, NoCall
<1>27. CASE StartMotion
  BY <1>27 DEF StartMotion, Admits, ReadyForMotion, OwnerTypeOK, Methods, Calls, NoCall
<1>28. ASSUME NEW o \in {"posture", "stop", "close"}, OpBegins(o) PROVE OwnerTypeOK'
  BY <1>28 DEF OpBegins, Admits, ReadyForMotion, OwnerTypeOK, Methods, Calls, NoCall
<1>29. CASE Serve
  BY <1>29 DEF Serve, OwnerTypeOK, Methods, Calls, NoCall
<1>30. CASE Exit
  BY <1>30 DEF Exit, OwnerTypeOK, Methods, Calls, NoCall
<1>31. CASE Restart
  <2>1. queue' = <<>> /\ current' = NoCall
    BY <1>31 DEF Restart
  <2>2. queue' \in Seq(Calls \cup {NoCall})
    BY <2>1
  <2> QED
    BY <1>31, <2>1, <2>2 DEF Restart, OwnerTypeOK
<1> QED
  BY <1>1, <1>2, <1>3, <1>4, <1>5, <1>6, <1>7, <1>8, <1>9, <1>10, <1>11, <1>12, <1>13, <1>14,
     <1>15, <1>16, <1>17, <1>18, <1>19, <1>20, <1>21, <1>22, <1>23, <1>24, <1>25, <1>26, <1>27,
     <1>28, <1>29, <1>30, <1>31 DEF Next, WorkerStep, OpStep, OwnerStep

\* Locks and operations keep their order.
LEMMA PlaceStep ==
    ASSUME IInv, Next
    PROVE  PlaceInv'
<1> USE DEF IInv, opVars, leaseVars, lockVars, ownerVars, callVars, historyVars, Callers
<1>1. CASE OwnerInit
  BY <1>1 DEF OwnerInit, Rest, TypeOK, ExecutorTypeOK, WaitsTypeOK, PlaceInv, WorkerAlive,
     Waits, WaitStates, WorkerStates
<1>2. CASE WorkerTests("begin", "loop")
  BY <1>2 DEF WorkerTests, WorkerRest, LeaseOver, TypeOK, ExecutorTypeOK, WaitsTypeOK, PlaceInv,
     WorkerAlive, Waits, WaitStates, WorkerStates
<1>3. CASE WorkerTests("loop", "checked")
  BY <1>3 DEF WorkerTests, WorkerRest, LeaseOver, TypeOK, ExecutorTypeOK, WaitsTypeOK, PlaceInv,
     WorkerAlive, Waits, WaitStates, WorkerStates
<1>4. CASE WorkerLocks
  BY <1>4 DEF WorkerLocks, WorkerRest, TypeOK, ExecutorTypeOK, WaitsTypeOK, PlaceInv,
     WorkerAlive, Waits, WaitStates, WorkerStates
<1>5. CASE WorkerStops
  BY <1>5 DEF WorkerStops, WorkerRest, TypeOK, ExecutorTypeOK, WaitsTypeOK, PlaceInv,
     WorkerAlive, Waits, WaitStates, WorkerStates
<1>6. CASE WorkerSubmits
  BY <1>6 DEF WorkerSubmits, WorkerRest, Submit, Refused, Motion, TypeOK, ExecutorTypeOK,
     WaitsTypeOK, PlaceInv, WorkerAlive, Waits, WaitStates, WorkerStates
<1>7. CASE WorkerResumes
  BY <1>7 DEF WorkerResumes, TypeOK, ExecutorTypeOK, WaitsTypeOK, PlaceInv, WorkerAlive, Waits,
     WaitStates, WorkerStates
<1>8. CASE OpJoins
  BY <1>8 DEF OpJoins, OpRest, TypeOK, ExecutorTypeOK, WaitsTypeOK, PlaceInv, WorkerAlive,
     Waits, WaitStates, WorkerStates
<1>9. CASE OpLocks("stop", "stopping")
  BY <1>9 DEF OpLocks, OpRest, TypeOK, ExecutorTypeOK, WaitsTypeOK, PlaceInv, WorkerAlive,
     Waits, WaitStates, WorkerStates
<1>10. CASE OpLocks("posture", "posturing")
  BY <1>10 DEF OpLocks, OpRest, TypeOK, ExecutorTypeOK, WaitsTypeOK, PlaceInv, WorkerAlive,
     Waits, WaitStates, WorkerStates
<1>11. CASE OpSubmits
  BY <1>11 DEF OpSubmits, OpRest, Submit, Refused, Motion, TypeOK, ExecutorTypeOK, WaitsTypeOK,
     PlaceInv, WorkerAlive, Waits, WaitStates, WorkerStates
<1>12. CASE StopReturns
  BY <1>12 DEF StopReturns, OpRest, Called, Returned, OpEnds, Confirmed, TypeOK, ExecutorTypeOK,
     WaitsTypeOK, PlaceInv, WorkerAlive, Waits, WaitStates, WorkerStates
<1>13. CASE PostureStopped
  BY <1>13 DEF PostureStopped, OpRest, Called, Returned, OpEnds, Confirmed, TypeOK,
     ExecutorTypeOK, WaitsTypeOK, PlaceInv, WorkerAlive, Waits, WaitStates, WorkerStates
<1>14. CASE PostureReturns
  BY <1>14 DEF PostureReturns, OpRest, Called, Returned, OpEnds, TypeOK, ExecutorTypeOK,
     WaitsTypeOK, PlaceInv, WorkerAlive, Waits, WaitStates, WorkerStates
<1>15. CASE CloseStopped
  BY <1>15 DEF CloseStopped, OpRest, Called, Returned, TypeOK, ExecutorTypeOK, WaitsTypeOK,
     PlaceInv, WorkerAlive, Waits, WaitStates, WorkerStates
<1>16. CASE FinalStop
  BY <1>16 DEF FinalStop, OpRest, TypeOK, ExecutorTypeOK, WaitsTypeOK, PlaceInv, WorkerAlive,
     Waits, WaitStates, WorkerStates
<1>17. CASE EndOwner
  BY <1>17 DEF EndOwner, OpRest, Called, Returned, TypeOK, ExecutorTypeOK, WaitsTypeOK,
     PlaceInv, WorkerAlive, Waits, WaitStates, WorkerStates
<1>18. CASE CloseReturns
  BY <1>18 DEF CloseReturns, OpRest, OpEnds, TypeOK, ExecutorTypeOK, WaitsTypeOK, PlaceInv,
     WorkerAlive, Waits, WaitStates, WorkerStates
<1>19. ASSUME NEW c \in Callers, WaitStep(c) PROVE PlaceInv'
  BY <1>19 DEF WaitStep, WaitDone, WaitCancels, WaitFaults, WaitExpires, Detach, Detached,
     Pending, Mine, IsMine, TypeOK, ExecutorTypeOK, WaitsTypeOK, PlaceInv, WorkerAlive, Waits,
     WaitStates, WorkerStates
<1>20. CASE OwnerTakes
  BY <1>20 DEF OwnerTakes, Rest, Deliver, TypeOK, ExecutorTypeOK, WaitsTypeOK, PlaceInv,
     WorkerAlive, Waits, WaitStates, WorkerStates
<1>21. CASE OwnerRefuses
  BY <1>21 DEF OwnerRefuses, Rest, Deliver, Motion, TypeOK, ExecutorTypeOK, WaitsTypeOK,
     PlaceInv, WorkerAlive, Waits, WaitStates, WorkerStates
<1>22. CASE process = "serving" /\ OwnerCalls
  BY <1>22 DEF OwnerCalls, Rest, Motion, PlaceInv, WorkerAlive, Waits, OwnerTypeOK, TypeOK,
     ExecutorTypeOK
<1>23. CASE OwnerReturns
  BY <1>23 DEF OwnerReturns, Rest, Motion, TypeOK, ExecutorTypeOK, WaitsTypeOK, PlaceInv,
     WorkerAlive, Waits, WaitStates, WorkerStates
<1>24. CASE OwnerExits
  BY <1>24 DEF OwnerExits, Rest, TypeOK, ExecutorTypeOK, WaitsTypeOK, PlaceInv, WorkerAlive,
     Waits, WaitStates, WorkerStates
<1>25. CASE SdkReturns
  BY <1>25 DEF SdkReturns, Rest, Deliver, TypeOK, ExecutorTypeOK, WaitsTypeOK, PlaceInv,
     WorkerAlive, Waits, WaitStates, WorkerStates
<1>26. CASE LeaseElapses
  BY <1>26 DEF LeaseElapses, TypeOK, ExecutorTypeOK, WaitsTypeOK, PlaceInv, WorkerAlive, Waits,
     WaitStates, WorkerStates
<1>27. CASE StartMotion
  BY <1>27 DEF StartMotion, Admits, ReadyForMotion, TypeOK, ExecutorTypeOK, WaitsTypeOK,
     PlaceInv, WorkerAlive, Waits, WaitStates, WorkerStates
<1>28. ASSUME NEW o \in {"posture", "stop", "close"}, OpBegins(o) PROVE PlaceInv'
  BY <1>28 DEF OpBegins, Admits, ReadyForMotion, TypeOK, ExecutorTypeOK, WaitsTypeOK, PlaceInv,
     WorkerAlive, Waits, WaitStates, WorkerStates
<1>29. CASE Serve
  BY <1>29 DEF Serve, TypeOK, ExecutorTypeOK, WaitsTypeOK, PlaceInv, WorkerAlive, Waits,
     WaitStates, WorkerStates
<1>30. CASE Exit
  BY <1>30 DEF Exit, TypeOK, ExecutorTypeOK, WaitsTypeOK, PlaceInv, WorkerAlive, Waits,
     WaitStates, WorkerStates
<1>31. CASE Restart
  BY <1>31 DEF Restart, TypeOK, ExecutorTypeOK, WaitsTypeOK, PlaceInv, WorkerAlive, Waits,
     WaitStates, WorkerStates
<1> QED
  BY <1>1, <1>2, <1>3, <1>4, <1>5, <1>6, <1>7, <1>8, <1>9, <1>10, <1>11, <1>12, <1>13, <1>14,
     <1>15, <1>16, <1>17, <1>18, <1>19, <1>20, <1>21, <1>22, <1>23, <1>24, <1>25, <1>26, <1>27,
     <1>28, <1>29, <1>30, <1>31 DEF Next, WorkerStep, OpStep, OwnerStep

\* The owner's hand, and the None that ends its queue.
LEMMA OwnerStepKeeps ==
    ASSUME IInv, Next
    PROVE  OwnerInv'
<1> USE DEF IInv, opVars, leaseVars, lockVars, ownerVars, callVars, historyVars, Callers
<1>t. TypeOK
  OBVIOUS
<1>u. ASSUME UNCHANGED <<queue, current, owner, sdkClosed, opAt, closed>> PROVE OwnerInv'
  BY <1>u DEF OwnerInv
<1>1. CASE OwnerInit
  BY <1>1 DEF OwnerInit, Rest, OwnerInv, PlaceInv
<1>2. CASE WorkerTests("begin", "loop")
  BY <1>2, <1>u DEF WorkerTests, WorkerRest, LeaseOver
<1>3. CASE WorkerTests("loop", "checked")
  BY <1>3, <1>u DEF WorkerTests, WorkerRest, LeaseOver
<1>4. CASE WorkerLocks
  BY <1>4, <1>u DEF WorkerLocks, WorkerRest
<1>5. CASE WorkerStops
  BY <1>5, <1>u DEF WorkerStops, WorkerRest
<1>6. ASSUME NEW c \in Callers, Queues(c) PROVE OwnerInv'
  <2>1. ~sdkClosed /\ Pushed(MethodOf(c), c, HaltOf(c)) /\ UNCHANGED <<owner, current, sdkClosed, closed>>
        /\ opAt' # "ending"
        /\ opAt # "ending"
    BY <1>6 DEF Queues, OwnerInv, PlaceInv
  <2>2. \A i \in 1..Len(queue') : queue'[i] # NoCall
    BY <2>1 DEF Pushed, OwnerInv
  <2> QED
    BY <2>1, <2>2 DEF OwnerInv
<1>7. ASSUME NEW c \in Callers, IsRefused(c) PROVE OwnerInv'
  BY <1>7, <1>u DEF IsRefused
<1>8. CASE WorkerResumes
  BY <1>8, <1>u DEF WorkerResumes
<1>9. CASE OpJoins
  BY <1>9 DEF OpJoins, OpRest, OwnerInv, PlaceInv
<1>10. CASE OpLocks("stop", "stopping")
  BY <1>10 DEF OpLocks, OpRest, OwnerInv, PlaceInv
<1>11. CASE OpLocks("posture", "posturing")
  BY <1>11 DEF OpLocks, OpRest, OwnerInv, PlaceInv
<1>12. CASE StopReturns
  BY <1>12 DEF StopReturns, OpRest, Called, Returned, OpEnds, Confirmed, OwnerInv, PlaceInv
<1>13. CASE PostureStopped
  BY <1>13 DEF PostureStopped, OpRest, Called, Returned, OpEnds, Confirmed, OwnerInv, PlaceInv
<1>14. CASE PostureReturns
  BY <1>14 DEF PostureReturns, OpRest, Called, Returned, OpEnds, OwnerInv, PlaceInv
<1>15. CASE CloseStopped
  BY <1>15 DEF CloseStopped, OpRest, Called, Returned, OwnerInv, PlaceInv
<1>16. CASE FinalStop
  <2>1. ~sdkClosed /\ Pushed("StopMove", "op", TRUE) /\ UNCHANGED <<owner, current, sdkClosed, closed>>
        /\ opAt' # "ending"
        /\ opAt # "ending"
    BY <1>16, FinalPushed DEF FinalStop, OpRest, OwnerInv, PlaceInv
  <2>2. \A i \in 1..Len(queue') : queue'[i] # NoCall
    BY <2>1 DEF Pushed, OwnerInv
  <2> QED
    BY <2>1, <2>2 DEF OwnerInv
<1>17. CASE EndOwner
  <2>1. /\ sdkClosed' /\ opAt' = "ending" /\ UNCHANGED <<owner, current>>
        /\ opAt = "final" /\ queue' = Append(queue, NoCall)
    BY <1>17 DEF EndOwner, OpRest, Called, Returned
  <2>2. ~sdkClosed
    BY <2>1 DEF OwnerInv, PlaceInv
  <2>3. NoCall \in Entries
    BY DEF Entries
  <2>4. \A i \in 1..Len(queue') : queue'[i] = NoCall => i = Len(queue')
    <3>1. /\ Len(queue') = Len(queue) + 1 /\ Len(queue) \in Nat
          /\ \A i \in 1..Len(queue) : queue'[i] = queue[i]
      BY <2>1, <2>3, Appended
    <3> QED
      BY <2>2, <3>1 DEF OwnerInv
  <2> QED
    BY <2>1, <2>2, <2>4 DEF OwnerInv
<1>18. CASE CloseReturns
  BY <1>18 DEF CloseReturns, OpRest, OpEnds, OwnerInv, PlaceInv
<1>19. ASSUME NEW c \in Callers, IsAnswered(c) PROVE OwnerInv'
  BY <1>19, <1>u DEF IsAnswered, WaitRest, GivesUp
<1>20. ASSUME NEW c \in Callers, Expires(c) PROVE OwnerInv'
  BY <1>20, <1>u DEF Expires, WaitRest
<1>21. ASSUME NEW c \in Callers, Cancels(c) PROVE OwnerInv'
  <2>1. /\ UNCHANGED <<sdkClosed, opAt, closed, owner, current>>
        /\ Len(queue') = Len(queue) - 1 /\ Len(queue) \in Nat
        /\ \A i \in 1..Len(queue') : queue'[i] = queue[i] /\ i \in 1..Len(queue) /\ i # Len(queue)
    BY <1>21 DEF Cancels, WaitRest
  <2>2. \A i \in 1..Len(queue') : queue'[i] # NoCall
    BY <2>1 DEF OwnerInv
  <2> QED
    BY <2>1, <2>2 DEF OwnerInv
<1>22. ASSUME NEW c \in Callers, GivenUp(c) PROVE OwnerInv'
  <2>1. /\ UNCHANGED <<sdkClosed, opAt, closed, owner>> /\ (current' = NoCall <=> current = NoCall)
        /\ Len(queue') = Len(queue)
        /\ \A i \in 1..Len(queue) : queue'[i] = NoCall <=> queue[i] = NoCall
    BY <1>22 DEF GivenUp, WaitRest
  <2> QED
    BY <2>1 DEF OwnerInv
<1>23. CASE OwnerTakes
  <2>1. /\ Len(queue) \in Nat /\ Len(queue') = Len(queue) - 1 /\ current' # NoCall
        /\ \A i \in 1..Len(queue') : queue'[i] = queue[i + 1] /\ i + 1 \in 1..Len(queue)
    BY <1>23, Taken, QueueTypes
  <2>2. owner' = "taken" /\ UNCHANGED <<sdkClosed, opAt, closed>>
    BY <1>23 DEF OwnerTakes, Rest
  <2>3. \A i \in 1..Len(queue') : queue'[i] = NoCall => i = Len(queue') /\ sdkClosed
    BY <2>1 DEF OwnerInv
  <2> QED
    BY <2>1, <2>2, <2>3 DEF OwnerInv
<1>24. CASE OwnerRefuses
  BY <1>24 DEF OwnerRefuses, Rest, Deliver, Motion, OwnerInv, PlaceInv
<1>25. CASE process = "serving" /\ OwnerCalls
  BY <1>25 DEF OwnerCalls, Rest, Motion, OwnerInv, PlaceInv
<1>26. CASE OwnerReturns
  BY <1>26 DEF OwnerReturns, Rest, Motion, OwnerInv, PlaceInv
<1>27. CASE OwnerExits
  <2>1. queue # <<>> /\ Head(queue) = NoCall /\ 1 \in 1..Len(queue) /\ Head(queue) = queue[1]
    BY <1>27, <1>t, QueueTypes DEF OwnerExits
  <2>2. sdkClosed
    BY <2>1 DEF OwnerInv
  <2>3. owner = "idle" /\ owner' = "exited" /\ queue' = <<>> /\ sdkClosed'
        /\ UNCHANGED <<current, opAt, closed>>
    BY <1>27 DEF OwnerExits, Rest
  <2>4. Len(queue') = 0
    BY <2>3
  <2> QED
    BY <2>2, <2>3, <2>4 DEF OwnerInv
<1>28. CASE SdkReturns
  BY <1>28 DEF SdkReturns, Rest, Deliver, OwnerInv, PlaceInv
<1>29. CASE LeaseElapses
  BY <1>29, <1>u DEF LeaseElapses
<1>30. CASE StartMotion
  BY <1>30, <1>u DEF StartMotion, Admits, ReadyForMotion
<1>31. ASSUME NEW o \in {"posture", "stop", "close"}, OpBegins(o) PROVE OwnerInv'
  BY <1>31 DEF OpBegins, Admits, ReadyForMotion, OwnerInv, PlaceInv
<1>32. CASE Serve
  BY <1>32, <1>u DEF Serve
<1>33. CASE Exit
  BY <1>33, <1>u DEF Exit
<1>34. CASE Restart
  <2>1. /\ owner' = "init" /\ current' = NoCall /\ queue' = <<>> /\ ~sdkClosed'
        /\ opAt' = "out" /\ closed' = "no"
    BY <1>34 DEF Restart
  <2>2. Len(queue') = 0
    BY <2>1
  <2> QED
    BY <2>1, <2>2 DEF OwnerInv
<1> QED
  BY <1>1, <1>2, <1>3, <1>4, <1>5, <1>6, <1>7, <1>8, <1>9, <1>10, <1>11, <1>12, <1>13, <1>14,
     <1>15, <1>16, <1>17, <1>18, <1>19, <1>20, <1>21, <1>22, <1>23, <1>24, <1>25, <1>26, <1>27,
     <1>28, <1>29, <1>30, <1>31, <1>32, <1>33, <1>34, SubmitCases, WaitCases DEF Next,
     WorkerStep, OpStep, OwnerStep

\* A call that is waited for is where its future says.
LEMMA FutureStep ==
    ASSUME IInv, Next
    PROVE  FutureInv'
<1> USE DEF IInv, opVars, leaseVars, lockVars, ownerVars, callVars, historyVars, Callers
<1>t. TypeOK
  OBVIOUS
<1>u. ASSUME UNCHANGED <<queue, current, owner, future, sent, halted>>,
             \A c \in Callers : Waits(c)' => Waits(c) /\ MethodOf(c)' = MethodOf(c) /\ (HaltOf(c)' <=> HaltOf(c))
      PROVE  FutureInv'
  BY <1>u DEF FutureInv, InQueue, InHand, Done, IsCallOf
<1>s. ASSUME UNCHANGED <<opAt, op, worker, waiting>>
      PROVE  \A c \in Callers : /\ Waits(c)' <=> Waits(c)
                                /\ MethodOf(c)' = MethodOf(c) /\ (HaltOf(c)' <=> HaltOf(c))
  BY <1>s DEF Waits, MethodOf, HaltOf
<1>1. CASE OwnerInit
  <2> SUFFICES ASSUME NEW c \in Callers, Waits(c)'
               PROVE  InQueue(c)' \/ InHand(c)' \/ Done(c)'
    BY DEF FutureInv
  <2>1. Waits(c) /\ MethodOf(c)' = MethodOf(c) /\ (HaltOf(c)' <=> HaltOf(c))
    BY <1>1, <1>s DEF OwnerInit, Rest
  <2>2. InQueue(c) \/ InHand(c) \/ Done(c)
    BY <2>1 DEF FutureInv
  <2>3. owner = "init" /\ UNCHANGED <<queue, future>>
    BY <1>1 DEF OwnerInit
  <2> QED
    BY <2>1, <2>2, <2>3 DEF InQueue, InHand, Done, IsCallOf
<1>2. CASE WorkerTests("begin", "loop")
  <2>1. \A c \in Callers : Waits(c)' => Waits(c) /\ MethodOf(c)' = MethodOf(c) /\ (HaltOf(c)'
     <=> HaltOf(c))
    BY <1>2 DEF WorkerTests, WorkerRest, LeaseOver, Waits, MethodOf, HaltOf, PlaceInv,
       WorkerAlive, TypeOK, ExecutorTypeOK, WaitsTypeOK
  <2> QED
    BY <1>2, <2>1, <1>u DEF WorkerTests, WorkerRest, LeaseOver
<1>3. CASE WorkerTests("loop", "checked")
  <2>1. \A c \in Callers : Waits(c)' => Waits(c) /\ MethodOf(c)' = MethodOf(c) /\ (HaltOf(c)'
     <=> HaltOf(c))
    BY <1>3 DEF WorkerTests, WorkerRest, LeaseOver, Waits, MethodOf, HaltOf, PlaceInv,
       WorkerAlive, TypeOK, ExecutorTypeOK, WaitsTypeOK
  <2> QED
    BY <1>3, <2>1, <1>u DEF WorkerTests, WorkerRest, LeaseOver
<1>4. CASE WorkerLocks
  <2>1. \A c \in Callers : Waits(c)' => Waits(c) /\ MethodOf(c)' = MethodOf(c) /\ (HaltOf(c)'
     <=> HaltOf(c))
    BY <1>4 DEF WorkerLocks, WorkerRest, Waits, MethodOf, HaltOf, PlaceInv, WorkerAlive, TypeOK,
       ExecutorTypeOK, WaitsTypeOK
  <2> QED
    BY <1>4, <2>1, <1>u DEF WorkerLocks, WorkerRest
<1>5. CASE WorkerStops
  <2>1. \A c \in Callers : Waits(c)' => Waits(c) /\ MethodOf(c)' = MethodOf(c) /\ (HaltOf(c)'
     <=> HaltOf(c))
    BY <1>5 DEF WorkerStops, WorkerRest, Waits, MethodOf, HaltOf, PlaceInv, WorkerAlive, TypeOK,
       ExecutorTypeOK, WaitsTypeOK
  <2> QED
    BY <1>5, <2>1, <1>u DEF WorkerStops, WorkerRest
<1>6. ASSUME NEW c \in Callers, Queues(c) PROVE FutureInv'
  <2>1. \A d \in Callers : Waits(d)' => d = c
    BY <1>6 DEF Queues, Waits, PlaceInv, TypeOK, WaitsTypeOK
  <2>2. MethodOf(c)' = MethodOf(c) /\ (HaltOf(c)' <=> HaltOf(c))
    BY <1>6 DEF Queues, MethodOf, HaltOf
  <2>3. future'[c] = "pending"
    BY <1>6 DEF Queues, TypeOK, WaitsTypeOK
  <2>4. InQueue(c)'
    BY <1>6, <2>2, <2>3 DEF Queues, Pushed, InQueue, IsCallOf
  <2> QED
    BY <2>1, <2>4 DEF FutureInv
<1>7. ASSUME NEW c \in Callers, IsRefused(c) PROVE FutureInv'
  <2>1. \A d \in Callers : Waits(d)' => Waits(d) /\ MethodOf(d)' = MethodOf(d) /\ (HaltOf(d)'
     <=> HaltOf(d))
    BY <1>7 DEF IsRefused, Waits, MethodOf, HaltOf, PlaceInv, WorkerAlive, TypeOK,
       ExecutorTypeOK, WaitsTypeOK
  <2> QED
    BY <1>7, <2>1, <1>u DEF IsRefused
<1>8. CASE WorkerResumes
  <2>1. \A c \in Callers : Waits(c)' => Waits(c) /\ MethodOf(c)' = MethodOf(c) /\ (HaltOf(c)'
     <=> HaltOf(c))
    BY <1>8 DEF WorkerResumes, Waits, MethodOf, HaltOf, PlaceInv, WorkerAlive, TypeOK,
       ExecutorTypeOK, WaitsTypeOK
  <2> QED
    BY <1>8, <2>1, <1>u DEF WorkerResumes
<1>9. CASE OpJoins
  <2>1. \A c \in Callers : Waits(c)' => Waits(c) /\ MethodOf(c)' = MethodOf(c) /\ (HaltOf(c)'
     <=> HaltOf(c))
    BY <1>9 DEF OpJoins, OpRest, Waits, MethodOf, HaltOf, PlaceInv, WorkerAlive, TypeOK,
       ExecutorTypeOK, WaitsTypeOK
  <2> QED
    BY <1>9, <2>1, <1>u DEF OpJoins, OpRest
<1>10. CASE OpLocks("stop", "stopping")
  <2>1. \A c \in Callers : Waits(c)' => Waits(c) /\ MethodOf(c)' = MethodOf(c) /\ (HaltOf(c)'
     <=> HaltOf(c))
    BY <1>10 DEF OpLocks, OpRest, Waits, MethodOf, HaltOf, PlaceInv, WorkerAlive, TypeOK,
       ExecutorTypeOK, WaitsTypeOK
  <2> QED
    BY <1>10, <2>1, <1>u DEF OpLocks, OpRest
<1>11. CASE OpLocks("posture", "posturing")
  <2>1. \A c \in Callers : Waits(c)' => Waits(c) /\ MethodOf(c)' = MethodOf(c) /\ (HaltOf(c)'
     <=> HaltOf(c))
    BY <1>11 DEF OpLocks, OpRest, Waits, MethodOf, HaltOf, PlaceInv, WorkerAlive, TypeOK,
       ExecutorTypeOK, WaitsTypeOK
  <2> QED
    BY <1>11, <2>1, <1>u DEF OpLocks, OpRest
<1>12. CASE StopReturns
  <2>1. \A c \in Callers : Waits(c)' => Waits(c) /\ MethodOf(c)' = MethodOf(c) /\ (HaltOf(c)'
     <=> HaltOf(c))
    BY <1>12 DEF StopReturns, OpRest, Called, Returned, OpEnds, Confirmed, Waits, MethodOf,
       HaltOf, PlaceInv, WorkerAlive, TypeOK, ExecutorTypeOK, WaitsTypeOK
  <2> QED
    BY <1>12, <2>1, <1>u DEF StopReturns, OpRest, Called, Returned, OpEnds, Confirmed
<1>13. CASE PostureStopped
  <2>1. \A c \in Callers : Waits(c)' => Waits(c) /\ MethodOf(c)' = MethodOf(c) /\ (HaltOf(c)'
     <=> HaltOf(c))
    BY <1>13 DEF PostureStopped, OpRest, Called, Returned, OpEnds, Confirmed, Waits, MethodOf,
       HaltOf, PlaceInv, WorkerAlive, TypeOK, ExecutorTypeOK, WaitsTypeOK
  <2> QED
    BY <1>13, <2>1, <1>u DEF PostureStopped, OpRest, Called, Returned, OpEnds, Confirmed
<1>14. CASE PostureReturns
  <2>1. \A c \in Callers : Waits(c)' => Waits(c) /\ MethodOf(c)' = MethodOf(c) /\ (HaltOf(c)'
     <=> HaltOf(c))
    BY <1>14 DEF PostureReturns, OpRest, Called, Returned, OpEnds, Waits, MethodOf, HaltOf,
       PlaceInv, WorkerAlive, TypeOK, ExecutorTypeOK, WaitsTypeOK
  <2> QED
    BY <1>14, <2>1, <1>u DEF PostureReturns, OpRest, Called, Returned, OpEnds
<1>15. CASE CloseStopped
  <2>1. \A c \in Callers : Waits(c)' => Waits(c) /\ MethodOf(c)' = MethodOf(c) /\ (HaltOf(c)'
     <=> HaltOf(c))
    BY <1>15 DEF CloseStopped, OpRest, Called, Returned, Waits, MethodOf, HaltOf, PlaceInv,
       WorkerAlive, TypeOK, ExecutorTypeOK, WaitsTypeOK
  <2> QED
    BY <1>15, <2>1, <1>u DEF CloseStopped, OpRest, Called, Returned
<1>16. CASE FinalStop
  <2>1. \A d \in Callers : Waits(d)' => d = "op"
    BY <1>16 DEF FinalStop, Waits, PlaceInv, TypeOK, WaitsTypeOK
  <2>2. MethodOf("op")' = "StopMove" /\ HaltOf("op")'
    BY <1>16 DEF FinalStop, OpRest, MethodOf, HaltOf, PlaceInv
  <2>3. future'["op"] = "pending"
    BY <1>16 DEF FinalStop, TypeOK, WaitsTypeOK
  <2>4. Pushed("StopMove", "op", TRUE)
    BY <1>16, FinalPushed
  <2>5. InQueue("op")'
    BY <2>2, <2>3, <2>4 DEF Pushed, InQueue, IsCallOf
  <2> QED
    BY <2>1, <2>5 DEF FutureInv
<1>17. CASE EndOwner
  <2>1. \A d \in Callers : ~Waits(d)'
    BY <1>17 DEF EndOwner, Called, Returned, Waits, PlaceInv, TypeOK, WaitsTypeOK
  <2> QED
    BY <2>1 DEF FutureInv
<1>18. CASE CloseReturns
  <2>1. \A c \in Callers : Waits(c)' => Waits(c) /\ MethodOf(c)' = MethodOf(c) /\ (HaltOf(c)'
     <=> HaltOf(c))
    BY <1>18 DEF CloseReturns, OpRest, OpEnds, Waits, MethodOf, HaltOf, PlaceInv, WorkerAlive,
       TypeOK, ExecutorTypeOK, WaitsTypeOK
  <2> QED
    BY <1>18, <2>1, <1>u DEF CloseReturns, OpRest, OpEnds
<1>19. ASSUME NEW c \in Callers, IsAnswered(c) PROVE FutureInv'
  <2>1. \A d \in Callers : Waits(d)' => Waits(d) /\ MethodOf(d)' = MethodOf(d) /\ (HaltOf(d)'
     <=> HaltOf(d))
    BY <1>19 DEF IsAnswered, WaitRest, GivesUp, Waits, MethodOf, HaltOf, PlaceInv, WorkerAlive,
       TypeOK, ExecutorTypeOK, WaitsTypeOK
  <2> QED
    BY <1>19, <2>1, <1>u DEF IsAnswered, WaitRest, GivesUp
<1>20. ASSUME NEW c \in Callers, Expires(c) PROVE FutureInv'
  <2>1. \A d \in Callers : Waits(d)' => Waits(d) /\ MethodOf(d)' = MethodOf(d) /\ (HaltOf(d)'
     <=> HaltOf(d))
    BY <1>20 DEF Expires, WaitRest, Waits, MethodOf, HaltOf, PlaceInv, WorkerAlive, TypeOK,
       ExecutorTypeOK, WaitsTypeOK
  <2> QED
    BY <1>20, <2>1, <1>u DEF Expires, WaitRest
<1>21. ASSUME NEW c \in Callers, Cancels(c) PROVE FutureInv'
  <2>1. \A d \in Callers : ~Waits(d)'
    BY <1>21 DEF Cancels, WaitRest, Waits, PlaceInv, TypeOK, WaitsTypeOK
  <2> QED
    BY <2>1 DEF FutureInv
<1>22. ASSUME NEW c \in Callers, GivenUp(c) PROVE FutureInv'
  <2>1. \A d \in Callers : ~Waits(d)'
    BY <1>22 DEF GivenUp, WaitRest, Waits, PlaceInv, TypeOK, WaitsTypeOK
  <2> QED
    BY <2>1 DEF FutureInv
<1>23. CASE OwnerTakes
  <2> SUFFICES ASSUME NEW c \in Callers, Waits(c)'
               PROVE  InQueue(c)' \/ InHand(c)' \/ Done(c)'
    BY DEF FutureInv
  <2>1. Waits(c) /\ MethodOf(c)' = MethodOf(c) /\ (HaltOf(c)' <=> HaltOf(c))
    BY <1>23, <1>s DEF OwnerTakes, Rest
  <2>2. InQueue(c) \/ InHand(c) \/ Done(c)
    BY <2>1 DEF FutureInv
  <2>3. /\ owner = "idle" /\ owner' = "taken" /\ queue # <<>> /\ queue' = Tail(queue)
        /\ future' = IF current'.waited THEN [future EXCEPT ![current'.by] = "running"] ELSE
           future
    BY <1>23 DEF OwnerTakes, Deliver
  <2>4. /\ Len(queue) \in Nat \ {0} /\ Len(queue') = Len(queue) - 1
        /\ current' = queue[1] /\ (queue' = <<>> <=> Len(queue) = 1)
        /\ \A i \in 1..Len(queue') : queue'[i] = queue[i + 1]
    BY <1>23, Taken
  <2>5. InQueue(c)
    BY <2>2, <2>3 DEF InHand, Done
  <2>6. CASE Len(queue) = 1
    <3>1. queue' = <<>> /\ IsCallOf(c, current')
      BY <2>4, <2>5, <2>6 DEF InQueue
    <3>2. future'[c] = "running"
      BY <2>3, <3>1 DEF IsCallOf, TypeOK, WaitsTypeOK
    <3> QED
      BY <2>1, <2>3, <3>1, <3>2 DEF InHand, IsCallOf
  <2>7. CASE Len(queue) # 1
    <3>1. ~current'.waited
      BY <2>4, <2>7 DEF WaitedInv
    <3>2. queue' # <<>> /\ queue'[Len(queue')] = queue[Len(queue)]
      BY <2>4, <2>7
    <3> QED
      BY <2>1, <2>3, <2>5, <3>1, <3>2 DEF InQueue, IsCallOf
  <2> QED
    BY <2>6, <2>7
<1>24. CASE OwnerRefuses
  <2> SUFFICES ASSUME NEW c \in Callers, Waits(c)'
               PROVE  InQueue(c)' \/ InHand(c)' \/ Done(c)'
    BY DEF FutureInv
  <2>1. Waits(c) /\ MethodOf(c)' = MethodOf(c) /\ (HaltOf(c)' <=> HaltOf(c))
    BY <1>24, <1>s DEF OwnerRefuses, Rest
  <2>2. InQueue(c) \/ InHand(c) \/ Done(c)
    BY <2>1 DEF FutureInv
  <2>3. /\ owner = "taken" /\ owner' = "idle" /\ UNCHANGED queue /\ current' = NoCall
        /\ current.method # "StopMove"
        /\ future' = IF current.waited THEN [future EXCEPT ![current.by] = "bad"] ELSE future
    BY <1>24 DEF OwnerRefuses, Deliver, Motion
  <2>4. CASE InHand(c)
    <3>1. future'[c] = "bad" /\ MethodOf(c) # "StopMove"
      BY <2>3, <2>4 DEF InHand, IsCallOf, TypeOK, WaitsTypeOK
    <3> QED
      BY <2>1, <2>3, <2>4, <3>1, QueueTypes DEF InHand, Done
  <2>5. CASE InQueue(c)
    <3>1. current.waited => future[current.by] = "running"
      BY <2>3 DEF WaitedInv
    <3>2. future'[c] = future[c]
      BY <2>3, <2>5, <3>1 DEF InQueue, TypeOK, WaitsTypeOK
    <3> QED
      BY <2>1, <2>3, <2>5, <3>2 DEF InQueue, IsCallOf
  <2> QED
    BY <2>2, <2>3, <2>4, <2>5 DEF Done
<1>25. CASE process = "serving" /\ OwnerCalls
  <2> SUFFICES ASSUME NEW c \in Callers, Waits(c)'
               PROVE  InQueue(c)' \/ InHand(c)' \/ Done(c)'
    BY DEF FutureInv
  <2>1. Waits(c) /\ MethodOf(c)' = MethodOf(c) /\ (HaltOf(c)' <=> HaltOf(c))
    BY <1>25, <1>s DEF OwnerCalls, Rest
  <2>2. InQueue(c) \/ InHand(c) \/ Done(c)
    BY <2>1 DEF FutureInv
  <2>3. /\ owner = "taken" /\ owner' = "calling" /\ UNCHANGED <<queue, current, future>>
        /\ sent' = current.method /\ (current.halt => halted')
    BY <1>25 DEF OwnerCalls
  <2>4. CASE InHand(c)
    BY <2>1, <2>3, <2>4 DEF InHand, IsCallOf
  <2>5. CASE InQueue(c)
    BY <2>1, <2>3, <2>5 DEF InQueue, IsCallOf
  <2> QED
    BY <2>2, <2>3, <2>4, <2>5 DEF Done
<1>26. CASE OwnerReturns
  <2> SUFFICES ASSUME NEW c \in Callers, Waits(c)'
               PROVE  InQueue(c)' \/ InHand(c)' \/ Done(c)'
    BY DEF FutureInv
  <2>1. Waits(c) /\ MethodOf(c)' = MethodOf(c) /\ (HaltOf(c)' <=> HaltOf(c))
    BY <1>26, <1>s DEF OwnerReturns, Rest
  <2>2. InQueue(c) \/ InHand(c) \/ Done(c)
    BY <2>1 DEF FutureInv
  <2>3. owner = "returned" /\ owner' = "idle" /\ current' = NoCall /\ UNCHANGED <<queue, future,
     sent, halted>>
    BY <1>26 DEF OwnerReturns
  <2> QED
    BY <2>1, <2>2, <2>3, QueueTypes DEF InQueue, InHand, Done, IsCallOf
<1>27. CASE OwnerExits
  <2> SUFFICES ASSUME NEW c \in Callers, Waits(c)'
               PROVE  InQueue(c)' \/ InHand(c)' \/ Done(c)'
    BY DEF FutureInv
  <2>1. Waits(c) /\ MethodOf(c)' = MethodOf(c) /\ (HaltOf(c)' <=> HaltOf(c))
    BY <1>27, <1>s DEF OwnerExits, Rest
  <2>2. InQueue(c) \/ InHand(c) \/ Done(c)
    BY <2>1 DEF FutureInv
  <2>3. queue # <<>> /\ queue[1] = NoCall /\ 1 \in 1..Len(queue)
    BY <1>27, QueueTypes DEF OwnerExits
  <2>4. Len(queue) = 1
    BY <2>3 DEF OwnerInv
  <2> QED
    BY <2>2, <2>3, <2>4, QueueTypes DEF InQueue, InHand, Done, IsCallOf
<1>28. CASE SdkReturns
  <2> SUFFICES ASSUME NEW c \in Callers, Waits(c)'
               PROVE  InQueue(c)' \/ InHand(c)' \/ Done(c)'
    BY DEF FutureInv
  <2>1. Waits(c) /\ MethodOf(c)' = MethodOf(c) /\ (HaltOf(c)' <=> HaltOf(c))
    BY <1>28, <1>s DEF SdkReturns, Rest
  <2>2. InQueue(c) \/ InHand(c) \/ Done(c)
    BY <2>1 DEF FutureInv
  <2>3. PICK f \in {"ok", "bad"} : future' = IF current.waited THEN [future EXCEPT ![current.by]
     = f] ELSE future
    BY <1>28 DEF SdkReturns, Deliver
  <2>4. owner = "calling" /\ owner' = "returned" /\ UNCHANGED <<queue, current, sent, halted>>
    BY <1>28 DEF SdkReturns
  <2>5. CASE InHand(c)
    <3>1. future'[c] = f
      BY <2>3, <2>5 DEF InHand, IsCallOf, TypeOK, WaitsTypeOK
    <3> QED
      BY <2>1, <2>4, <2>5, <3>1 DEF InHand, Done, IsCallOf
  <2>6. CASE InQueue(c)
    <3>1. current.waited => future[current.by] = "running"
      BY <2>4 DEF WaitedInv
    <3>2. future'[c] = future[c]
      BY <2>3, <2>6, <3>1 DEF InQueue, TypeOK, WaitsTypeOK
    <3> QED
      BY <2>1, <2>4, <2>6, <3>2 DEF InQueue, IsCallOf
  <2> QED
    BY <2>2, <2>4, <2>5, <2>6 DEF Done
<1>29. CASE LeaseElapses
  <2>1. \A c \in Callers : Waits(c)' => Waits(c) /\ MethodOf(c)' = MethodOf(c) /\ (HaltOf(c)'
     <=> HaltOf(c))
    BY <1>29 DEF LeaseElapses, Waits, MethodOf, HaltOf, PlaceInv, WorkerAlive, TypeOK,
       ExecutorTypeOK, WaitsTypeOK
  <2> QED
    BY <1>29, <2>1, <1>u DEF LeaseElapses
<1>30. CASE StartMotion
  <2>1. \A c \in Callers : Waits(c)' => Waits(c) /\ MethodOf(c)' = MethodOf(c) /\ (HaltOf(c)'
     <=> HaltOf(c))
    BY <1>30 DEF StartMotion, Admits, ReadyForMotion, Waits, MethodOf, HaltOf, PlaceInv,
       WorkerAlive, TypeOK, ExecutorTypeOK, WaitsTypeOK
  <2> QED
    BY <1>30, <2>1, <1>u DEF StartMotion, Admits, ReadyForMotion
<1>31. ASSUME NEW o \in {"posture", "stop", "close"}, OpBegins(o) PROVE FutureInv'
  <2>1. \A d \in Callers : Waits(d)' => Waits(d) /\ MethodOf(d)' = MethodOf(d) /\ (HaltOf(d)'
     <=> HaltOf(d))
    BY <1>31 DEF OpBegins, Admits, ReadyForMotion, Waits, MethodOf, HaltOf, PlaceInv,
       WorkerAlive, TypeOK, ExecutorTypeOK, WaitsTypeOK
  <2> QED
    BY <1>31, <2>1, <1>u DEF OpBegins, Admits, ReadyForMotion
<1>32. CASE Serve
  <2>1. \A c \in Callers : Waits(c)' => Waits(c) /\ MethodOf(c)' = MethodOf(c) /\ (HaltOf(c)'
     <=> HaltOf(c))
    BY <1>32 DEF Serve, Waits, MethodOf, HaltOf, PlaceInv, WorkerAlive, TypeOK, ExecutorTypeOK,
       WaitsTypeOK
  <2> QED
    BY <1>32, <2>1, <1>u DEF Serve
<1>33. CASE Exit
  <2>1. \A c \in Callers : Waits(c)' => Waits(c) /\ MethodOf(c)' = MethodOf(c) /\ (HaltOf(c)'
     <=> HaltOf(c))
    BY <1>33 DEF Exit, Waits, MethodOf, HaltOf, PlaceInv, WorkerAlive, TypeOK, ExecutorTypeOK,
       WaitsTypeOK
  <2> QED
    BY <1>33, <2>1, <1>u DEF Exit
<1>34. CASE Restart
  <2>1. \A d \in Callers : ~Waits(d)'
    BY <1>34 DEF Restart, Waits
  <2> QED
    BY <2>1 DEF FutureInv
<1> QED
  BY <1>1, <1>2, <1>3, <1>4, <1>5, <1>6, <1>7, <1>8, <1>9, <1>10, <1>11, <1>12, <1>13, <1>14,
     <1>15, <1>16, <1>17, <1>18, <1>19, <1>20, <1>21, <1>22, <1>23, <1>24, <1>25, <1>26, <1>27,
     <1>28, <1>29, <1>30, <1>31, <1>32, <1>33, <1>34, SubmitCases, WaitCases DEF Next,
     WorkerStep, OpStep, OwnerStep

\* Nobody else's answer is taken.
LEMMA WaitedStep ==
    ASSUME IInv, Next
    PROVE  WaitedInv'
<1> USE DEF IInv, opVars, leaseVars, lockVars, ownerVars, callVars, historyVars, Callers
<1>t. TypeOK
  OBVIOUS
<1>b. /\ \A i \in 1..Len(queue) : queue[i].waited => queue[i].by \in Callers
      /\ owner \in {"taken", "calling"} => current.by \in Callers /\ current # NoCall
  <2>1. \A call \in Entries : call.waited => call.by \in Callers
    BY QueueTypes DEF Entries
  <2>2. owner \in {"taken", "calling"} => current \in Calls
    BY QueueTypes DEF OwnerInv, Entries
  <2> QED
    BY <2>1, <2>2, QueueTypes
<1>u. ASSUME UNCHANGED <<queue, current, owner, future>>, \A c \in Callers : Waits(c) => Waits(c)'
      PROVE  WaitedInv'
  <2>1. /\ \A i \in 1..Len(queue) : queue[i].waited => queue[i].by \in Callers
        /\ owner \in {"taken", "calling"} => current.by \in Callers
    BY <1>b
  <2> QED
    BY <1>u, <2>1 DEF WaitedInv
<1>n. ASSUME owner' \notin {"taken", "calling"}, \A i \in 1..Len(queue') : ~queue'[i].waited
      PROVE  WaitedInv'
  BY <1>n DEF WaitedInv
<1>1. CASE OwnerInit
  <2>1. owner = "init" /\ owner' \notin {"taken", "calling"} /\ UNCHANGED <<queue, future,
     waiting>>
    BY <1>1 DEF OwnerInit, Rest
  <2> QED
    BY <2>1, <1>b DEF WaitedInv, Waits
<1>2. CASE WorkerTests("begin", "loop")
  <2>1. \A c \in Callers : Waits(c) => Waits(c)'
    BY <1>2 DEF WorkerTests, WorkerRest, LeaseOver, Waits, PlaceInv, WorkerAlive, TypeOK,
       ExecutorTypeOK, WaitsTypeOK
  <2> QED
    BY <1>2, <2>1, <1>u DEF WorkerTests, WorkerRest, LeaseOver
<1>3. CASE WorkerTests("loop", "checked")
  <2>1. \A c \in Callers : Waits(c) => Waits(c)'
    BY <1>3 DEF WorkerTests, WorkerRest, LeaseOver, Waits, PlaceInv, WorkerAlive, TypeOK,
       ExecutorTypeOK, WaitsTypeOK
  <2> QED
    BY <1>3, <2>1, <1>u DEF WorkerTests, WorkerRest, LeaseOver
<1>4. CASE WorkerLocks
  <2>1. \A c \in Callers : Waits(c) => Waits(c)'
    BY <1>4 DEF WorkerLocks, WorkerRest, Waits, PlaceInv, WorkerAlive, TypeOK, ExecutorTypeOK,
       WaitsTypeOK
  <2> QED
    BY <1>4, <2>1, <1>u DEF WorkerLocks, WorkerRest
<1>5. CASE WorkerStops
  <2>1. \A c \in Callers : Waits(c) => Waits(c)'
    BY <1>5 DEF WorkerStops, WorkerRest, Waits, PlaceInv, WorkerAlive, TypeOK, ExecutorTypeOK,
       WaitsTypeOK
  <2> QED
    BY <1>5, <2>1, <1>u DEF WorkerStops, WorkerRest
<1>6. ASSUME NEW c \in Callers, Queues(c) PROVE WaitedInv'
  <2>1. \A d \in Callers : ~Waits(d)
    BY <1>6 DEF Queues, PlaceInv
  <2>2. /\ \A i \in 1..Len(queue) : ~queue[i].waited
        /\ owner \in {"taken", "calling"} => ~current.waited
    BY <2>1, <1>b DEF WaitedInv
  <2>3. Waits(c)' /\ future'[c] = "pending" /\ UNCHANGED <<owner, current>>
    BY <1>6 DEF Queues, Waits, TypeOK, WaitsTypeOK
  <2> QED
    BY <1>6, <2>2, <2>3 DEF Queues, Pushed, WaitedInv
<1>7. ASSUME NEW c \in Callers, IsRefused(c) PROVE WaitedInv'
  <2>1. \A d \in Callers : Waits(d) => Waits(d)'
    BY <1>7 DEF IsRefused, Waits, PlaceInv, WorkerAlive, TypeOK, ExecutorTypeOK, WaitsTypeOK
  <2> QED
    BY <1>7, <2>1, <1>u DEF IsRefused
<1>8. CASE WorkerResumes
  <2>1. \A c \in Callers : Waits(c) => Waits(c)'
    BY <1>8 DEF WorkerResumes, Waits, PlaceInv, WorkerAlive, TypeOK, ExecutorTypeOK, WaitsTypeOK
  <2> QED
    BY <1>8, <2>1, <1>u DEF WorkerResumes
<1>9. CASE OpJoins
  <2>1. \A c \in Callers : Waits(c) => Waits(c)'
    BY <1>9 DEF OpJoins, OpRest, Waits, PlaceInv, WorkerAlive, TypeOK, ExecutorTypeOK,
       WaitsTypeOK
  <2> QED
    BY <1>9, <2>1, <1>u DEF OpJoins, OpRest
<1>10. CASE OpLocks("stop", "stopping")
  <2>1. \A c \in Callers : Waits(c) => Waits(c)'
    BY <1>10 DEF OpLocks, OpRest, Waits, PlaceInv, WorkerAlive, TypeOK, ExecutorTypeOK,
       WaitsTypeOK
  <2> QED
    BY <1>10, <2>1, <1>u DEF OpLocks, OpRest
<1>11. CASE OpLocks("posture", "posturing")
  <2>1. \A c \in Callers : Waits(c) => Waits(c)'
    BY <1>11 DEF OpLocks, OpRest, Waits, PlaceInv, WorkerAlive, TypeOK, ExecutorTypeOK,
       WaitsTypeOK
  <2> QED
    BY <1>11, <2>1, <1>u DEF OpLocks, OpRest
<1>12. CASE StopReturns
  <2>1. \A c \in Callers : Waits(c) => Waits(c)'
    BY <1>12 DEF StopReturns, OpRest, Called, Returned, OpEnds, Confirmed, Waits, PlaceInv,
       WorkerAlive, TypeOK, ExecutorTypeOK, WaitsTypeOK
  <2> QED
    BY <1>12, <2>1, <1>u DEF StopReturns, OpRest, Called, Returned, OpEnds, Confirmed
<1>13. CASE PostureStopped
  <2>1. \A c \in Callers : Waits(c) => Waits(c)'
    BY <1>13 DEF PostureStopped, OpRest, Called, Returned, OpEnds, Confirmed, Waits, PlaceInv,
       WorkerAlive, TypeOK, ExecutorTypeOK, WaitsTypeOK
  <2> QED
    BY <1>13, <2>1, <1>u DEF PostureStopped, OpRest, Called, Returned, OpEnds, Confirmed
<1>14. CASE PostureReturns
  <2>1. \A c \in Callers : Waits(c) => Waits(c)'
    BY <1>14 DEF PostureReturns, OpRest, Called, Returned, OpEnds, Waits, PlaceInv, WorkerAlive,
       TypeOK, ExecutorTypeOK, WaitsTypeOK
  <2> QED
    BY <1>14, <2>1, <1>u DEF PostureReturns, OpRest, Called, Returned, OpEnds
<1>15. CASE CloseStopped
  <2>1. \A c \in Callers : Waits(c) => Waits(c)'
    BY <1>15 DEF CloseStopped, OpRest, Called, Returned, Waits, PlaceInv, WorkerAlive, TypeOK,
       ExecutorTypeOK, WaitsTypeOK
  <2> QED
    BY <1>15, <2>1, <1>u DEF CloseStopped, OpRest, Called, Returned
<1>16. CASE FinalStop
  <2>1. \A d \in Callers : ~Waits(d)
    BY <1>16 DEF FinalStop, PlaceInv
  <2>2. /\ \A i \in 1..Len(queue) : ~queue[i].waited
        /\ owner \in {"taken", "calling"} => ~current.waited
    BY <2>1, <1>b DEF WaitedInv
  <2>3. Waits("op")' /\ future'["op"] = "pending" /\ UNCHANGED <<owner, current>>
    BY <1>16 DEF FinalStop, Waits, TypeOK, WaitsTypeOK
  <2>4. Pushed("StopMove", "op", TRUE)
    BY <1>16, FinalPushed
  <2> QED
    BY <2>2, <2>3, <2>4 DEF Pushed, WaitedInv
<1>17. CASE EndOwner
  <2>1. \A d \in Callers : ~Waits(d)
    BY <1>17 DEF EndOwner, Called, PlaceInv, Waits
  <2>2. /\ \A i \in 1..Len(queue) : ~queue[i].waited
        /\ owner \in {"taken", "calling"} => ~current.waited
    BY <2>1, <1>b DEF WaitedInv
  <2>3. NoCall \in Entries /\ ~NoCall.waited /\ queue' = Append(queue, NoCall) /\ UNCHANGED
     <<owner, current>>
    BY <1>17 DEF EndOwner, Entries, NoCall
  <2>4. \A i \in 1..Len(queue') : ~queue'[i].waited
    <3>1. /\ Len(queue') = Len(queue) + 1 /\ Len(queue) \in Nat
          /\ \A i \in 1..Len(queue) : queue'[i] = queue[i]
          /\ \A i \in 1..Len(queue') : i <= Len(queue) \/ queue'[i] = NoCall
      BY <2>3, Appended
    <3> QED
      BY <2>2, <2>3, <3>1
  <2> QED
    BY <2>2, <2>3, <2>4 DEF WaitedInv
<1>18. CASE CloseReturns
  <2>1. \A c \in Callers : Waits(c) => Waits(c)'
    BY <1>18 DEF CloseReturns, OpRest, OpEnds, Waits, PlaceInv, WorkerAlive, TypeOK,
       ExecutorTypeOK, WaitsTypeOK
  <2> QED
    BY <1>18, <2>1, <1>u DEF CloseReturns, OpRest, OpEnds
<1>19. ASSUME NEW c \in Callers, IsAnswered(c) PROVE WaitedInv'
  <2>1. /\ future[c] \in {"ok", "bad"} /\ UNCHANGED <<queue, current, owner, future>>
        /\ \A d \in Callers : Waits(d) /\ d # c => Waits(d)'
    BY <1>19 DEF IsAnswered, WaitRest, Waits, TypeOK, WaitsTypeOK
  <2> QED
    BY <2>1, <1>b DEF WaitedInv
<1>20. ASSUME NEW c \in Callers, Expires(c) PROVE WaitedInv'
  <2>1. \A d \in Callers : Waits(d) => Waits(d)'
    BY <1>20 DEF Expires, WaitRest, Waits, PlaceInv, WorkerAlive, TypeOK, ExecutorTypeOK,
       WaitsTypeOK
  <2> QED
    BY <1>20, <2>1, <1>u DEF Expires, WaitRest
<1>21. ASSUME NEW c \in Callers, Cancels(c) PROVE WaitedInv'
  <2>1. /\ future[c] = "pending" /\ UNCHANGED <<current, owner, future>>
        /\ \A d \in Callers : Waits(d) /\ d # c => Waits(d)'
    BY <1>21 DEF Cancels, WaitRest, Waits, TypeOK, WaitsTypeOK
  <2>2. \A i \in 1..Len(queue') : ~queue'[i].waited
    BY <1>21 DEF Cancels, WaitedInv
  <2> QED
    BY <2>1, <2>2, <1>b DEF WaitedInv
<1>22. ASSUME NEW c \in Callers, GivenUp(c) PROVE WaitedInv'
  <2>1. /\ UNCHANGED <<owner, future>>
        /\ \A d \in Callers : Waits(d) /\ d # c => Waits(d)'
    BY <1>22 DEF GivenUp, WaitRest, Waits, TypeOK, WaitsTypeOK
  <2>2. /\ \A i \in 1..Len(queue') : queue'[i].waited =>
              i \in 1..Len(queue) /\ queue[i].waited /\ queue[i].by # c /\ queue'[i].by =
                 queue[i].by
        /\ current'.waited => current.waited /\ current.by # c /\ current'.by = current.by
        /\ Len(queue') = Len(queue)
    BY <1>22 DEF GivenUp
  <2> QED
    BY <2>1, <2>2, <1>b DEF WaitedInv
<1>23. CASE OwnerTakes
  <2>1. /\ owner' = "taken" /\ UNCHANGED waiting
        /\ future' = IF current'.waited THEN [future EXCEPT ![current'.by] = "running"] ELSE
           future
    BY <1>23 DEF OwnerTakes, Deliver, Rest
  <2>2. /\ Len(queue) \in Nat \ {0} /\ Len(queue') = Len(queue) - 1
        /\ current' = queue[1] /\ 1 \in 1..Len(queue)
        /\ \A i \in 1..Len(queue') : queue'[i] = queue[i + 1] /\ i + 1 \in 1..Len(queue)
    BY <1>23, Taken
  <2>3. \A d \in Callers : Waits(d)' <=> Waits(d)
    BY <2>1 DEF Waits
  <2>4. CASE queue[1].waited
    <3>1. Len(queue) = 1 /\ Waits(queue[1].by) /\ queue[1].by \in Callers
      BY <2>2, <2>4, <1>b DEF WaitedInv
    <3>2. future'[queue[1].by] = "running"
      BY <2>1, <2>2, <2>4, <3>1 DEF TypeOK, WaitsTypeOK
    <3> QED
      BY <2>1, <2>2, <2>3, <3>1, <3>2 DEF WaitedInv
  <2>5. CASE ~queue[1].waited
    <3>1. \A i \in 1..Len(queue') : queue'[i].waited =>
             i = Len(queue') /\ Waits(queue[i].by)' /\ future'[queue'[i].by] = "pending"
      <4> SUFFICES ASSUME NEW i \in 1..Len(queue'), queue'[i].waited
                   PROVE  i = Len(queue') /\ Waits(queue[i].by)' /\ future'[queue'[i].by] =
                      "pending"
        OBVIOUS
      <4>1. queue'[i] = queue[i + 1] /\ i + 1 \in 1..Len(queue)
        BY <2>2
      <4>2. i + 1 = Len(queue) /\ Waits(queue[i + 1].by) /\ future[queue[i + 1].by] = "pending"
            /\ queue[i + 1].by \in Callers
        BY <4>1, <1>b DEF WaitedInv
      <4> QED
        BY <2>1, <2>2, <2>3, <2>5, <4>1, <4>2
    <3> QED
      BY <2>2, <2>5, <3>1 DEF WaitedInv
  <2> QED
    BY <2>4, <2>5
<1>24. CASE OwnerRefuses
  <2>1. /\ owner = "taken" /\ owner' = "idle" /\ UNCHANGED <<waiting, queue>>
        /\ future' = IF current.waited THEN [future EXCEPT ![current.by] = "bad"] ELSE future
    BY <1>24 DEF OwnerRefuses, Deliver, Rest
  <2>2. \A d \in Callers : /\ Waits(d)' <=> Waits(d)
                           /\ future[d] = "pending" => future'[d] = "pending"
    BY <2>1 DEF Waits, WaitedInv, TypeOK, WaitsTypeOK
  <2> QED
    BY <2>1, <2>2, <1>b DEF WaitedInv
<1>25. CASE process = "serving" /\ OwnerCalls
  <2>1. owner = "taken" /\ UNCHANGED <<waiting, queue, current, future>>
    BY <1>25 DEF OwnerCalls, Rest
  <2> QED
    BY <2>1, <1>b DEF WaitedInv, Waits
<1>26. CASE OwnerReturns
  <2>1. owner' = "idle" /\ UNCHANGED <<waiting, queue, future>>
    BY <1>26 DEF OwnerReturns, Rest
  <2> QED
    BY <2>1, <1>b DEF WaitedInv, Waits
<1>27. CASE OwnerExits
  <2>1. owner' = "exited" /\ Len(queue') = 0
    BY <1>27 DEF OwnerExits
  <2> QED
    BY <2>1, <1>n
<1>28. CASE SdkReturns
  <2>1. PICK f \in {"ok", "bad"} : future' = IF current.waited THEN [future EXCEPT ![current.by]
     = f] ELSE future
    BY <1>28 DEF SdkReturns, Deliver
  <2>2. owner = "calling" /\ owner' = "returned" /\ UNCHANGED <<waiting, queue>>
    BY <1>28 DEF SdkReturns, Rest
  <2>3. \A d \in Callers : /\ Waits(d)' <=> Waits(d)
                           /\ future[d] = "pending" => future'[d] = "pending"
    BY <2>1, <2>2 DEF Waits, WaitedInv, TypeOK, WaitsTypeOK
  <2> QED
    BY <2>2, <2>3, <1>b DEF WaitedInv
<1>29. CASE LeaseElapses
  <2>1. \A c \in Callers : Waits(c) => Waits(c)'
    BY <1>29 DEF LeaseElapses, Waits, PlaceInv, WorkerAlive, TypeOK, ExecutorTypeOK, WaitsTypeOK
  <2> QED
    BY <1>29, <2>1, <1>u DEF LeaseElapses
<1>30. CASE StartMotion
  <2>1. \A c \in Callers : Waits(c) => Waits(c)'
    BY <1>30 DEF StartMotion, Admits, ReadyForMotion, Waits, PlaceInv, WorkerAlive, TypeOK,
       ExecutorTypeOK, WaitsTypeOK
  <2> QED
    BY <1>30, <2>1, <1>u DEF StartMotion, Admits, ReadyForMotion
<1>31. ASSUME NEW o \in {"posture", "stop", "close"}, OpBegins(o) PROVE WaitedInv'
  <2>1. \A d \in Callers : Waits(d) => Waits(d)'
    BY <1>31 DEF OpBegins, Admits, ReadyForMotion, Waits, PlaceInv, WorkerAlive, TypeOK,
       ExecutorTypeOK, WaitsTypeOK
  <2> QED
    BY <1>31, <2>1, <1>u DEF OpBegins, Admits, ReadyForMotion
<1>32. CASE Serve
  <2>1. \A c \in Callers : Waits(c) => Waits(c)'
    BY <1>32 DEF Serve, Waits, PlaceInv, WorkerAlive, TypeOK, ExecutorTypeOK, WaitsTypeOK
  <2> QED
    BY <1>32, <2>1, <1>u DEF Serve
<1>33. CASE Exit
  <2>1. \A c \in Callers : Waits(c) => Waits(c)'
    BY <1>33 DEF Exit, Waits, PlaceInv, WorkerAlive, TypeOK, ExecutorTypeOK, WaitsTypeOK
  <2> QED
    BY <1>33, <2>1, <1>u DEF Exit
<1>34. CASE Restart
  <2>1. owner' = "init" /\ Len(queue') = 0
    BY <1>34 DEF Restart
  <2> QED
    BY <2>1, <1>n
<1> QED
  BY <1>1, <1>2, <1>3, <1>4, <1>5, <1>6, <1>7, <1>8, <1>9, <1>10, <1>11, <1>12, <1>13, <1>14,
     <1>15, <1>16, <1>17, <1>18, <1>19, <1>20, <1>21, <1>22, <1>23, <1>24, <1>25, <1>26, <1>27,
     <1>28, <1>29, <1>30, <1>31, <1>32, <1>33, <1>34, SubmitCases, WaitCases DEF Next,
     WorkerStep, OpStep, OwnerStep

-----------------------------------------------------------------------------
(* Motions in the FIFO.                                                    *)

Adds == \E c \in Callers : Queues(c)

\* Only Submit puts a motion into the FIFO.
LEMMA NoStep ==
    ASSUME IInv, Next, ~Adds, NEW m \in Motions, No(m)
    PROVE  No(m)'
<1> USE DEF IInv, opVars, leaseVars, lockVars, ownerVars, callVars, historyVars, Callers
<1>t. TypeOK /\ m # "StopMove" /\ m # "Exit"
  BY DEF Motions
<1>u. ASSUME UNCHANGED <<queue, current>> PROVE No(m)'
  BY <1>u DEF No
<1>e. ASSUME UNCHANGED queue, current' = NoCall PROVE No(m)'
  BY <1>e, <1>t, QueueTypes DEF No
<1>1. CASE OwnerInit
  BY <1>1, <1>u DEF OwnerInit, Rest
<1>2. CASE WorkerTests("begin", "loop")
  BY <1>2, <1>u DEF WorkerTests, WorkerRest, LeaseOver
<1>3. CASE WorkerTests("loop", "checked")
  BY <1>3, <1>u DEF WorkerTests, WorkerRest, LeaseOver
<1>4. CASE WorkerLocks
  BY <1>4, <1>u DEF WorkerLocks, WorkerRest
<1>5. CASE WorkerStops
  BY <1>5, <1>u DEF WorkerStops, WorkerRest
<1>6. ASSUME NEW c \in Callers, Queues(c) PROVE No(m)'
  BY <1>6 DEF Adds
<1>7. ASSUME NEW c \in Callers, IsRefused(c) PROVE No(m)'
  BY <1>7, <1>u DEF IsRefused
<1>8. CASE WorkerResumes
  BY <1>8, <1>u DEF WorkerResumes
<1>9. CASE OpJoins
  BY <1>9, <1>u DEF OpJoins, OpRest
<1>10. CASE OpLocks("stop", "stopping")
  BY <1>10, <1>u DEF OpLocks, OpRest
<1>11. CASE OpLocks("posture", "posturing")
  BY <1>11, <1>u DEF OpLocks, OpRest
<1>12. CASE StopReturns
  BY <1>12, <1>u DEF StopReturns, OpRest, Called, Returned, OpEnds, Confirmed
<1>13. CASE PostureStopped
  BY <1>13, <1>u DEF PostureStopped, OpRest, Called, Returned, OpEnds, Confirmed
<1>14. CASE PostureReturns
  BY <1>14, <1>u DEF PostureReturns, OpRest, Called, Returned, OpEnds
<1>15. CASE CloseStopped
  BY <1>15, <1>u DEF CloseStopped, OpRest, Called, Returned
<1>16. CASE FinalStop
  <2>1. Pushed("StopMove", "op", TRUE) /\ UNCHANGED current
    BY <1>16, FinalPushed DEF FinalStop
  <2> QED
    BY <2>1, <1>t DEF Pushed, No
<1>17. CASE EndOwner
  <2>1. NoCall \in Entries /\ NoCall.method # m /\ queue' = Append(queue, NoCall) /\ UNCHANGED current
    BY <1>17, <1>t, QueueTypes DEF EndOwner, Entries
  <2>2. /\ Len(queue') = Len(queue) + 1 /\ Len(queue) \in Nat
        /\ \A i \in 1..Len(queue) : queue'[i] = queue[i]
        /\ \A i \in 1..Len(queue') : i <= Len(queue) \/ queue'[i] = NoCall
    BY <2>1, Appended
  <2> QED
    BY <2>1, <2>2 DEF No
<1>18. CASE CloseReturns
  BY <1>18, <1>u DEF CloseReturns, OpRest, OpEnds
<1>19. ASSUME NEW c \in Callers, IsAnswered(c) PROVE No(m)'
  BY <1>19, <1>u DEF IsAnswered, WaitRest, GivesUp
<1>20. ASSUME NEW c \in Callers, Expires(c) PROVE No(m)'
  BY <1>20, <1>u DEF Expires, WaitRest
<1>21. ASSUME NEW c \in Callers, Cancels(c) PROVE No(m)'
  BY <1>21 DEF Cancels, No
<1>22. ASSUME NEW c \in Callers, GivenUp(c) PROVE No(m)'
  BY <1>22 DEF GivenUp, No
<1>23. CASE OwnerTakes
  <2>1. /\ Len(queue) \in Nat \ {0} /\ current' = queue[1] /\ 1 \in 1..Len(queue)
        /\ \A i \in 1..Len(queue') : queue'[i] = queue[i + 1] /\ i + 1 \in 1..Len(queue)
    BY <1>23, Taken
  <2> QED
    BY <2>1 DEF No
<1>24. CASE OwnerRefuses
  BY <1>24, <1>e DEF OwnerRefuses
<1>25. CASE process = "serving" /\ OwnerCalls
  BY <1>25, <1>u DEF OwnerCalls, Rest, Motion
<1>26. CASE OwnerReturns
  BY <1>26, <1>e DEF OwnerReturns
<1>27. CASE OwnerExits
  <2>1. Len(queue') = 0 /\ UNCHANGED current
    BY <1>27 DEF OwnerExits
  <2> QED
    BY <2>1 DEF No
<1>28. CASE SdkReturns
  BY <1>28, <1>u DEF SdkReturns, Rest, Deliver
<1>29. CASE LeaseElapses
  BY <1>29, <1>u DEF LeaseElapses
<1>30. CASE StartMotion
  BY <1>30, <1>u DEF StartMotion, Admits, ReadyForMotion
<1>31. ASSUME NEW o \in {"posture", "stop", "close"}, OpBegins(o) PROVE No(m)'
  BY <1>31, <1>u DEF OpBegins, Admits, ReadyForMotion
<1>32. CASE Serve
  BY <1>32, <1>u DEF Serve
<1>33. CASE Exit
  BY <1>33, <1>u DEF Exit
<1>34. CASE Restart
  <2>1. Len(queue') = 0 /\ current' = NoCall
    BY <1>34 DEF Restart
  <2> QED
    BY <2>1, <1>t, QueueTypes DEF No
<1> QED
  BY <1>1, <1>2, <1>3, <1>4, <1>5, <1>6, <1>7, <1>8, <1>9, <1>10, <1>11, <1>12, <1>13, <1>14,
     <1>15, <1>16, <1>17, <1>18, <1>19, <1>20, <1>21, <1>22, <1>23, <1>24, <1>25, <1>26, <1>27,
     <1>28, <1>29, <1>30, <1>31, <1>32, <1>33, <1>34, SubmitCases, WaitCases DEF Next,
     WorkerStep, OpStep, OwnerStep

\* Neither kind of motion appears.
LEMMA NoNewMotion ==
    ASSUME IInv, Next, ~Adds
    PROVE  (No("Move") => No("Move")') /\ (No("Posture") => No("Posture")')
  BY NoStep DEF Motions

\* A posture meets no motion, when none is added, ...
LEMMA PostureOthers ==
    ASSUME IInv, Next, ~Adds
    PROVE  PostureInv'
<1> USE DEF IInv, opVars, leaseVars, lockVars, ownerVars, callVars, historyVars, Callers
<1>k. (No("Move") => No("Move")') /\ (No("Posture") => No("Posture")')
  BY NoNewMotion
<1>u. ASSUME ~ready => ~ready', ~WorkerAlive => ~WorkerAlive' \/ ready,
             opAt' \in {"posture", "posturing"} => opAt \in {"posture", "posturing"}
      PROVE  PostureInv'
  BY <1>u, <1>k DEF PostureInv
<1>1. CASE OwnerInit
  BY <1>1, <1>u DEF OwnerInit, Rest, PlaceInv, WorkerAlive, TypeOK, ExecutorTypeOK, WaitsTypeOK
<1>2. CASE WorkerTests("begin", "loop")
  BY <1>2, <1>u DEF WorkerTests, WorkerRest, LeaseOver, PlaceInv, WorkerAlive, TypeOK,
     ExecutorTypeOK, WaitsTypeOK
<1>3. CASE WorkerTests("loop", "checked")
  BY <1>3, <1>u DEF WorkerTests, WorkerRest, LeaseOver, PlaceInv, WorkerAlive, TypeOK,
     ExecutorTypeOK, WaitsTypeOK
<1>4. CASE WorkerLocks
  BY <1>4, <1>u DEF WorkerLocks, WorkerRest, PlaceInv, WorkerAlive, TypeOK, ExecutorTypeOK,
     WaitsTypeOK
<1>5. CASE WorkerStops
  BY <1>5, <1>u DEF WorkerStops, WorkerRest, PlaceInv, WorkerAlive, TypeOK, ExecutorTypeOK,
     WaitsTypeOK
<1>6. ASSUME NEW c \in Callers, Queues(c) PROVE PostureInv'
  BY <1>6 DEF Adds
<1>7. ASSUME NEW c \in Callers, IsRefused(c) PROVE PostureInv'
  BY <1>7, <1>u DEF IsRefused, PlaceInv, WorkerAlive, TypeOK, ExecutorTypeOK, WaitsTypeOK
<1>8. CASE WorkerResumes
  BY <1>8, <1>u DEF WorkerResumes, PlaceInv, WorkerAlive, TypeOK, ExecutorTypeOK, WaitsTypeOK
<1>9. CASE OpJoins
  BY <1>9, <1>u DEF OpJoins, OpRest, PlaceInv, WorkerAlive, TypeOK, ExecutorTypeOK, WaitsTypeOK
<1>10. CASE OpLocks("stop", "stopping")
  BY <1>10, <1>u DEF OpLocks, OpRest, PlaceInv, WorkerAlive, TypeOK, ExecutorTypeOK, WaitsTypeOK
<1>11. CASE OpLocks("posture", "posturing")
  BY <1>11, <1>u DEF OpLocks, OpRest, PlaceInv, WorkerAlive, TypeOK, ExecutorTypeOK, WaitsTypeOK
<1>12. CASE StopReturns
  BY <1>12, <1>u DEF StopReturns, OpRest, Called, Returned, OpEnds, Confirmed, PlaceInv,
     WorkerAlive, TypeOK, ExecutorTypeOK, WaitsTypeOK
<1>13. CASE PostureStopped
  <2>1. opAt' \in {"posture", "posturing"} => ~ready' /\ ~WorkerAlive' /\ No("Move")
    BY <1>13 DEF PostureStopped, OpRest, Called, Confirmed, OpEnds, ReportInv, PlaceInv,
       WorkerAlive
  <2>2. /\ UNCHANGED worker /\ (~ready => ~ready')
    BY <1>13 DEF PostureStopped, OpRest
  <2> QED
    BY <2>1, <2>2, <1>k DEF PostureInv, WorkerAlive
<1>14. CASE PostureReturns
  BY <1>14, <1>u DEF PostureReturns, OpRest, Called, Returned, OpEnds, PlaceInv, WorkerAlive,
     TypeOK, ExecutorTypeOK, WaitsTypeOK
<1>15. CASE CloseStopped
  BY <1>15, <1>u DEF CloseStopped, OpRest, Called, Returned, PlaceInv, WorkerAlive, TypeOK,
     ExecutorTypeOK, WaitsTypeOK
<1>16. CASE FinalStop
  BY <1>16, <1>u DEF FinalStop, OpRest, PlaceInv, WorkerAlive, TypeOK, ExecutorTypeOK,
     WaitsTypeOK
<1>17. CASE EndOwner
  BY <1>17, <1>u DEF EndOwner, OpRest, Called, Returned, PlaceInv, WorkerAlive, TypeOK,
     ExecutorTypeOK, WaitsTypeOK
<1>18. CASE CloseReturns
  BY <1>18, <1>u DEF CloseReturns, OpRest, OpEnds, PlaceInv, WorkerAlive, TypeOK, ExecutorTypeOK,
     WaitsTypeOK
<1>19. ASSUME NEW c \in Callers, IsAnswered(c) PROVE PostureInv'
  BY <1>19, <1>u DEF IsAnswered, WaitRest, GivesUp, PlaceInv, WorkerAlive, TypeOK,
     ExecutorTypeOK, WaitsTypeOK
<1>20. ASSUME NEW c \in Callers, Expires(c) PROVE PostureInv'
  BY <1>20, <1>u DEF Expires, WaitRest, PlaceInv, WorkerAlive, TypeOK, ExecutorTypeOK,
     WaitsTypeOK
<1>21. ASSUME NEW c \in Callers, Cancels(c) PROVE PostureInv'
  BY <1>21, <1>u DEF Cancels, WaitRest, GivesUp, PlaceInv, WorkerAlive, TypeOK, ExecutorTypeOK,
     WaitsTypeOK
<1>22. ASSUME NEW c \in Callers, GivenUp(c) PROVE PostureInv'
  BY <1>22, <1>u DEF GivenUp, WaitRest, GivesUp, PlaceInv, WorkerAlive, TypeOK, ExecutorTypeOK,
     WaitsTypeOK
<1>23. CASE OwnerTakes
  BY <1>23, <1>u DEF OwnerTakes, Rest, Deliver, PlaceInv, WorkerAlive, TypeOK, ExecutorTypeOK,
     WaitsTypeOK
<1>24. CASE OwnerRefuses
  BY <1>24, <1>u DEF OwnerRefuses, Rest, Deliver, Motion, PlaceInv, WorkerAlive, TypeOK,
     ExecutorTypeOK, WaitsTypeOK
<1>25. CASE process = "serving" /\ OwnerCalls
  BY <1>25, <1>u DEF OwnerCalls, Rest, Motion, PlaceInv, WorkerAlive, TypeOK, ExecutorTypeOK,
     WaitsTypeOK
<1>26. CASE OwnerReturns
  BY <1>26, <1>u DEF OwnerReturns, Rest, Motion, PlaceInv, WorkerAlive, TypeOK, ExecutorTypeOK,
     WaitsTypeOK
<1>27. CASE OwnerExits
  BY <1>27, <1>u DEF OwnerExits, Rest, PlaceInv, WorkerAlive, TypeOK, ExecutorTypeOK, WaitsTypeOK
<1>28. CASE SdkReturns
  BY <1>28, <1>u DEF SdkReturns, Rest, Deliver, PlaceInv, WorkerAlive, TypeOK, ExecutorTypeOK,
     WaitsTypeOK
<1>29. CASE LeaseElapses
  BY <1>29, <1>u DEF LeaseElapses, PlaceInv, WorkerAlive, TypeOK, ExecutorTypeOK, WaitsTypeOK
<1>30. CASE StartMotion
  BY <1>30, <1>u DEF StartMotion, Admits, ReadyForMotion, PlaceInv, WorkerAlive, TypeOK,
     ExecutorTypeOK, WaitsTypeOK
<1>31. ASSUME NEW o \in {"posture", "stop", "close"}, OpBegins(o) PROVE PostureInv'
  BY <1>31, <1>u DEF OpBegins, Admits, ReadyForMotion, PlaceInv, WorkerAlive, TypeOK,
     ExecutorTypeOK, WaitsTypeOK
<1>32. CASE Serve
  BY <1>32, <1>u DEF Serve, PlaceInv, WorkerAlive, TypeOK, ExecutorTypeOK, WaitsTypeOK
<1>33. CASE Exit
  BY <1>33, <1>u DEF Exit, PlaceInv, WorkerAlive, TypeOK, ExecutorTypeOK, WaitsTypeOK
<1>34. CASE Restart
  <2>1. opAt' = "out" /\ current' = NoCall /\ Len(queue') = 0
    BY <1>34 DEF Restart
  <2> QED
    BY <2>1, QueueTypes DEF PostureInv, No
<1> QED
  BY <1>1, <1>2, <1>3, <1>4, <1>5, <1>6, <1>7, <1>8, <1>9, <1>10, <1>11, <1>12, <1>13, <1>14,
     <1>15, <1>16, <1>17, <1>18, <1>19, <1>20, <1>21, <1>22, <1>23, <1>24, <1>25, <1>26, <1>27,
     <1>28, <1>29, <1>30, <1>31, <1>32, <1>33, <1>34, SubmitCases, WaitCases DEF Next,
     WorkerStep, OpStep, OwnerStep

\* ... and when one is.
LEMMA PostureStep ==
    ASSUME IInv, Next
    PROVE  PostureInv'
<1>1. CASE ~Adds
  BY <1>1, PostureOthers
<1>2. ASSUME NEW c \in Callers, Queues(c) PROVE PostureInv'
  <2> USE DEF IInv, opVars, leaseVars, historyVars
  <2>1. /\ UNCHANGED <<ready, worker, opAt, current>>
        /\ Pushed(MethodOf(c), c, HaltOf(c)) /\ waiting[c] = "entering"
    BY <1>2 DEF Queues
  <2>2. \A m \in Motions : No(m) /\ MethodOf(c) # m => No(m)'
    BY <2>1 DEF Pushed, No
  <2>3. "Move" \in Motions /\ "Posture" \in Motions
    BY DEF Motions
  <2>4. CASE c = "worker"
    <3>1. WorkerAlive /\ MethodOf(c) # "Posture"
      BY <2>1, <2>4 DEF PlaceInv, WorkerAlive, MethodOf
    <3>2. opAt \notin {"posture", "posturing"} /\ No("Posture")
      BY <3>1 DEF PostureInv
    <3> QED
      BY <2>1, <2>2, <2>3, <3>1, <3>2 DEF PostureInv
  <2>5. CASE c = "op"
    <3>1. MethodOf(c) # "Move" /\ (opAt # "posturing" => MethodOf(c) # "Posture")
      BY <2>5 DEF MethodOf
    <3>2. No("Move") => No("Move")'
      BY <2>2, <2>3, <3>1
    <3>3. opAt # "posturing" /\ No("Posture") => No("Posture")'
      BY <2>2, <2>3, <3>1
    <3> QED
      BY <2>1, <3>2, <3>3 DEF PostureInv, WorkerAlive
  <2> QED
    BY <2>4, <2>5 DEF Callers
<1> QED
  BY <1>1, <1>2 DEF Adds

\* A confirmed stop stays true, when nothing is added, ...
LEMMA ReportOthers ==
    ASSUME IInv, Next, ~Adds
    PROVE  ReportInv'
<1> USE DEF IInv, opVars, leaseVars, lockVars, ownerVars, callVars, historyVars, Callers
<1>k. (No("Move") => No("Move")') /\ (No("Posture") => No("Posture")')
  BY NoNewMotion
<1>u. ASSUME (opJoined /\ opAt = "stopping" /\ waiting["op"] = "ok")' =>
                 opJoined /\ opAt = "stopping" /\ waiting["op"] = "ok" /\ UNCHANGED queue,
             stopReport' = "stopped" => stopReport = "stopped" /\ (ready \/ (~ready' /\ op' # "posture" /\ ~WorkerAlive')),
             UNCHANGED sent
      PROVE  ReportInv'
  BY <1>u, <1>k DEF ReportInv
<1>1. CASE OwnerInit
  BY <1>1, <1>u DEF OwnerInit, Rest, ReportInv, PlaceInv, WorkerAlive, TypeOK, ExecutorTypeOK,
     WaitsTypeOK
<1>2. CASE WorkerTests("begin", "loop")
  BY <1>2, <1>u DEF WorkerTests, WorkerRest, LeaseOver, ReportInv, PlaceInv, WorkerAlive,
     TypeOK, ExecutorTypeOK, WaitsTypeOK
<1>3. CASE WorkerTests("loop", "checked")
  BY <1>3, <1>u DEF WorkerTests, WorkerRest, LeaseOver, ReportInv, PlaceInv, WorkerAlive,
     TypeOK, ExecutorTypeOK, WaitsTypeOK
<1>4. CASE WorkerLocks
  BY <1>4, <1>u DEF WorkerLocks, WorkerRest, ReportInv, PlaceInv, WorkerAlive, TypeOK,
     ExecutorTypeOK, WaitsTypeOK
<1>5. CASE WorkerStops
  BY <1>5, <1>u DEF WorkerStops, WorkerRest, ReportInv, PlaceInv, WorkerAlive, TypeOK,
     ExecutorTypeOK, WaitsTypeOK
<1>6. ASSUME NEW c \in Callers, Queues(c) PROVE ReportInv'
  BY <1>6 DEF Adds
<1>7. ASSUME NEW c \in Callers, IsRefused(c) PROVE ReportInv'
  BY <1>7, <1>u DEF IsRefused, ReportInv, PlaceInv, WorkerAlive, TypeOK, ExecutorTypeOK,
     WaitsTypeOK
<1>8. CASE WorkerResumes
  BY <1>8, <1>u DEF WorkerResumes, ReportInv, PlaceInv, WorkerAlive, TypeOK, ExecutorTypeOK,
     WaitsTypeOK
<1>9. CASE OpJoins
  BY <1>9, <1>u DEF OpJoins, OpRest, ReportInv, PlaceInv, WorkerAlive, TypeOK, ExecutorTypeOK,
     WaitsTypeOK
<1>10. CASE OpLocks("stop", "stopping")
  BY <1>10, <1>u DEF OpLocks, OpRest, ReportInv, PlaceInv, WorkerAlive, TypeOK, ExecutorTypeOK,
     WaitsTypeOK
<1>11. CASE OpLocks("posture", "posturing")
  BY <1>11, <1>u DEF OpLocks, OpRest, ReportInv, PlaceInv, WorkerAlive, TypeOK, ExecutorTypeOK,
     WaitsTypeOK
<1>12. CASE StopReturns
  <2>1. /\ ~ready' /\ op' = "none" /\ opAt' = "out" /\ UNCHANGED <<worker, sent>>
        /\ opAt = "stopping"
        /\ stopReport' = "stopped" => waiting["op"] = "ok" /\ opJoined
    BY <1>12 DEF StopReturns, OpRest, OpEnds, Called, Confirmed
  <2> QED
    BY <2>1, <1>k DEF ReportInv, PlaceInv, WorkerAlive
<1>13. CASE PostureStopped
  BY <1>13, <1>u DEF PostureStopped, OpRest, Called, Returned, OpEnds, Confirmed, ReportInv,
     PlaceInv, WorkerAlive, TypeOK, ExecutorTypeOK, WaitsTypeOK
<1>14. CASE PostureReturns
  BY <1>14, <1>u DEF PostureReturns, OpRest, Called, Returned, OpEnds, ReportInv, PlaceInv,
     WorkerAlive, TypeOK, ExecutorTypeOK, WaitsTypeOK
<1>15. CASE CloseStopped
  BY <1>15, <1>u DEF CloseStopped, OpRest, Called, Returned, ReportInv, PlaceInv, WorkerAlive,
     TypeOK, ExecutorTypeOK, WaitsTypeOK
<1>16. CASE FinalStop
  <2>1. opAt' # "stopping" /\ UNCHANGED <<ready, op, worker, stopReport, sent>>
    BY <1>16 DEF FinalStop, OpRest
  <2> QED
    BY <2>1, <1>u DEF ReportInv, WorkerAlive
<1>17. CASE EndOwner
  <2>1. opAt' # "stopping" /\ UNCHANGED <<ready, op, worker, stopReport, sent>>
    BY <1>17 DEF EndOwner, OpRest
  <2> QED
    BY <2>1, <1>u DEF ReportInv, WorkerAlive
<1>18. CASE CloseReturns
  BY <1>18, <1>u DEF CloseReturns, OpRest, OpEnds, ReportInv, PlaceInv, WorkerAlive, TypeOK,
     ExecutorTypeOK, WaitsTypeOK
<1>19. ASSUME NEW c \in Callers, IsAnswered(c) PROVE ReportInv'
  <2>1. UNCHANGED <<ready, op, opAt, opJoined, worker, stopReport, sent, queue, current>>
        /\ waiting' = [waiting EXCEPT ![c] = future[c]] /\ Waits(c)
    BY <1>19 DEF IsAnswered, WaitRest
  <2>2. CASE c = "worker"
    BY <2>1, <2>2, <1>u DEF ReportInv, WorkerAlive
  <2>3. CASE c = "op" /\ opJoined /\ opAt = "stopping" /\ future["op"] = "ok"
    <3>1. Done("op") /\ MethodOf("op") = "StopMove"
      BY <2>1, <2>3 DEF FutureInv, InQueue, InHand, MethodOf
    <3>2. queue = <<>> /\ No("Move") /\ No("Posture") /\ sent = "StopMove"
      BY <3>1, QueueTypes DEF Done, No
    <3> QED
      BY <2>1, <3>2, <1>k DEF ReportInv, WorkerAlive
  <2>4. CASE c = "op" /\ ~(opJoined /\ opAt = "stopping" /\ future["op"] = "ok")
    <3>1. ~(opJoined /\ opAt = "stopping" /\ waiting["op"] = "ok")'
      BY <2>1, <2>4 DEF TypeOK, WaitsTypeOK
    <3> QED
      BY <2>1, <3>1, <1>u DEF ReportInv, WorkerAlive
  <2> QED
    BY <2>2, <2>3, <2>4 DEF Callers
<1>20. ASSUME NEW c \in Callers, Expires(c) PROVE ReportInv'
  BY <1>20, <1>u DEF Expires, WaitRest, ReportInv, PlaceInv, WorkerAlive, TypeOK, ExecutorTypeOK,
     WaitsTypeOK
<1>21. ASSUME NEW c \in Callers, Cancels(c) PROVE ReportInv'
  <2>1. UNCHANGED <<ready, op, opAt, opJoined, worker, stopReport, sent>>
        /\ waiting' = [waiting EXCEPT ![c] = "bad"] /\ Waits(c)
    BY <1>21 DEF Cancels, WaitRest, Waits
  <2>2. ~(opJoined /\ opAt = "stopping" /\ waiting["op"] = "ok")'
    BY <2>1 DEF PlaceInv, Waits, WorkerAlive, TypeOK, WaitsTypeOK
  <2> QED
    BY <2>1, <2>2, <1>u DEF ReportInv, WorkerAlive
<1>22. ASSUME NEW c \in Callers, GivenUp(c) PROVE ReportInv'
  <2>1. UNCHANGED <<ready, op, opAt, opJoined, worker, stopReport, sent>>
        /\ waiting' = [waiting EXCEPT ![c] = "bad"] /\ Waits(c)
    BY <1>22 DEF GivenUp, WaitRest, Waits
  <2>2. ~(opJoined /\ opAt = "stopping" /\ waiting["op"] = "ok")'
    BY <2>1 DEF PlaceInv, Waits, WorkerAlive, TypeOK, WaitsTypeOK
  <2> QED
    BY <2>1, <2>2, <1>u DEF ReportInv, WorkerAlive
<1>23. CASE OwnerTakes
  <2>1. queue # <<>> /\ UNCHANGED <<ready, op, opAt, opJoined, worker, stopReport, sent,
     waiting>>
    BY <1>23 DEF OwnerTakes, Rest
  <2> QED
    BY <2>1, <1>k DEF ReportInv, WorkerAlive
<1>24. CASE OwnerRefuses
  BY <1>24, <1>u DEF OwnerRefuses, Rest, Deliver, Motion, ReportInv, PlaceInv, WorkerAlive,
     TypeOK, ExecutorTypeOK, WaitsTypeOK
<1>25. CASE process = "serving" /\ OwnerCalls
  <2>1. /\ UNCHANGED <<ready, op, opAt, opJoined, worker, stopReport, waiting, queue>>
        /\ owner = "taken" /\ sent' = current.method
    BY <1>25 DEF OwnerCalls, Rest
  <2>2. current \in Calls
    BY <2>1, QueueTypes DEF OwnerInv, Entries
  <2>3. No("Move") /\ No("Posture") => sent' = "StopMove"
    BY <2>1, <2>2, QueueTypes DEF No, Methods
  <2> QED
    BY <2>1, <2>3, <1>k DEF ReportInv, WorkerAlive
<1>26. CASE OwnerReturns
  BY <1>26, <1>u DEF OwnerReturns, Rest, Motion, ReportInv, PlaceInv, WorkerAlive, TypeOK,
     ExecutorTypeOK, WaitsTypeOK
<1>27. CASE OwnerExits
  <2>1. queue # <<>> /\ UNCHANGED <<ready, op, opAt, opJoined, worker, stopReport, sent,
     waiting>>
    BY <1>27 DEF OwnerExits, Rest
  <2> QED
    BY <2>1, <1>k DEF ReportInv, WorkerAlive
<1>28. CASE SdkReturns
  BY <1>28, <1>u DEF SdkReturns, Rest, Deliver, ReportInv, PlaceInv, WorkerAlive, TypeOK,
     ExecutorTypeOK, WaitsTypeOK
<1>29. CASE LeaseElapses
  BY <1>29, <1>u DEF LeaseElapses, ReportInv, PlaceInv, WorkerAlive, TypeOK, ExecutorTypeOK,
     WaitsTypeOK
<1>30. CASE StartMotion
  BY <1>30, <1>u DEF StartMotion, Admits, ReadyForMotion, ReportInv, PlaceInv, WorkerAlive,
     TypeOK, ExecutorTypeOK, WaitsTypeOK
<1>31. ASSUME NEW o \in {"posture", "stop", "close"}, OpBegins(o) PROVE ReportInv'
  BY <1>31, <1>u DEF OpBegins, Admits, ReadyForMotion, ReportInv, PlaceInv, WorkerAlive, TypeOK,
     ExecutorTypeOK, WaitsTypeOK
<1>32. CASE Serve
  BY <1>32, <1>u DEF Serve, ReportInv, PlaceInv, WorkerAlive, TypeOK, ExecutorTypeOK, WaitsTypeOK
<1>33. CASE Exit
  BY <1>33, <1>u DEF Exit, ReportInv, PlaceInv, WorkerAlive, TypeOK, ExecutorTypeOK, WaitsTypeOK
<1>34. CASE Restart
  <2>1. stopReport' = "none" /\ opAt' = "out"
    BY <1>34 DEF Restart
  <2> QED
    BY <2>1 DEF ReportInv
<1> QED
  BY <1>1, <1>2, <1>3, <1>4, <1>5, <1>6, <1>7, <1>8, <1>9, <1>10, <1>11, <1>12, <1>13, <1>14,
     <1>15, <1>16, <1>17, <1>18, <1>19, <1>20, <1>21, <1>22, <1>23, <1>24, <1>25, <1>26, <1>27,
     <1>28, <1>29, <1>30, <1>31, <1>32, <1>33, <1>34, SubmitCases, WaitCases DEF Next,
     WorkerStep, OpStep, OwnerStep

\* ... and when something is.
LEMMA ReportStep ==
    ASSUME IInv, Next
    PROVE  ReportInv'
<1>1. CASE ~Adds
  BY <1>1, ReportOthers
<1>2. ASSUME NEW c \in Callers, Queues(c) PROVE ReportInv'
  <2> USE DEF IInv, opVars, leaseVars, historyVars
  <2>1. /\ UNCHANGED <<ready, op, opAt, opJoined, worker, stopReport, sent, current>>
        /\ waiting' = [waiting EXCEPT ![c] = "waiting"]
        /\ Pushed(MethodOf(c), c, HaltOf(c)) /\ waiting[c] = "entering"
    BY <1>2 DEF Queues
  <2>2. c = "worker" => WorkerAlive
    BY <2>1 DEF PlaceInv, WorkerAlive
  <2>3. ~(opJoined /\ opAt = "stopping" /\ waiting["op"] = "ok")'
    BY <2>1, <2>2 DEF Callers, PlaceInv, TypeOK, WaitsTypeOK
  <2>4. stopReport = "stopped" => MethodOf(c) = "StopMove"
    BY <2>2 DEF Callers, ReportInv, MethodOf, PlaceInv
  <2>5. \A m \in {"Move", "Posture"} : No(m) /\ MethodOf(c) = "StopMove" => No(m)'
    BY <2>1 DEF Pushed, No
  <2> QED
    BY <2>1, <2>3, <2>4, <2>5 DEF ReportInv, WorkerAlive
<1> QED
  BY <1>1, <1>2 DEF Adds

-----------------------------------------------------------------------------
(* Halts.                                                                  *)

\* Only the StopMove of a stop() or a close() is a halt.
LEMMA HaltingKept ==
    ASSUME IInv, Next, ~Adds, ~FinalStop
    PROVE  Halting' => Halting
<1> USE DEF IInv, opVars, leaseVars, lockVars, ownerVars, callVars, historyVars, Callers
<1>t. TypeOK
  OBVIOUS
<1>u. ASSUME UNCHANGED <<queue, current, halted>> PROVE Halting' => Halting
  BY <1>u DEF Halting
<1>e. ASSUME UNCHANGED <<queue, halted>>, current' = NoCall PROVE Halting' => Halting
  BY <1>e, <1>t, QueueTypes DEF Halting
<1>1. CASE OwnerInit
  BY <1>1, <1>u DEF OwnerInit, Rest
<1>2. CASE WorkerTests("begin", "loop")
  BY <1>2, <1>u DEF WorkerTests, WorkerRest, LeaseOver
<1>3. CASE WorkerTests("loop", "checked")
  BY <1>3, <1>u DEF WorkerTests, WorkerRest, LeaseOver
<1>4. CASE WorkerLocks
  BY <1>4, <1>u DEF WorkerLocks, WorkerRest
<1>5. CASE WorkerStops
  BY <1>5, <1>u DEF WorkerStops, WorkerRest
<1>6. ASSUME NEW c \in Callers, Queues(c) PROVE Halting' => Halting
  BY <1>6 DEF Adds
<1>7. ASSUME NEW c \in Callers, IsRefused(c) PROVE Halting' => Halting
  BY <1>7, <1>u DEF IsRefused
<1>8. CASE WorkerResumes
  BY <1>8, <1>u DEF WorkerResumes
<1>9. CASE OpJoins
  BY <1>9, <1>u DEF OpJoins, OpRest
<1>10. CASE OpLocks("stop", "stopping")
  BY <1>10, <1>u DEF OpLocks, OpRest
<1>11. CASE OpLocks("posture", "posturing")
  BY <1>11, <1>u DEF OpLocks, OpRest
<1>12. CASE StopReturns
  BY <1>12, <1>u DEF StopReturns, OpRest, Called, Returned, OpEnds, Confirmed
<1>13. CASE PostureStopped
  BY <1>13, <1>u DEF PostureStopped, OpRest, Called, Returned, OpEnds, Confirmed
<1>14. CASE PostureReturns
  BY <1>14, <1>u DEF PostureReturns, OpRest, Called, Returned, OpEnds
<1>15. CASE CloseStopped
  BY <1>15, <1>u DEF CloseStopped, OpRest, Called, Returned
<1>16. CASE FinalStop
  BY <1>16
<1>17. CASE EndOwner
  <2>1. NoCall \in Entries /\ ~NoCall.halt /\ queue' = Append(queue, NoCall) /\ UNCHANGED
     <<current, halted>>
    BY <1>17, <1>t, QueueTypes DEF EndOwner, OpRest, Entries
  <2>2. /\ Len(queue') = Len(queue) + 1 /\ Len(queue) \in Nat
        /\ \A i \in 1..Len(queue) : queue'[i] = queue[i]
        /\ \A i \in 1..Len(queue') : i <= Len(queue) \/ queue'[i] = NoCall
    BY <2>1, Appended
  <2> QED
    BY <2>1, <2>2 DEF Halting
<1>18. CASE CloseReturns
  BY <1>18, <1>u DEF CloseReturns, OpRest, OpEnds
<1>19. ASSUME NEW c \in Callers, IsAnswered(c) PROVE Halting' => Halting
  BY <1>19, <1>u DEF IsAnswered, WaitRest, GivesUp
<1>20. ASSUME NEW c \in Callers, Expires(c) PROVE Halting' => Halting
  BY <1>20, <1>u DEF Expires, WaitRest
<1>21. ASSUME NEW c \in Callers, Cancels(c) PROVE Halting' => Halting
  <2>1. /\ UNCHANGED <<halted, current>>
        /\ \A i \in 1..Len(queue') : queue'[i] = queue[i] /\ i \in 1..Len(queue)
    BY <1>21 DEF Cancels, WaitRest
  <2> QED
    BY <2>1 DEF Halting
<1>22. ASSUME NEW c \in Callers, GivenUp(c) PROVE Halting' => Halting
  <2>1. /\ UNCHANGED halted /\ current'.halt = current.halt /\ Len(queue') = Len(queue)
        /\ \A i \in 1..Len(queue) : queue'[i].halt = queue[i].halt
    BY <1>22 DEF GivenUp, WaitRest
  <2> QED
    BY <2>1 DEF Halting
<1>23. CASE OwnerTakes
  <2>1. /\ Len(queue) \in Nat \ {0} /\ current' = queue[1] /\ 1 \in 1..Len(queue)
        /\ \A i \in 1..Len(queue') : queue'[i] = queue[i + 1] /\ i + 1 \in 1..Len(queue)
    BY <1>23, Taken
  <2>2. UNCHANGED halted
    BY <1>23 DEF OwnerTakes
  <2> QED
    BY <2>1, <2>2 DEF Halting
<1>24. CASE OwnerRefuses
  BY <1>24, <1>e DEF OwnerRefuses
<1>25. CASE process = "serving" /\ OwnerCalls
  <2>1. UNCHANGED <<queue, current>> /\ (halted' => halted \/ current.halt)
    BY <1>25 DEF OwnerCalls
  <2> QED
    BY <2>1 DEF Halting
<1>26. CASE OwnerReturns
  BY <1>26, <1>e DEF OwnerReturns
<1>27. CASE OwnerExits
  <2>1. Len(queue') = 0 /\ UNCHANGED <<current, halted>>
    BY <1>27 DEF OwnerExits
  <2> QED
    BY <2>1 DEF Halting
<1>28. CASE SdkReturns
  BY <1>28, <1>u DEF SdkReturns, Rest, Deliver
<1>29. CASE LeaseElapses
  BY <1>29, <1>u DEF LeaseElapses
<1>30. CASE StartMotion
  BY <1>30, <1>u DEF StartMotion, Admits, ReadyForMotion
<1>31. ASSUME NEW o \in {"posture", "stop", "close"}, OpBegins(o) PROVE Halting' => Halting
  BY <1>31, <1>u DEF OpBegins, Admits, ReadyForMotion
<1>32. CASE Serve
  BY <1>32, <1>u DEF Serve
<1>33. CASE Exit
  BY <1>33, <1>u DEF Exit
<1>34. CASE Restart
  <2>1. Len(queue') = 0 /\ current' = NoCall /\ ~halted'
    BY <1>34 DEF Restart
  <2> QED
    BY <2>1, <1>t, QueueTypes DEF Halting
<1> QED
  BY <1>1, <1>2, <1>3, <1>4, <1>5, <1>6, <1>7, <1>8, <1>9, <1>10, <1>11, <1>12, <1>13, <1>14,
     <1>15, <1>16, <1>17, <1>18, <1>19, <1>20, <1>21, <1>22, <1>23, <1>24, <1>25, <1>26, <1>27,
     <1>28, <1>29, <1>30, <1>31, <1>32, <1>33, <1>34, SubmitCases, WaitCases DEF Next,
     WorkerStep, OpStep, OwnerStep

\* After a halt nothing can move, when nothing is added, ...
LEMMA HaltOthers ==
    ASSUME IInv, Next, ~Adds, ~FinalStop
    PROVE  HaltInv'
<1> USE DEF IInv, opVars, leaseVars, lockVars, ownerVars, callVars, historyVars, Callers
<1>k. Halting' => Halting
  BY HaltingKept
<1>1. CASE OwnerInit
  BY <1>1, <1>k DEF OwnerInit, Rest, HaltInv, PlaceInv, TypeOK, ExecutorTypeOK, WaitsTypeOK
<1>2. CASE WorkerTests("begin", "loop")
  BY <1>2, <1>k DEF WorkerTests, WorkerRest, LeaseOver, HaltInv, PlaceInv, TypeOK,
     ExecutorTypeOK, WaitsTypeOK
<1>3. CASE WorkerTests("loop", "checked")
  BY <1>3, <1>k DEF WorkerTests, WorkerRest, LeaseOver, HaltInv, PlaceInv, TypeOK,
     ExecutorTypeOK, WaitsTypeOK
<1>4. CASE WorkerLocks
  BY <1>4, <1>k DEF WorkerLocks, WorkerRest, HaltInv, PlaceInv, TypeOK, ExecutorTypeOK,
     WaitsTypeOK
<1>5. CASE WorkerStops
  BY <1>5, <1>k DEF WorkerStops, WorkerRest, HaltInv, PlaceInv, TypeOK, ExecutorTypeOK,
     WaitsTypeOK
<1>6. ASSUME NEW c \in Callers, Queues(c) PROVE HaltInv'
  BY <1>6 DEF Adds
<1>7. ASSUME NEW c \in Callers, IsRefused(c) PROVE HaltInv'
  BY <1>7, <1>k DEF IsRefused, HaltInv, PlaceInv, TypeOK, ExecutorTypeOK, WaitsTypeOK
<1>8. CASE WorkerResumes
  BY <1>8, <1>k DEF WorkerResumes, HaltInv, PlaceInv, TypeOK, ExecutorTypeOK, WaitsTypeOK
<1>9. CASE OpJoins
  BY <1>9, <1>k DEF OpJoins, OpRest, HaltInv, PlaceInv, TypeOK, ExecutorTypeOK, WaitsTypeOK
<1>10. CASE OpLocks("stop", "stopping")
  BY <1>10, <1>k DEF OpLocks, OpRest, HaltInv, PlaceInv, TypeOK, ExecutorTypeOK, WaitsTypeOK
<1>11. CASE OpLocks("posture", "posturing")
  BY <1>11, <1>k DEF OpLocks, OpRest, HaltInv, PlaceInv, TypeOK, ExecutorTypeOK, WaitsTypeOK
<1>12. CASE StopReturns
  BY <1>12, <1>k DEF StopReturns, OpRest, Called, Returned, OpEnds, Confirmed, HaltInv, PlaceInv,
     TypeOK, ExecutorTypeOK, WaitsTypeOK
<1>13. CASE PostureStopped
  BY <1>13, <1>k DEF PostureStopped, OpRest, Called, Returned, OpEnds, Confirmed, HaltInv,
     PlaceInv, TypeOK, ExecutorTypeOK, WaitsTypeOK
<1>14. CASE PostureReturns
  BY <1>14, <1>k DEF PostureReturns, OpRest, Called, Returned, OpEnds, HaltInv, PlaceInv, TypeOK,
     ExecutorTypeOK, WaitsTypeOK
<1>15. CASE CloseStopped
  BY <1>15, <1>k DEF CloseStopped, OpRest, Called, Returned, HaltInv, PlaceInv, TypeOK,
     ExecutorTypeOK, WaitsTypeOK
<1>16. CASE FinalStop
  BY <1>16
<1>17. CASE EndOwner
  <2>1. /\ UNCHANGED <<ready, op, worker, stopEvent, sent>> /\ (halted' <=> halted)
        /\ opAt' = opAt \/ (opAt = "final" /\ opAt' = "ending")
    BY <1>17 DEF EndOwner, OpRest, Called, Returned
  <2> QED
    BY <2>1, <1>k DEF HaltInv, TypeOK, ExecutorTypeOK
<1>18. CASE CloseReturns
  BY <1>18, <1>k DEF CloseReturns, OpRest, OpEnds, HaltInv, PlaceInv, TypeOK, ExecutorTypeOK,
     WaitsTypeOK
<1>19. ASSUME NEW c \in Callers, IsAnswered(c) PROVE HaltInv'
  <2>1. /\ UNCHANGED <<ready, op, worker, stopEvent, sent>> /\ (halted' <=> halted)
        /\ opAt' = opAt \/ (opAt = "final" /\ opAt' = "ending")
    BY <1>19 DEF IsAnswered, WaitRest, GivesUp
  <2> QED
    BY <2>1, <1>k DEF HaltInv, TypeOK, ExecutorTypeOK
<1>20. ASSUME NEW c \in Callers, Expires(c) PROVE HaltInv'
  BY <1>20, <1>k DEF Expires, WaitRest, HaltInv, PlaceInv, TypeOK, ExecutorTypeOK, WaitsTypeOK
<1>21. ASSUME NEW c \in Callers, Cancels(c) PROVE HaltInv'
  <2>1. /\ UNCHANGED <<ready, op, worker, stopEvent, sent>> /\ (halted' <=> halted)
        /\ opAt' = opAt \/ (opAt = "final" /\ opAt' = "ending")
    BY <1>21 DEF Cancels, WaitRest, GivesUp
  <2> QED
    BY <2>1, <1>k DEF HaltInv, TypeOK, ExecutorTypeOK
<1>22. ASSUME NEW c \in Callers, GivenUp(c) PROVE HaltInv'
  <2>1. /\ UNCHANGED <<ready, op, worker, stopEvent, sent>> /\ (halted' <=> halted)
        /\ opAt' = opAt \/ (opAt = "final" /\ opAt' = "ending")
    BY <1>22 DEF GivenUp, WaitRest, GivesUp
  <2> QED
    BY <2>1, <1>k DEF HaltInv, TypeOK, ExecutorTypeOK
<1>23. CASE OwnerTakes
  <2>1. /\ UNCHANGED <<ready, op, worker, stopEvent, sent>> /\ (halted' <=> halted)
        /\ opAt' = opAt \/ (opAt = "final" /\ opAt' = "ending")
    BY <1>23 DEF OwnerTakes, Rest, Deliver
  <2> QED
    BY <2>1, <1>k DEF HaltInv, TypeOK, ExecutorTypeOK
<1>24. CASE OwnerRefuses
  <2>1. /\ UNCHANGED <<ready, op, worker, stopEvent, sent>> /\ (halted' <=> halted)
        /\ opAt' = opAt \/ (opAt = "final" /\ opAt' = "ending")
    BY <1>24 DEF OwnerRefuses, Rest, Deliver, Motion
  <2> QED
    BY <2>1, <1>k DEF HaltInv, TypeOK, ExecutorTypeOK
<1>25. CASE process = "serving" /\ OwnerCalls
  <2>1. UNCHANGED <<ready, op, opAt, worker, stopEvent>> /\ sent' = current.method
        /\ owner = "taken" /\ (halted' => halted \/ current.halt)
    BY <1>25 DEF OwnerCalls, Rest
  <2>2. halted' => current.method = "StopMove"
    <3>1. halted' => current.method \notin Motions
      BY <2>1 DEF OrderInv, Motions
    <3>2. current.method \in Methods
      BY <2>1, QueueTypes DEF OwnerInv, Entries
    <3> QED
      BY <3>1, <3>2 DEF Motions, Methods
  <2> QED
    BY <2>1, <2>2, <1>k DEF HaltInv
<1>26. CASE OwnerReturns
  <2>1. /\ UNCHANGED <<ready, op, worker, stopEvent, sent>> /\ (halted' <=> halted)
        /\ opAt' = opAt \/ (opAt = "final" /\ opAt' = "ending")
    BY <1>26 DEF OwnerReturns, Rest, Motion
  <2> QED
    BY <2>1, <1>k DEF HaltInv, TypeOK, ExecutorTypeOK
<1>27. CASE OwnerExits
  <2>1. /\ UNCHANGED <<ready, op, worker, stopEvent, sent>> /\ (halted' <=> halted)
        /\ opAt' = opAt \/ (opAt = "final" /\ opAt' = "ending")
    BY <1>27 DEF OwnerExits, Rest
  <2> QED
    BY <2>1, <1>k DEF HaltInv, TypeOK, ExecutorTypeOK
<1>28. CASE SdkReturns
  <2>1. /\ UNCHANGED <<ready, op, worker, stopEvent, sent>> /\ (halted' <=> halted)
        /\ opAt' = opAt \/ (opAt = "final" /\ opAt' = "ending")
    BY <1>28 DEF SdkReturns, Rest, Deliver
  <2> QED
    BY <2>1, <1>k DEF HaltInv, TypeOK, ExecutorTypeOK
<1>29. CASE LeaseElapses
  BY <1>29, <1>k DEF LeaseElapses, HaltInv, PlaceInv, TypeOK, ExecutorTypeOK, WaitsTypeOK
<1>30. CASE StartMotion
  BY <1>30, <1>k DEF StartMotion, Admits, ReadyForMotion, HaltInv, PlaceInv, TypeOK,
     ExecutorTypeOK, WaitsTypeOK
<1>31. ASSUME NEW o \in {"posture", "stop", "close"}, OpBegins(o) PROVE HaltInv'
  BY <1>31, <1>k DEF OpBegins, Admits, ReadyForMotion, HaltInv, PlaceInv, TypeOK, ExecutorTypeOK,
     WaitsTypeOK
<1>32. CASE Serve
  BY <1>32, <1>k DEF Serve, HaltInv, PlaceInv, TypeOK, ExecutorTypeOK, WaitsTypeOK
<1>33. CASE Exit
  BY <1>33, <1>k DEF Exit, HaltInv, PlaceInv, TypeOK, ExecutorTypeOK, WaitsTypeOK
<1>34. CASE Restart
  <2>1. worker' = "none" /\ opAt' = "out" /\ current' = NoCall /\ Len(queue') = 0 /\ ~halted'
    BY <1>34 DEF Restart
  <2>2. ~Halting'
    BY <2>1, QueueTypes DEF Halting
  <2> QED
    BY <2>1, <2>2 DEF HaltInv
<1> QED
  BY <1>1, <1>2, <1>3, <1>4, <1>5, <1>6, <1>7, <1>8, <1>9, <1>10, <1>11, <1>12, <1>13, <1>14,
     <1>15, <1>16, <1>17, <1>18, <1>19, <1>20, <1>21, <1>22, <1>23, <1>24, <1>25, <1>26, <1>27,
     <1>28, <1>29, <1>30, <1>31, <1>32, <1>33, <1>34, SubmitCases, WaitCases DEF Next,
     WorkerStep, OpStep, OwnerStep

\* ... and when something is.
LEMMA HaltStep ==
    ASSUME IInv, Next
    PROVE  HaltInv'
<1> USE DEF IInv, opVars, leaseVars, historyVars
<1>1. CASE ~Adds /\ ~FinalStop
  BY <1>1, HaltOthers
<1>2. ASSUME NEW c \in Callers, Queues(c) PROVE HaltInv'
  <2>1. /\ UNCHANGED <<ready, op, opAt, worker, stopEvent, sent, halted, current>>
        /\ Pushed(MethodOf(c), c, HaltOf(c)) /\ waiting[c] = "entering"
    BY <1>2 DEF Queues
  <2>2. Halting' => Halting \/ HaltOf(c)
    BY <2>1 DEF Pushed, Halting
  <2>3. HaltOf(c) => opAt = "stopping" /\ op \in {"stop", "close"}
    BY <2>1 DEF HaltOf, PlaceInv
  <2>4. HaltOf(c) => worker # "moving" /\ stopEvent
    BY <2>3 DEF HaltInv, PlaceInv
  <2> QED
    BY <2>1, <2>2, <2>3, <2>4 DEF HaltInv
<1>3. CASE FinalStop
  <2>1. /\ UNCHANGED <<ready, op, worker, stopEvent, sent, halted>>
        /\ opAt = "close" /\ opAt' = "final"
    BY <1>3 DEF FinalStop, OpRest
  <2>2. op = "close" /\ stopEvent /\ worker # "moving" /\ ~ready
    BY <2>1 DEF HaltInv, PlaceInv
  <2> QED
    BY <2>1, <2>2 DEF HaltInv
<1> QED
  BY <1>1, <1>2, <1>3 DEF Adds

\* No motion comes behind a halt.
LEMMA OrderStep ==
    ASSUME IInv, Next
    PROVE  OrderInv'
<1> USE DEF IInv, opVars, leaseVars, lockVars, ownerVars, callVars, historyVars, Callers
<1>t. TypeOK
  OBVIOUS
<1>u. ASSUME UNCHANGED <<queue, current, halted>> PROVE OrderInv'
  BY <1>u DEF OrderInv
<1>e. ASSUME UNCHANGED <<queue, halted>>, current' = NoCall PROVE OrderInv'
  BY <1>e, <1>t, QueueTypes DEF OrderInv, Motions
<1>z. ASSUME Len(queue') = 0, ~current'.halt, halted' => current'.method \notin Motions
      PROVE  OrderInv'
  BY <1>z DEF OrderInv
<1>1. CASE OwnerInit
  BY <1>1, <1>u DEF OwnerInit, Rest
<1>2. CASE WorkerTests("begin", "loop")
  BY <1>2, <1>u DEF WorkerTests, WorkerRest, LeaseOver
<1>3. CASE WorkerTests("loop", "checked")
  BY <1>3, <1>u DEF WorkerTests, WorkerRest, LeaseOver
<1>4. CASE WorkerLocks
  BY <1>4, <1>u DEF WorkerLocks, WorkerRest
<1>5. CASE WorkerStops
  BY <1>5, <1>u DEF WorkerStops, WorkerRest
<1>6. ASSUME NEW c \in Callers, Queues(c) PROVE OrderInv'
  <2>1. /\ UNCHANGED current /\ (halted' <=> halted)
        /\ Pushed(MethodOf(c), c, HaltOf(c)) /\ waiting[c] = "entering"
    BY <1>6 DEF Queues
  <2>2. HaltOf(c) => MethodOf(c) = "StopMove"
    BY <2>1 DEF HaltOf, MethodOf, PlaceInv
  <2>3. Halting => MethodOf(c) \notin Motions
    BY DEF HaltInv, Halting, MethodOf, PlaceInv, Motions
  <2>4. \A i \in 1..Len(queue) : queue'[i] = queue[i]
    BY <2>1 DEF Pushed
  <2>5. /\ queue'[Len(queue')].method = MethodOf(c) /\ (queue'[Len(queue')].halt <=> HaltOf(c))
        /\ \A i \in 1..Len(queue') : i \in 1..Len(queue) \/ i = Len(queue')
        /\ Len(queue') = Len(queue) + 1 /\ Len(queue) \in Nat
    BY <2>1 DEF Pushed
  <2>6. "StopMove" \notin Motions
    BY DEF Motions
  <2> SUFFICES ASSUME NEW i \in 1..Len(queue')
               PROVE  /\ queue'[i].halt => queue'[i].method = "StopMove"
                      /\ halted \/ current.halt => queue'[i].method \notin Motions
                      /\ \A j \in 1..i : queue'[j].halt => queue'[i].method \notin Motions
    BY <2>1 DEF OrderInv
  <2>7. CASE i \in 1..Len(queue)
    BY <2>4, <2>7 DEF OrderInv
  <2>8. CASE i = Len(queue')
    <3>1. ASSUME NEW j \in 1..i, queue'[j].halt PROVE queue'[i].method \notin Motions
      <4>1. CASE j = Len(queue')
        BY <3>1, <4>1, <2>8, <2>2, <2>5, <2>6
      <4>2. CASE j \in 1..Len(queue)
        BY <3>1, <4>2, <2>8, <2>3, <2>4, <2>5 DEF Halting
      <4> QED
        BY <4>1, <4>2, <2>5, <2>8
    <3> QED
      BY <3>1, <2>8, <2>2, <2>3, <2>5 DEF Halting
  <2> QED
    BY <2>5, <2>7, <2>8
<1>7. ASSUME NEW c \in Callers, IsRefused(c) PROVE OrderInv'
  BY <1>7, <1>u DEF IsRefused
<1>8. CASE WorkerResumes
  BY <1>8, <1>u DEF WorkerResumes
<1>9. CASE OpJoins
  BY <1>9, <1>u DEF OpJoins, OpRest
<1>10. CASE OpLocks("stop", "stopping")
  BY <1>10, <1>u DEF OpLocks, OpRest
<1>11. CASE OpLocks("posture", "posturing")
  BY <1>11, <1>u DEF OpLocks, OpRest
<1>12. CASE StopReturns
  BY <1>12, <1>u DEF StopReturns, OpRest, Called, Returned, OpEnds, Confirmed
<1>13. CASE PostureStopped
  BY <1>13, <1>u DEF PostureStopped, OpRest, Called, Returned, OpEnds, Confirmed
<1>14. CASE PostureReturns
  BY <1>14, <1>u DEF PostureReturns, OpRest, Called, Returned, OpEnds
<1>15. CASE CloseStopped
  BY <1>15, <1>u DEF CloseStopped, OpRest, Called, Returned
<1>16. CASE FinalStop
  <2>1. Pushed("StopMove", "op", TRUE) /\ UNCHANGED current /\ (halted' <=> halted)
    BY <1>16, FinalPushed DEF FinalStop, OpRest
  <2>2. /\ UNCHANGED current /\ (halted' <=> halted)
        /\ Len(queue) \in Nat /\ Len(queue') = Len(queue) + 1
        /\ \A i \in 1..Len(queue) : queue'[i] = queue[i]
        /\ \A i \in 1..Len(queue') : i \in 1..Len(queue) \/ i = Len(queue')
        /\ queue'[Len(queue')].method \notin Motions
        /\ queue'[Len(queue')].halt => queue'[Len(queue')].method = "StopMove"
    BY <2>1 DEF Pushed, Motions
  <2> SUFFICES ASSUME NEW i \in 1..Len(queue')
               PROVE  /\ queue'[i].halt => queue'[i].method = "StopMove"
                      /\ halted \/ current.halt => queue'[i].method \notin Motions
                      /\ \A j \in 1..i : queue'[j].halt => queue'[i].method \notin Motions
    BY <2>2 DEF OrderInv
  <2>3. CASE i \in 1..Len(queue)
    BY <2>2, <2>3 DEF OrderInv
  <2>4. CASE i = Len(queue')
    BY <2>2, <2>4
  <2> QED
    BY <2>2, <2>3, <2>4
<1>17. CASE EndOwner
  <2>1. /\ NoCall \in Entries /\ ~NoCall.halt /\ NoCall.method \notin Motions
        /\ queue' = Append(queue, NoCall) /\ UNCHANGED current /\ (halted' <=> halted)
    BY <1>17, <1>t, QueueTypes DEF EndOwner, OpRest, Entries, Motions
  <2>2. /\ UNCHANGED current /\ (halted' <=> halted)
        /\ Len(queue) \in Nat /\ Len(queue') = Len(queue) + 1
        /\ \A i \in 1..Len(queue) : queue'[i] = queue[i]
        /\ \A i \in 1..Len(queue') : i \in 1..Len(queue) \/ i = Len(queue')
        /\ queue'[Len(queue')].method \notin Motions
        /\ queue'[Len(queue')].halt => queue'[Len(queue')].method = "StopMove"
    BY <2>1, Appended
  <2> SUFFICES ASSUME NEW i \in 1..Len(queue')
               PROVE  /\ queue'[i].halt => queue'[i].method = "StopMove"
                      /\ halted \/ current.halt => queue'[i].method \notin Motions
                      /\ \A j \in 1..i : queue'[j].halt => queue'[i].method \notin Motions
    BY <2>2 DEF OrderInv
  <2>3. CASE i \in 1..Len(queue)
    BY <2>2, <2>3 DEF OrderInv
  <2>4. CASE i = Len(queue')
    BY <2>2, <2>4
  <2> QED
    BY <2>2, <2>3, <2>4
<1>18. CASE CloseReturns
  BY <1>18, <1>u DEF CloseReturns, OpRest, OpEnds
<1>19. ASSUME NEW c \in Callers, IsAnswered(c) PROVE OrderInv'
  BY <1>19, <1>u DEF IsAnswered, WaitRest, GivesUp
<1>20. ASSUME NEW c \in Callers, Expires(c) PROVE OrderInv'
  BY <1>20, <1>u DEF Expires, WaitRest
<1>21. ASSUME NEW c \in Callers, Cancels(c) PROVE OrderInv'
  <2>1. /\ UNCHANGED current /\ (halted' <=> halted) /\ Len(queue') \in Nat
        /\ \A i \in 1..Len(queue') : queue'[i] = queue[i] /\ i \in 1..Len(queue)
    BY <1>21 DEF Cancels, WaitRest
  <2>2. \A i \in 1..Len(queue') : \A j \in 1..i : j \in 1..Len(queue')
    BY <2>1
  <2> QED
    BY <2>1, <2>2 DEF OrderInv
<1>22. ASSUME NEW c \in Callers, GivenUp(c) PROVE OrderInv'
  <2>1. /\ (halted' <=> halted) /\ Len(queue') = Len(queue) /\ Len(queue) \in Nat
        /\ current'.halt = current.halt /\ current'.method = current.method
        /\ \A i \in 1..Len(queue) : queue'[i].halt = queue[i].halt /\ queue'[i].method =
           queue[i].method
    BY <1>22 DEF GivenUp, WaitRest
  <2>2. \A i \in 1..Len(queue) : \A j \in 1..i : j \in 1..Len(queue)
    BY <2>1
  <2> QED
    BY <2>1, <2>2 DEF OrderInv
<1>23. CASE OwnerTakes
  <2>1. /\ Len(queue) \in Nat \ {0} /\ current' = queue[1] /\ 1 \in 1..Len(queue)
        /\ Len(queue') \in Nat
        /\ \A i \in 1..Len(queue') : queue'[i] = queue[i + 1] /\ i + 1 \in 1..Len(queue)
    BY <1>23, Taken
  <2>2. halted' <=> halted
    BY <1>23 DEF OwnerTakes
  <2>3. \A i \in 1..Len(queue') :
           /\ 1 \in 1..(i + 1)
           /\ \A j \in 1..i : j + 1 \in 1..(i + 1) /\ j \in 1..Len(queue')
    BY <2>1
  <2>4. /\ current'.halt => current'.method = "StopMove"
        /\ halted' => current'.method \notin Motions
    BY <2>1, <2>2 DEF OrderInv
  <2> SUFFICES ASSUME NEW i \in 1..Len(queue')
               PROVE  /\ queue'[i].halt => queue'[i].method = "StopMove"
                      /\ halted' \/ current'.halt => queue'[i].method \notin Motions
                      /\ \A j \in 1..i : queue'[j].halt => queue'[i].method \notin Motions
    BY <2>4 DEF OrderInv
  <2>5. /\ queue'[i] = queue[i + 1] /\ i + 1 \in 1..Len(queue) /\ 1 \in 1..(i + 1)
        /\ \A j \in 1..i : queue'[j] = queue[j + 1] /\ j + 1 \in 1..(i + 1)
    BY <2>1, <2>3
  <2> QED
    BY <2>1, <2>2, <2>5 DEF OrderInv
<1>24. CASE OwnerRefuses
  BY <1>24, <1>e DEF OwnerRefuses
<1>25. CASE process = "serving" /\ OwnerCalls
  <2>1. UNCHANGED <<queue, current>> /\ (halted' <=> halted \/ current.halt)
    BY <1>25 DEF OwnerCalls
  <2>2. "StopMove" \notin Motions
    BY DEF Motions
  <2> QED
    BY <2>1, <2>2 DEF OrderInv
<1>26. CASE OwnerReturns
  BY <1>26, <1>e DEF OwnerReturns
<1>27. CASE OwnerExits
  <2>1. Len(queue') = 0 /\ owner = "idle" /\ UNCHANGED current
    BY <1>27 DEF OwnerExits
  <2>2. current = NoCall
    BY <2>1 DEF OwnerInv
  <2> QED
    BY <2>1, <2>2, <1>t, <1>z, QueueTypes DEF Motions
<1>28. CASE SdkReturns
  BY <1>28, <1>u DEF SdkReturns, Rest, Deliver
<1>29. CASE LeaseElapses
  BY <1>29, <1>u DEF LeaseElapses
<1>30. CASE StartMotion
  BY <1>30, <1>u DEF StartMotion, Admits, ReadyForMotion
<1>31. ASSUME NEW o \in {"posture", "stop", "close"}, OpBegins(o) PROVE OrderInv'
  BY <1>31, <1>u DEF OpBegins, Admits, ReadyForMotion
<1>32. CASE Serve
  BY <1>32, <1>u DEF Serve
<1>33. CASE Exit
  BY <1>33, <1>u DEF Exit
<1>34. CASE Restart
  <2>1. Len(queue') = 0 /\ current' = NoCall /\ ~halted'
    BY <1>34 DEF Restart
  <2> QED
    BY <2>1, <1>t, <1>z, QueueTypes DEF Motions
<1> QED
  BY <1>1, <1>2, <1>3, <1>4, <1>5, <1>6, <1>7, <1>8, <1>9, <1>10, <1>11, <1>12, <1>13, <1>14,
     <1>15, <1>16, <1>17, <1>18, <1>19, <1>20, <1>21, <1>22, <1>23, <1>24, <1>25, <1>26, <1>27,
     <1>28, <1>29, <1>30, <1>31, <1>32, <1>33, <1>34, SubmitCases, WaitCases DEF Next,
     WorkerStep, OpStep, OwnerStep

\* The last StopMove is made, or the transport known to be faulted.
LEMMA FinalStep ==
    ASSUME IInv, Next
    PROVE  FinalInv'
<1> USE DEF IInv, opVars, leaseVars, lockVars, ownerVars, callVars, historyVars, Callers
<1>t. TypeOK
  OBVIOUS
<1>u. ASSUME halted => halted', faulted => faulted',
             opAt' = "final" /\ ~Waits("op")' => (opAt = "final" /\ ~Waits("op")) \/ halted' \/ faulted',
             opAt' = "ending" \/ closed' = "closed" => opAt = "ending" \/ closed = "closed" \/ halted' \/ faulted',
             process' = "exited" => process = "exited" /\ UNCHANGED sent
      PROVE  FinalInv'
  BY <1>u DEF FinalInv, ExitSafe
<1>1. CASE OwnerInit
  <2>1. /\ halted' <=> halted
        /\ faulted => faulted'
        /\ opAt' = "final" /\ ~Waits("op")' =>
              (opAt = "final" /\ ~Waits("op")) \/ halted' \/ faulted'
        /\ opAt' = "ending" \/ closed' = "closed" =>
              opAt = "ending" \/ closed = "closed" \/ halted' \/ faulted'
        /\ process' = "exited" => process = "exited" /\ UNCHANGED sent
    BY <1>1 DEF OwnerInit, Rest, Waits, PlaceInv, TypeOK, ExecutorTypeOK, WaitsTypeOK
  <2> QED
    BY <2>1, <1>u
<1>2. CASE WorkerTests("begin", "loop")
  <2>1. /\ halted' <=> halted
        /\ faulted => faulted'
        /\ opAt' = "final" /\ ~Waits("op")' =>
              (opAt = "final" /\ ~Waits("op")) \/ halted' \/ faulted'
        /\ opAt' = "ending" \/ closed' = "closed" =>
              opAt = "ending" \/ closed = "closed" \/ halted' \/ faulted'
        /\ process' = "exited" => process = "exited" /\ UNCHANGED sent
    BY <1>2 DEF WorkerTests, WorkerRest, LeaseOver, Waits, PlaceInv, TypeOK, ExecutorTypeOK,
       WaitsTypeOK
  <2> QED
    BY <2>1, <1>u
<1>3. CASE WorkerTests("loop", "checked")
  <2>1. /\ halted' <=> halted
        /\ faulted => faulted'
        /\ opAt' = "final" /\ ~Waits("op")' =>
              (opAt = "final" /\ ~Waits("op")) \/ halted' \/ faulted'
        /\ opAt' = "ending" \/ closed' = "closed" =>
              opAt = "ending" \/ closed = "closed" \/ halted' \/ faulted'
        /\ process' = "exited" => process = "exited" /\ UNCHANGED sent
    BY <1>3 DEF WorkerTests, WorkerRest, LeaseOver, Waits, PlaceInv, TypeOK, ExecutorTypeOK,
       WaitsTypeOK
  <2> QED
    BY <2>1, <1>u
<1>4. CASE WorkerLocks
  <2>1. /\ halted' <=> halted
        /\ faulted => faulted'
        /\ opAt' = "final" /\ ~Waits("op")' =>
              (opAt = "final" /\ ~Waits("op")) \/ halted' \/ faulted'
        /\ opAt' = "ending" \/ closed' = "closed" =>
              opAt = "ending" \/ closed = "closed" \/ halted' \/ faulted'
        /\ process' = "exited" => process = "exited" /\ UNCHANGED sent
    BY <1>4 DEF WorkerLocks, WorkerRest, Waits, PlaceInv, TypeOK, ExecutorTypeOK, WaitsTypeOK
  <2> QED
    BY <2>1, <1>u
<1>5. CASE WorkerStops
  <2>1. /\ halted' <=> halted
        /\ faulted => faulted'
        /\ opAt' = "final" /\ ~Waits("op")' =>
              (opAt = "final" /\ ~Waits("op")) \/ halted' \/ faulted'
        /\ opAt' = "ending" \/ closed' = "closed" =>
              opAt = "ending" \/ closed = "closed" \/ halted' \/ faulted'
        /\ process' = "exited" => process = "exited" /\ UNCHANGED sent
    BY <1>5 DEF WorkerStops, WorkerRest, Waits, PlaceInv, TypeOK, ExecutorTypeOK, WaitsTypeOK
  <2> QED
    BY <2>1, <1>u
<1>6. ASSUME NEW c \in Callers, Queues(c) PROVE FinalInv'
  <2>1. /\ (halted' <=> halted) /\ UNCHANGED <<closed, opAt, process, sent, faulted>>
        /\ waiting' = [waiting EXCEPT ![c] = "waiting"]
    BY <1>6 DEF Queues
  <2>2. Waits("op") => Waits("op")'
    BY <2>1 DEF Waits, TypeOK, WaitsTypeOK
  <2> QED
    BY <2>1, <2>2, <1>u
<1>7. ASSUME NEW c \in Callers, IsRefused(c) PROVE FinalInv'
  <2>1. /\ halted' <=> halted
        /\ faulted => faulted'
        /\ opAt' = "final" /\ ~Waits("op")' =>
              (opAt = "final" /\ ~Waits("op")) \/ halted' \/ faulted'
        /\ opAt' = "ending" \/ closed' = "closed" =>
              opAt = "ending" \/ closed = "closed" \/ halted' \/ faulted'
        /\ process' = "exited" => process = "exited" /\ UNCHANGED sent
    BY <1>7 DEF IsRefused, Waits, PlaceInv, TypeOK, ExecutorTypeOK, WaitsTypeOK
  <2> QED
    BY <2>1, <1>u
<1>8. CASE WorkerResumes
  <2>1. /\ halted' <=> halted
        /\ faulted => faulted'
        /\ opAt' = "final" /\ ~Waits("op")' =>
              (opAt = "final" /\ ~Waits("op")) \/ halted' \/ faulted'
        /\ opAt' = "ending" \/ closed' = "closed" =>
              opAt = "ending" \/ closed = "closed" \/ halted' \/ faulted'
        /\ process' = "exited" => process = "exited" /\ UNCHANGED sent
    BY <1>8 DEF WorkerResumes, Waits, PlaceInv, TypeOK, ExecutorTypeOK, WaitsTypeOK
  <2> QED
    BY <2>1, <1>u
<1>9. CASE OpJoins
  <2>1. /\ halted' <=> halted
        /\ faulted => faulted'
        /\ opAt' = "final" /\ ~Waits("op")' =>
              (opAt = "final" /\ ~Waits("op")) \/ halted' \/ faulted'
        /\ opAt' = "ending" \/ closed' = "closed" =>
              opAt = "ending" \/ closed = "closed" \/ halted' \/ faulted'
        /\ process' = "exited" => process = "exited" /\ UNCHANGED sent
    BY <1>9 DEF OpJoins, OpRest, Waits, PlaceInv, TypeOK, ExecutorTypeOK, WaitsTypeOK
  <2> QED
    BY <2>1, <1>u
<1>10. CASE OpLocks("stop", "stopping")
  <2>1. /\ halted' <=> halted
        /\ faulted => faulted'
        /\ opAt' = "final" /\ ~Waits("op")' =>
              (opAt = "final" /\ ~Waits("op")) \/ halted' \/ faulted'
        /\ opAt' = "ending" \/ closed' = "closed" =>
              opAt = "ending" \/ closed = "closed" \/ halted' \/ faulted'
        /\ process' = "exited" => process = "exited" /\ UNCHANGED sent
    BY <1>10 DEF OpLocks, OpRest, Waits, PlaceInv, TypeOK, ExecutorTypeOK, WaitsTypeOK
  <2> QED
    BY <2>1, <1>u
<1>11. CASE OpLocks("posture", "posturing")
  <2>1. /\ halted' <=> halted
        /\ faulted => faulted'
        /\ opAt' = "final" /\ ~Waits("op")' =>
              (opAt = "final" /\ ~Waits("op")) \/ halted' \/ faulted'
        /\ opAt' = "ending" \/ closed' = "closed" =>
              opAt = "ending" \/ closed = "closed" \/ halted' \/ faulted'
        /\ process' = "exited" => process = "exited" /\ UNCHANGED sent
    BY <1>11 DEF OpLocks, OpRest, Waits, PlaceInv, TypeOK, ExecutorTypeOK, WaitsTypeOK
  <2> QED
    BY <2>1, <1>u
<1>12. CASE StopReturns
  <2>1. /\ halted' <=> halted
        /\ faulted => faulted'
        /\ opAt' = "final" /\ ~Waits("op")' =>
              (opAt = "final" /\ ~Waits("op")) \/ halted' \/ faulted'
        /\ opAt' = "ending" \/ closed' = "closed" =>
              opAt = "ending" \/ closed = "closed" \/ halted' \/ faulted'
        /\ process' = "exited" => process = "exited" /\ UNCHANGED sent
    BY <1>12 DEF StopReturns, OpRest, Called, Returned, OpEnds, Confirmed, Waits, PlaceInv,
       TypeOK, ExecutorTypeOK, WaitsTypeOK
  <2> QED
    BY <2>1, <1>u
<1>13. CASE PostureStopped
  <2>1. /\ halted' <=> halted
        /\ faulted => faulted'
        /\ opAt' = "final" /\ ~Waits("op")' =>
              (opAt = "final" /\ ~Waits("op")) \/ halted' \/ faulted'
        /\ opAt' = "ending" \/ closed' = "closed" =>
              opAt = "ending" \/ closed = "closed" \/ halted' \/ faulted'
        /\ process' = "exited" => process = "exited" /\ UNCHANGED sent
    BY <1>13 DEF PostureStopped, OpRest, Called, Returned, OpEnds, Confirmed, Waits, PlaceInv,
       TypeOK, ExecutorTypeOK, WaitsTypeOK
  <2> QED
    BY <2>1, <1>u
<1>14. CASE PostureReturns
  <2>1. /\ halted' <=> halted
        /\ faulted => faulted'
        /\ opAt' = "final" /\ ~Waits("op")' =>
              (opAt = "final" /\ ~Waits("op")) \/ halted' \/ faulted'
        /\ opAt' = "ending" \/ closed' = "closed" =>
              opAt = "ending" \/ closed = "closed" \/ halted' \/ faulted'
        /\ process' = "exited" => process = "exited" /\ UNCHANGED sent
    BY <1>14 DEF PostureReturns, OpRest, Called, Returned, OpEnds, Waits, PlaceInv, TypeOK,
       ExecutorTypeOK, WaitsTypeOK
  <2> QED
    BY <2>1, <1>u
<1>15. CASE CloseStopped
  <2>1. /\ halted' <=> halted
        /\ faulted => faulted'
        /\ opAt' = "final" /\ ~Waits("op")' =>
              (opAt = "final" /\ ~Waits("op")) \/ halted' \/ faulted'
        /\ opAt' = "ending" \/ closed' = "closed" =>
              opAt = "ending" \/ closed = "closed" \/ halted' \/ faulted'
        /\ process' = "exited" => process = "exited" /\ UNCHANGED sent
    BY <1>15 DEF CloseStopped, OpRest, Called, Returned, Waits, PlaceInv, TypeOK, ExecutorTypeOK,
       WaitsTypeOK
  <2> QED
    BY <2>1, <1>u
<1>16. CASE FinalStop
  <2>1. /\ (halted' <=> halted) /\ opAt' = "final"
        /\ UNCHANGED <<closed, process, sent, faulted>>
        /\ waiting' = [waiting EXCEPT !["op"] = "waiting"]
    BY <1>16 DEF FinalStop, OpRest
  <2>2. Waits("op")'
    BY <2>1 DEF Waits, TypeOK, WaitsTypeOK
  <2> QED
    BY <2>1, <2>2, <1>u
<1>17. CASE EndOwner
  <2>1. /\ (halted' <=> halted) /\ UNCHANGED <<closed, process, sent, faulted>>
        /\ opAt' = "ending" /\ opAt = "final" /\ ~Waits("op")
    BY <1>17 DEF EndOwner, OpRest, Called, Waits
  <2> QED
    BY <2>1, <1>u DEF FinalInv
<1>18. CASE CloseReturns
  <2>1. /\ halted' <=> halted
        /\ faulted => faulted'
        /\ opAt' = "final" /\ ~Waits("op")' =>
              (opAt = "final" /\ ~Waits("op")) \/ halted' \/ faulted'
        /\ opAt' = "ending" \/ closed' = "closed" =>
              opAt = "ending" \/ closed = "closed" \/ halted' \/ faulted'
        /\ process' = "exited" => process = "exited" /\ UNCHANGED sent
    BY <1>18 DEF CloseReturns, OpRest, OpEnds, Waits, PlaceInv, TypeOK, ExecutorTypeOK,
       WaitsTypeOK
  <2> QED
    BY <2>1, <1>u
<1>19. ASSUME NEW c \in Callers, IsAnswered(c) PROVE FinalInv'
  <2>1. /\ (halted' <=> halted) /\ UNCHANGED <<faulted, opAt, closed, process, sent>>
        /\ waiting' = [waiting EXCEPT ![c] = future[c]] /\ Waits(c) /\ future[c] \in {"ok",
           "bad"}
    BY <1>19 DEF IsAnswered, WaitRest
  <2>2. CASE c = "worker"
    <3>1. Waits("op")' <=> Waits("op")
      BY <2>1, <2>2 DEF Waits
    <3> QED
      BY <2>1, <3>1, <1>u
  <2>3. CASE c = "op" /\ opAt = "final"
    <3>1. op = "close" /\ MethodOf("op") = "StopMove" /\ HaltOf("op")
      BY <2>3 DEF PlaceInv, MethodOf, HaltOf
    <3>2. Done("op")
      BY <2>1, <2>3 DEF FutureInv, InQueue, InHand
    <3> QED
      BY <2>1, <3>1, <3>2, <1>u DEF Done
  <2>4. CASE opAt # "final"
    BY <2>1, <2>4, <1>u
  <2> QED
    BY <2>2, <2>3, <2>4 DEF Callers
<1>20. ASSUME NEW c \in Callers, Expires(c) PROVE FinalInv'
  <2>1. /\ halted' <=> halted
        /\ faulted => faulted'
        /\ opAt' = "final" /\ ~Waits("op")' =>
              (opAt = "final" /\ ~Waits("op")) \/ halted' \/ faulted'
        /\ opAt' = "ending" \/ closed' = "closed" =>
              opAt = "ending" \/ closed = "closed" \/ halted' \/ faulted'
        /\ process' = "exited" => process = "exited" /\ UNCHANGED sent
    BY <1>20 DEF Expires, WaitRest, Waits, PlaceInv, TypeOK, ExecutorTypeOK, WaitsTypeOK
  <2> QED
    BY <2>1, <1>u
<1>21. ASSUME NEW c \in Callers, Cancels(c) PROVE FinalInv'
  <2>1. /\ (halted' <=> halted) /\ UNCHANGED <<faulted, opAt, closed, process, sent>>
        /\ waiting' = [waiting EXCEPT ![c] = "bad"] /\ MethodOf(c) # "StopMove"
    BY <1>21 DEF Cancels, WaitRest
  <2>2. CASE c = "worker"
    <3>1. Waits("op")' <=> Waits("op")
      BY <2>1, <2>2 DEF Waits
    <3> QED
      BY <2>1, <3>1, <1>u
  <2>3. CASE c = "op"
    BY <2>1, <2>3, <1>u DEF MethodOf
  <2> QED
    BY <2>2, <2>3 DEF Callers
<1>22. ASSUME NEW c \in Callers, GivenUp(c) PROVE FinalInv'
  <2>1. /\ (halted' <=> halted) /\ UNCHANGED <<opAt, closed, process, sent>> /\ faulted'
    BY <1>22 DEF GivenUp, WaitRest
  <2> QED
    BY <2>1, <1>u
<1>23. CASE OwnerTakes
  <2>1. (halted' <=> halted) /\ UNCHANGED <<closed, opAt, process, waiting, sent, faulted>>
    BY <1>23 DEF OwnerTakes, Rest
  <2> QED
    BY <2>1, <1>u DEF Waits
<1>24. CASE OwnerRefuses
  <2>1. (halted' <=> halted) /\ UNCHANGED <<closed, opAt, process, waiting, sent, faulted>>
    BY <1>24 DEF OwnerRefuses, Rest
  <2> QED
    BY <2>1, <1>u DEF Waits
<1>25. CASE process = "serving" /\ OwnerCalls
  <2>1. /\ (halted => halted')
        /\ UNCHANGED <<closed, opAt, process, waiting, faulted>> /\ process = "serving"
    BY <1>25 DEF OwnerCalls, Rest
  <2> QED
    BY <2>1, <1>u DEF Waits
<1>26. CASE OwnerReturns
  <2>1. /\ (halted' <=> halted) /\ (faulted => faulted')
        /\ UNCHANGED <<closed, opAt, process, waiting, sent>>
    BY <1>26 DEF OwnerReturns, Rest
  <2> QED
    BY <2>1, <1>u DEF Waits
<1>27. CASE OwnerExits
  <2>1. (halted' <=> halted) /\ UNCHANGED <<closed, opAt, process, waiting, sent, faulted>>
    BY <1>27 DEF OwnerExits, Rest
  <2> QED
    BY <2>1, <1>u DEF Waits
<1>28. CASE SdkReturns
  <2>1. (halted' <=> halted) /\ UNCHANGED <<closed, opAt, process, waiting, sent, faulted>>
    BY <1>28 DEF SdkReturns, Rest
  <2> QED
    BY <2>1, <1>u DEF Waits
<1>29. CASE LeaseElapses
  <2>1. /\ halted' <=> halted
        /\ faulted => faulted'
        /\ opAt' = "final" /\ ~Waits("op")' =>
              (opAt = "final" /\ ~Waits("op")) \/ halted' \/ faulted'
        /\ opAt' = "ending" \/ closed' = "closed" =>
              opAt = "ending" \/ closed = "closed" \/ halted' \/ faulted'
        /\ process' = "exited" => process = "exited" /\ UNCHANGED sent
    BY <1>29 DEF LeaseElapses, Waits, PlaceInv, TypeOK, ExecutorTypeOK, WaitsTypeOK
  <2> QED
    BY <2>1, <1>u
<1>30. CASE StartMotion
  <2>1. /\ halted' <=> halted
        /\ faulted => faulted'
        /\ opAt' = "final" /\ ~Waits("op")' =>
              (opAt = "final" /\ ~Waits("op")) \/ halted' \/ faulted'
        /\ opAt' = "ending" \/ closed' = "closed" =>
              opAt = "ending" \/ closed = "closed" \/ halted' \/ faulted'
        /\ process' = "exited" => process = "exited" /\ UNCHANGED sent
    BY <1>30 DEF StartMotion, Admits, ReadyForMotion, Waits, PlaceInv, TypeOK, ExecutorTypeOK,
       WaitsTypeOK
  <2> QED
    BY <2>1, <1>u
<1>31. ASSUME NEW o \in {"posture", "stop", "close"}, OpBegins(o) PROVE FinalInv'
  <2>1. /\ halted' <=> halted
        /\ faulted => faulted'
        /\ opAt' = "final" /\ ~Waits("op")' =>
              (opAt = "final" /\ ~Waits("op")) \/ halted' \/ faulted'
        /\ opAt' = "ending" \/ closed' = "closed" =>
              opAt = "ending" \/ closed = "closed" \/ halted' \/ faulted'
        /\ process' = "exited" => process = "exited" /\ UNCHANGED sent
    BY <1>31 DEF OpBegins, Admits, ReadyForMotion, Waits, PlaceInv, TypeOK, ExecutorTypeOK,
       WaitsTypeOK
  <2> QED
    BY <2>1, <1>u
<1>32. CASE Serve
  <2>1. /\ halted' <=> halted
        /\ faulted => faulted'
        /\ opAt' = "final" /\ ~Waits("op")' =>
              (opAt = "final" /\ ~Waits("op")) \/ halted' \/ faulted'
        /\ opAt' = "ending" \/ closed' = "closed" =>
              opAt = "ending" \/ closed = "closed" \/ halted' \/ faulted'
        /\ process' = "exited" => process = "exited" /\ UNCHANGED sent
    BY <1>32 DEF Serve, Waits, PlaceInv, TypeOK, ExecutorTypeOK, WaitsTypeOK
  <2> QED
    BY <2>1, <1>u
<1>33. CASE Exit
  <2>1. /\ (halted' <=> halted) /\ UNCHANGED <<closed, opAt, waiting, sent, faulted>>
        /\ process = "init" \/ closed = "closed"
    BY <1>33 DEF Exit
  <2>2. sent = "Move" => faulted
    BY <2>1 DEF FinalInv, PlaceInv, HaltInv
  <2> QED
    BY <2>1, <2>2 DEF FinalInv, ExitSafe, Waits
<1>34. CASE Restart
  <2>1. opAt' = "out" /\ closed' = "no" /\ process' = "init"
    BY <1>34 DEF Restart
  <2> QED
    BY <2>1 DEF FinalInv, ExitSafe
<1> QED
  BY <1>1, <1>2, <1>3, <1>4, <1>5, <1>6, <1>7, <1>8, <1>9, <1>10, <1>11, <1>12, <1>13, <1>14,
     <1>15, <1>16, <1>17, <1>18, <1>19, <1>20, <1>21, <1>22, <1>23, <1>24, <1>25, <1>26, <1>27,
     <1>28, <1>29, <1>30, <1>31, <1>32, <1>33, <1>34, SubmitCases, WaitCases DEF Next,
     WorkerStep, OpStep, OwnerStep

-----------------------------------------------------------------------------
(* The invariant.                                                          *)

\* Nothing has been called by an agent that was just started.
LEMMA Start == Init => IInv
<1> SUFFICES ASSUME Init PROVE IInv
  OBVIOUS
<1>1. queue = <<>> /\ current = NoCall /\ Len(queue) = 0
  BY DEF Init
<1>2. queue \in Seq(Calls \cup {NoCall})
  BY <1>1
<1>3. TypeOK
  BY <1>2 DEF Init, TypeOK, ExecutorTypeOK, WaitsTypeOK, OwnerTypeOK, Callers, Futures,
     WaitStates,
              WorkerStates
<1>4. \A c \in Callers : ~Waits(c)
  BY DEF Init, Waits
<1>5. NoCall.method = "Exit" /\ ~NoCall.halt /\ ~NoCall.waited
  BY DEF NoCall
<1>6. PlaceInv /\ OwnerInv
  BY <1>1, <1>4 DEF Init, PlaceInv, OwnerInv, WorkerAlive, Callers
<1>7. FutureInv /\ WaitedInv /\ PostureInv /\ ReportInv
  BY <1>1, <1>4, <1>5 DEF Init, FutureInv, WaitedInv, PostureInv, ReportInv, No
<1>8. HaltInv /\ OrderInv /\ FinalInv
  BY <1>1, <1>4, <1>5 DEF Init, HaltInv, Halting, OrderInv, Motions, FinalInv, ExitSafe
<1> QED
  BY <1>3, <1>6, <1>7, <1>8 DEF IInv

\* Every step keeps the invariant.
LEMMA Kept == IInv /\ [Next]_vars => IInv'
<1> SUFFICES ASSUME IInv, [Next]_vars PROVE IInv'
  OBVIOUS
<1>1. CASE Next
  <2>1. TypeOK'
    BY <1>1, ExecutorTypeStep, WaitsTypeStep, OwnerTypeStep DEF TypeOK
  <2> QED
    BY <1>1, <2>1, PlaceStep, OwnerStepKeeps, FutureStep, WaitedStep, PostureStep, ReportStep,
       HaltStep, OrderStep, FinalStep DEF IInv
<1>2. CASE UNCHANGED vars
  <2> USE DEF vars, opVars, leaseVars, lockVars, ownerVars, callVars, historyVars
  <2>1. TypeOK'
    BY <1>2 DEF IInv, TypeOK, ExecutorTypeOK, WaitsTypeOK, OwnerTypeOK
  <2>2. PlaceInv' /\ OwnerInv'
    BY <1>2 DEF IInv, PlaceInv, OwnerInv, Waits, WorkerAlive
  <2>3. FutureInv' /\ WaitedInv'
    BY <1>2 DEF IInv, FutureInv, InQueue, InHand, Done, IsCallOf, WaitedInv, Waits, MethodOf,
       HaltOf
  <2>4. PostureInv' /\ ReportInv'
    BY <1>2 DEF IInv, PostureInv, ReportInv, No, WorkerAlive
  <2>5. HaltInv' /\ OrderInv' /\ FinalInv'
    BY <1>2 DEF IInv, HaltInv, Halting, OrderInv, FinalInv, ExitSafe, Waits
  <2> QED
    BY <2>1, <2>2, <2>3, <2>4, <2>5 DEF IInv
<1> QED
  BY <1>1, <1>2

\* The invariant holds throughout.
LEMMA SpecIInv == Spec => []IInv
  BY Start, Kept, PTL DEF Spec

-----------------------------------------------------------------------------
(* The theorems.                                                           *)

\* What is in no call's method is in no call.
LEMMA NotIn ==
    ASSUME TypeOK, NEW m \in Motions
    PROVE  No(m) <=> ~CallIn(m)
  BY QueueTypes DEF No, CallIn

\* The state stays in its domain.
THEOREM TypeCorrect == Spec => []TypeOK
<1>1. IInv => TypeOK
  BY DEF IInv
<1> QED
  BY <1>1, SpecIInv, PTL

\* ActionExecutor.stop: what it confirms to the client stays true.
THEOREM StopReportIsHonest == Spec => []StopReportHonest
<1>1. IInv => StopReportHonest
  <2> SUFFICES ASSUME IInv PROVE StopReportHonest
    OBVIOUS
  <2>1. (No("Move") <=> ~CallIn("Move")) /\ (No("Posture") <=> ~CallIn("Posture"))
    BY NotIn DEF IInv, Motions
  <2> QED
    BY <2>1 DEF IInv, ReportInv, StopReportHonest
<1> QED
  BY <1>1, SpecIInv, PTL

\* _execute_posture: nothing moves the robot while it changes its posture.
THEOREM PostureIsAlone == Spec => []PostureAlone
<1>1. IInv => PostureAlone
  <2> SUFFICES ASSUME IInv PROVE PostureAlone
    OBVIOUS
  <2>1. (No("Move") <=> ~CallIn("Move")) /\ (No("Posture") <=> ~CallIn("Posture"))
    BY NotIn DEF IInv, Motions
  <2> QED
    BY <2>1 DEF IInv, PostureInv, PostureAlone
<1> QED
  BY <1>1, SpecIInv, PTL

\* SdkOwner.close: the agent exits after its StopMove, or with a faulted transport.
THEOREM ExitIsSafe == Spec => []ExitSafe
<1>1. IInv => ExitSafe
  BY DEF IInv, FinalInv
<1> QED
  BY <1>1, SpecIInv, PTL

\* A motion is over before a posture begins and before the process ends.
THEOREM StopsAreFirst == Spec => []StopsComeFirst
BY PostureIsAlone, ExitIsSafe, PTL DEF StopsComeFirst

\* stop() and close(): no motion is called after their StopMove.
THEOREM NoMotionFollowsStop == Spec => NoMotionAfterStop
<1>1. IInv /\ [Next]_vars => [OwnerCalls /\ Motion(current.method) => ~halted]_vars
  <2> SUFFICES ASSUME IInv, OwnerCalls, Motion(current.method), halted PROVE FALSE
    OBVIOUS
  <2>1. current \in Calls
    BY QueueTypes DEF OwnerCalls, IInv, OwnerInv, Entries
  <2>2. current.method \in Motions
    BY <2>1, QueueTypes DEF IInv, Motion, Methods, Motions
  <2> QED
    BY <2>2 DEF IInv, OrderInv
<1> QED
  BY <1>1, SpecIInv, PTL DEF Spec, NoMotionAfterStop

\* Go2Adapter.stop: the lease of a running motion is not forgotten.
THEOREM LiveLeaseIsKept == Spec => AdapterKeepsLiveLease
<1>1. IInv /\ [Next]_vars => [adapterLease = "current" /\ adapterLease' = "none" => ~WorkerAlive]_vars
  <2> SUFFICES ASSUME IInv, Next, adapterLease = "current", adapterLease' = "none"
               PROVE  ~WorkerAlive
    OBVIOUS
  <2> USE DEF opVars, leaseVars, lockVars, ownerVars, callVars, historyVars
  <2>1. CASE StopReturns
    BY <2>1 DEF StopReturns, Confirmed, IInv, PlaceInv, OpEnds
  <2>2. CASE ~StopReturns
    <3>1. \A c \in Callers : ~Queues(c) /\ ~IsRefused(c)
      BY DEF Queues, IsRefused
    <3>2. ASSUME NEW c \in Callers, WaitStep(c) PROVE FALSE
      BY <3>2 DEF WaitStep
    <3>3. ~WorkerStep
      BY <3>1, <3>2, SubmitCases
         DEF Callers, WorkerStep, WorkerTests, WorkerRest, WorkerLocks, WorkerStops, WorkerResumes
    <3>4. ~OpStep
      BY <2>2, <3>1, <3>2, SubmitCases
         DEF Callers, OpStep, OpRest, OpJoins, OpLocks, PostureStopped, PostureReturns, CloseStopped,
             FinalStop, EndOwner, CloseReturns
    <3>5. ~OwnerInit /\ ~OwnerStep /\ ~SdkReturns /\ ~LeaseElapses
      BY DEF OwnerInit, Rest, OwnerStep, OwnerTakes, OwnerRefuses, OwnerCalls, OwnerReturns,
         OwnerExits,
             SdkReturns, LeaseElapses
    <3>6. ~StartMotion /\ (\A o \in {"posture", "stop", "close"} : ~OpBegins(o)) /\ ~Serve /\ ~Exit
          /\ ~Restart
      BY DEF StartMotion, OpBegins, Serve, Exit, Restart
    <3> QED
      BY <3>3, <3>4, <3>5, <3>6 DEF Next
  <2> QED
    BY <2>1, <2>2
<1> QED
  BY <1>1, SpecIInv, PTL DEF Spec, AdapterKeepsLiveLease
=============================================================================
