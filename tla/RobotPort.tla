----------------------------- MODULE RobotPort -----------------------------
(***************************************************************************)
(* What RobotIOScheduler (devices/execution/io.py) promises the arbiter,   *)
(* the observers and the stop handlers that call it, without its deque,    *)
(* flags, locks, threads and waits.  A call is accepted, taken by the one  *)
(* worker, begun in the driver and ended, or it never reaches the driver;  *)
(* its answer, given at any moment, is true then and afterwards.  A        *)
(* preemptive stop goes to the driver beside the call that was taken.      *)
(* RobotIO implements this specification (RobotIO!PortKept).               *)
(***************************************************************************)
CONSTANTS
    Requests,     \* one member per call of execute, read or stop
    NoRequest

VARIABLES
    op,           \* what was asked for
    accepted,     \* the calls that wait for the worker
    taken,        \* the call the worker took
    urgent,       \* the preemptive stop in the driver
    call,         \* what the driver did: "none", "running", or its outcome
    answer,       \* what the caller was told, or "none"
    ended         \* close() reported the port drained

vars == <<op, accepted, taken, urgent, call, answer, ended>>

Stops == {"stop", "preemptive"}
NeverDriven == {"CANCELLED", "REJECTED", "EXPIRED"}
Returned == {"silent", "confirmed", "denied"}

Init ==
    /\ op = [r \in Requests |-> "none"]
    /\ accepted = {} /\ taken = NoRequest /\ urgent = NoRequest
    /\ call = [r \in Requests |-> "none"]
    /\ answer = [r \in Requests |-> "none"]
    /\ ended = FALSE

StopIn(S) == \E q \in S : op[q] = "stop"

\* The scheduler accepts a call, refuses it, or lets a preemptive stop try.
Ask(r, o) ==
    /\ op[r] = "none"
    /\ op' = [op EXCEPT ![r] = o]
    /\ \/ /\ o = "preemptive"
          /\ UNCHANGED <<accepted, answer>>
       \/ /\ o # "preemptive" /\ ~ended
          /\ o = "stop" => ~StopIn(accepted) /\ ~(taken # NoRequest /\ op[taken] = "stop")
          /\ accepted' = accepted \cup {r}
          /\ UNCHANGED answer
       \/ /\ o # "preemptive"
          /\ \E s \in {"EXPIRED", "REJECTED", "UNKNOWN"} : answer' = [answer EXCEPT ![r] = s]
          /\ UNCHANGED accepted
    /\ UNCHANGED <<taken, urgent, call, ended>>

\* The worker takes a call; one that moves or reads waits for every stop.
Take(r) ==
    /\ taken = NoRequest /\ r \in accepted
    /\ op[r] # "stop" => urgent = NoRequest /\ ~StopIn(accepted)
    /\ accepted' = accepted \ {r} /\ taken' = r
    /\ UNCHANGED <<op, urgent, call, answer, ended>>

\* It is dropped before the driver is called, for good.
Drop(r) ==
    /\ taken = r /\ call[r] = "none"
    /\ taken' = NoRequest
    /\ UNCHANGED <<op, accepted, urgent, call, answer, ended>>

Begin(r) ==
    /\ taken = r /\ call[r] = "none"
    /\ call' = [call EXCEPT ![r] = "running"]
    /\ UNCHANGED <<op, accepted, taken, urgent, answer, ended>>

End(r, v) ==
    /\ taken = r /\ call[r] = "running"
    /\ call' = [call EXCEPT ![r] = v] /\ taken' = NoRequest
    /\ UNCHANGED <<op, accepted, urgent, answer, ended>>

\* A preemptive stop begins unless another stop is ahead of it, and ends.
UrgentBegin(r) ==
    /\ op[r] = "preemptive" /\ answer[r] = "none" /\ call[r] = "none"
    /\ urgent = NoRequest /\ ~StopIn(accepted) /\ ~ended
    /\ urgent' = r /\ call' = [call EXCEPT ![r] = "running"]
    /\ UNCHANGED <<op, accepted, taken, answer, ended>>

UrgentEnd(r, v) ==
    /\ urgent = r
    /\ urgent' = NoRequest /\ call' = [call EXCEPT ![r] = v]
    /\ UNCHANGED <<op, accepted, taken, answer, ended>>

\* Waiting calls may be discarded, for good; stops never are.
Discards(D) ==
    /\ D \subseteq accepted /\ ~StopIn(D)
    /\ accepted' = accepted \ D

Discard ==
    /\ \E D \in SUBSET accepted : Discards(D)
    /\ UNCHANGED <<op, taken, urgent, call, answer, ended>>

\* An answer that says how the driver call went, or that there will be none, is
\* final; "unknown" leaves at most a stop, or the call the worker took, to happen.
Truthful(r, s) ==
    /\ s = "COMPLETED" => call[r] \in Returned
    /\ s = "FAILED" => call[r] = "raised"
    /\ s \in NeverDriven => call[r] = "none" /\ r # taken /\ r # urgent /\ r \notin accepted'
    /\ s = "UNKNOWN" => r \notin accepted' \/ op[r] = "stop"

Answer(r, s) ==
    /\ op[r] # "none" /\ answer[r] = "none"
    /\ \E D \in SUBSET accepted : Discards(D)
    /\ Truthful(r, s)
    /\ answer' = [answer EXCEPT ![r] = s]
    /\ UNCHANGED <<op, taken, urgent, call, ended>>

\* close() reports the port drained: nothing is in the driver or will be.
Drained ==
    /\ accepted = {} /\ taken = NoRequest /\ urgent = NoRequest
    /\ ended' = TRUE
    /\ UNCHANGED <<op, accepted, taken, urgent, call, answer>>

Next ==
    \/ \E r \in Requests :
          \/ \E o \in {"execute", "read", "stop", "preemptive"} : Ask(r, o)
          \/ Take(r) \/ Drop(r) \/ Begin(r) \/ UrgentBegin(r)
          \/ \E v \in Returned \cup {"raised"} : End(r, v) \/ UrgentEnd(r, v)
          \/ \E s \in {"COMPLETED", "FAILED", "UNKNOWN"} \cup NeverDriven : Answer(r, s)
    \/ Discard \/ Drained

Spec == Init /\ [][Next]_vars
=============================================================================
