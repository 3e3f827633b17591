----------------------------- MODULE Supervisor ----------------------------
(***************************************************************************)
(* The node's side of deployment/supervisor.py for one service: the agent, *)
(* a short-lived process that starts, or stops, the service and keeps its  *)
(* pid and its identity (the time of its birth) in two files.              *)
(*                                                                         *)
(* Nothing locks the files.  An agent may be killed between any two steps, *)
(* a service may exit at any moment and ignores SIGTERM if it likes, and a *)
(* pid that has become free may be taken by any other process of the node. *)
(* A child that exits stays a zombie while the agent that spawned it runs. *)
(***************************************************************************)
EXTENDS Naturals

CONSTANTS
    Pids, NoPid,      \* process ids of the node
    Agents, NoAgent,  \* agents that may be at work at a time
    MaxBirths         \* bound: processes that are born

ASSUME PidsAssumption == NoPid \notin Pids
ASSUME AgentsAssumption == NoAgent \notin Agents
ASSUME BirthsAssumption == MaxBirths \in Nat

VARIABLES
    process,       \* what has a pid: kind, birth, life and the agent that spawned it
    births,        \* births so far
    pidFile,       \* <service>.pid; NoPid: there is none
    identityFile,  \* <service>.identity; 0: there is none
    agent,         \* what each agent is doing
    \* histories
    strayed,       \* births of which an agent left no pid file
    tangled        \* two agents that change the files were at work at the same time

nodeVars == <<process, births, pidFile, identityFile, agent, strayed, tangled>>

NoProcess == [kind |-> "none", birth |-> 0, life |-> "none", parent |-> NoAgent]
NewProcess(kind, parent) ==
    [kind |-> kind, birth |-> births + 1, life |-> "up", parent |-> parent]
NoWork == [op |-> "none", at |-> "none", pid |-> NoPid, child |-> NoPid, since |-> 0, ok |-> FALSE]

NodeInit ==
    /\ process = [p \in Pids |-> NoProcess] /\ births = 0
    /\ pidFile = NoPid /\ identityFile = 0
    /\ agent = [a \in Agents |-> NoWork]
    /\ strayed = {} /\ tangled = FALSE

AtWork(a) == agent[a].at \notin {"none", "done"}
Running(p) == process[p].kind = "service" /\ process[p].life = "up"

\* _process_exists: signal 0 also finds a zombie.
Exists(p) == p \in Pids /\ process[p].kind # "none"

\* Who has pid p carries the recorded identity or, if none is recorded, the service's
\* environment, which is gone once the process has exited.
IsRecorded(p) ==
    IF identityFile # 0 THEN process[p].birth = identityFile ELSE Running(p)

\* _agent_status finds the service running under pid p, if nothing changes as it looks.
FoundRunning(p) == pidFile = p /\ Exists(p) /\ IsRecorded(p)

-----------------------------------------------------------------------------
(* The processes of the node.                                              *)

\* The service ends by itself, by SIGTERM, or by the SIGKILL it was sent.
ServiceExits(p) ==
    /\ process[p].kind = "service" /\ process[p].life \in {"up", "killed"}
    /\ process' = [process EXCEPT ![p] =
          IF @.parent = NoAgent THEN NoProcess ELSE [@ EXCEPT !.life = "zombie"]]
    /\ strayed' = strayed \ {process[p].birth}
    /\ UNCHANGED <<births, pidFile, identityFile, agent, tangled>>

OtherStarts(p) ==
    /\ process[p].kind = "none" /\ births < MaxBirths
    /\ process' = [process EXCEPT ![p] = NewProcess("other", NoAgent)]
    /\ births' = births + 1
    /\ UNCHANGED <<pidFile, identityFile, agent, strayed, tangled>>

OtherExits(p) ==
    /\ process[p].kind = "other"
    /\ process' = [process EXCEPT ![p] = NoProcess]
    /\ UNCHANGED <<births, pidFile, identityFile, agent, strayed, tangled>>

\* What becomes of the children of an agent that ends.
Orphaned(a) ==
    [p \in Pids |->
        IF process[p].parent # a THEN process[p]
        ELSE IF process[p].life = "zombie" THEN NoProcess
        ELSE [process[p] EXCEPT !.parent = NoAgent]]

-----------------------------------------------------------------------------
(* The agent.                                                              *)

Files == <<pidFile, identityFile>>

\* The agent goes on.
Goes(a, at) == agent' = [agent EXCEPT ![a].at = at]

\* The agent prints its answer and exits.
Answers(a, ok, pid) ==
    /\ agent' = [agent EXCEPT ![a] = [NoWork EXCEPT !.op = agent[a].op, !.at = "done",
                                                    !.ok = ok, !.pid = pid]]
    /\ process' = Orphaned(a)

\* It ends with a child of which there is no pid file yet.
Strays(a) ==
    strayed' = IF agent[a].at \in {"writeIdentity", "writePid"} /\ Running(agent[a].child)
               THEN strayed \cup {process[agent[a].child].birth} ELSE strayed

\* supervisor.py start or stop is run on the node.
AgentBegins(a, op) ==
    /\ agent' = [agent EXCEPT ![a] = [NoWork EXCEPT !.op = op, !.at = "look"]]
    /\ tangled' = (tangled \/ \E b \in Agents : AtWork(b))
    /\ UNCHANGED <<process, births, pidFile, identityFile, strayed>>

\* _agent_status up to _process_exists.  Without a pid file, or if nobody has the pid, a
\* stop has nothing to signal and a start may spawn; a start that has done so takes its
\* child down.
Look(a) ==
    /\ agent[a].at = "look"
    /\ \/ /\ Exists(pidFile)
          /\ agent' = [agent EXCEPT ![a].at = "check", ![a].pid = pidFile]
          /\ UNCHANGED process
       \/ /\ ~Exists(pidFile)
          /\ IF agent[a].child # NoPid
             THEN agent' = [agent EXCEPT ![a].at = "term", ![a].pid = agent[a].child, ![a].since = births]
                  /\ UNCHANGED process
             ELSE IF agent[a].op = "stop" /\ pidFile = NoPid
             THEN Answers(a, TRUE, NoPid)
             ELSE Goes(a, "unlinkPid") /\ UNCHANGED process
    /\ UNCHANGED <<births, Files, strayed, tangled>>

\* Mutant: the pid file alone is trusted, whoever has the pid now.
CheckPidOnly(a) ==
    /\ agent[a].at = "check"
    /\ IF agent[a].op = "stop"
       THEN agent' = [agent EXCEPT ![a].at = "term", ![a].since = births] /\ UNCHANGED process
       ELSE Answers(a, TRUE, agent[a].pid)
    /\ UNCHANGED <<births, Files, strayed, tangled>>

\* The rest of _agent_status: a stop goes on to signal the service and a start has
\* nothing to do.  If the pid is another's, both refuse, but for a start with a child.
Check(a) ==
    /\ agent[a].at = "check"
    /\ IF IsRecorded(agent[a].pid)
       THEN IF agent[a].op = "stop"
            THEN agent' = [agent EXCEPT ![a].at = "term", ![a].since = births]
                 /\ UNCHANGED process
            ELSE Answers(a, TRUE, agent[a].pid)
       ELSE IF agent[a].child # NoPid
            THEN agent' = [agent EXCEPT ![a].at = "term", ![a].pid = agent[a].child, ![a].since = births]
                 /\ UNCHANGED process
            ELSE Answers(a, FALSE, NoPid)
    /\ UNCHANGED <<births, Files, strayed, tangled>>

\* pid_file.unlink, before the spawn, after a stop, or after a failed start.
UnlinkPid(a) ==
    /\ agent[a].at = "unlinkPid"
    /\ pidFile' = NoPid
    /\ Goes(a, "unlinkIdentity")
    /\ UNCHANGED <<process, births, identityFile, strayed, tangled>>

UnlinkIdentity(a) ==
    /\ agent[a].at = "unlinkIdentity"
    /\ identityFile' = 0
    /\ IF agent[a].op = "start" /\ agent[a].child = NoPid
       THEN Goes(a, "spawn") /\ UNCHANGED process
       ELSE Answers(a, agent[a].op = "stop", NoPid)
    /\ UNCHANGED <<births, pidFile, strayed, tangled>>

\* Popen, with a request that was read and a log that was opened.
Spawn(a, p) ==
    /\ agent[a].at = "spawn" /\ process[p].kind = "none" /\ births < MaxBirths
    /\ process' = [process EXCEPT ![p] = NewProcess("service", a)]
    /\ births' = births + 1
    /\ agent' = [agent EXCEPT ![a].at = "writeIdentity", ![a].child = p]
    /\ UNCHANGED <<Files, strayed, tangled>>

\* _write_private_text replaces a file in one step.
WriteIdentity(a) ==
    /\ agent[a].at = "writeIdentity"
    /\ identityFile' = process[agent[a].child].birth
    /\ Goes(a, "writePid")
    /\ UNCHANGED <<process, births, pidFile, strayed, tangled>>

\* The pid is on disk; the agent sleeps and looks again.
WritePid(a) ==
    /\ agent[a].at = "writePid"
    /\ pidFile' = agent[a].child
    /\ Goes(a, "look")
    /\ UNCHANGED <<process, births, identityFile, strayed, tangled>>

\* _terminate_process_group returns.
Leaves(a) ==
    agent' = [agent EXCEPT ![a].at = "unlinkPid", ![a].pid = NoPid, ![a].since = 0]

\* killpg(SIGTERM); if there is no such group any more there is nothing to wait for.
Terminate(a) ==
    /\ agent[a].at = "term"
    /\ IF Exists(agent[a].pid) THEN Goes(a, "wait") ELSE Leaves(a)
    /\ UNCHANGED <<process, births, Files, strayed, tangled>>

SeesItGone(a) ==
    /\ agent[a].at = "wait" /\ ~Exists(agent[a].pid)
    /\ Leaves(a)
    /\ UNCHANGED <<process, births, Files, strayed, tangled>>

\* Mutant: when the five seconds are over the process is left alone.
GivesUp(a) ==
    /\ agent[a].at = "wait" /\ Exists(agent[a].pid)
    /\ Leaves(a)
    /\ UNCHANGED <<process, births, Files, strayed, tangled>>

\* After five seconds: killpg(SIGKILL) for whoever has the pid.
Kill(a) ==
    /\ agent[a].at = "wait" /\ Exists(agent[a].pid)
    /\ process' = [process EXCEPT ![agent[a].pid].life = IF @ = "up" THEN "killed" ELSE @]
    /\ Leaves(a)
    /\ UNCHANGED <<births, Files, strayed, tangled>>

\* The agent answers an OSError, as when a file cannot be written, or is killed: by the
\* timeout of a local command, with the connection, or by whatever befalls the node.  A
\* child it had is left running.
AgentFails(a) ==
    /\ AtWork(a)
    /\ Strays(a)
    /\ agent' = [agent EXCEPT ![a] = [NoWork EXCEPT !.op = agent[a].op, !.at = "done"]]
    /\ process' = Orphaned(a)
    /\ UNCHANGED <<births, Files, tangled>>

AgentStep(a) ==
    \/ Look(a) \/ Check(a) \/ UnlinkPid(a) \/ UnlinkIdentity(a)
    \/ \E p \in Pids : Spawn(a, p)
    \/ WriteIdentity(a) \/ WritePid(a)
    \/ Terminate(a) \/ SeesItGone(a) \/ Kill(a)

NodeStep ==
    \/ \E p \in Pids : ServiceExits(p) \/ OtherStarts(p) \/ OtherExits(p)
    \/ \E a \in Agents : AgentStep(a) \/ AgentFails(a)
=============================================================================
