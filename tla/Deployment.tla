----------------------------- MODULE Deployment ----------------------------
(***************************************************************************)
(* up, down and init of the command line (deployment/operations/) on the   *)
(* host, over the agents of one node: one service of the deployment, whose *)
(* record in the state file says what the last command thought of it.      *)
(*                                                                         *)
(* A command loads the state file when it begins and replaces it when it   *)
(* ends; in between it works through the node's services, polls the one it *)
(* started, and may lose the connection, die, or not get to this service   *)
(* at all.  A command that waits for an agent does not stop it by giving   *)
(* up.  Commands of two operators may be under way at the same time.       *)
(***************************************************************************)
EXTENDS Supervisor, FiniteSets

CONSTANTS
    Commands,     \* commands that may be under way at a time
    MaxCommands   \* bound: commands that are begun, those beside another counted twice

ASSUME CommandsAssumption == MaxCommands \in Nat

VARIABLES
    record,    \* the status of the service in the state file
    command,   \* what each command is doing
    begun,     \* commands so far
    \* histories
    untold,    \* births that no saved record tells of, because their command ended early
    crossed    \* two commands were under way at the same time

hostVars == <<record, command, begun, untold, crossed>>
deploymentVars == <<nodeVars, hostVars>>

NoCommand == [op |-> "none", at |-> "none", agent |-> NoAgent, pid |-> NoPid,
              seen |-> "stopped", result |-> "stopped"]

DeploymentInit ==
    /\ NodeInit
    /\ record = "stopped"
    /\ command = [c \in Commands |-> NoCommand] /\ begun = 0
    /\ untold = {} /\ crossed = FALSE

UnderWay(c) == command[c].op # "none"
Awaited(a) == \E c \in Commands : command[c].agent = a
Births == {process[p].birth : p \in {q \in Pids : process[q].kind = "service"}}

\* The command has what it will save.
Concludes(c, result) ==
    command' = [command EXCEPT ![c] = [NoCommand EXCEPT !.op = command[c].op, !.at = "save", !.result = result]]
Host == <<record, begun, crossed>>

-----------------------------------------------------------------------------
(* Commands.                                                               *)

\* store.load().
Begin(c, op) ==
    /\ ~UnderWay(c)
    /\ begun + Cardinality({d \in Commands : UnderWay(d)}) < MaxCommands
    /\ begun' = begun + 1
    /\ command' = [command EXCEPT ![c] = [NoCommand EXCEPT !.op = op, !.at = "ask", !.seen = record]]
    /\ crossed' = (crossed \/ \E d \in Commands : UnderWay(d))
    /\ UNCHANGED <<nodeVars, record, untold>>

\* supervisor.start and supervisor.stop run an agent on the node.
Ask(c, a) ==
    /\ command[c].at = "ask" /\ command[c].op \in {"up", "down"}
    /\ ~AtWork(a) /\ ~Awaited(a)
    /\ AgentBegins(a, IF command[c].op = "up" THEN "start" ELSE "stop")
    /\ command' = [command EXCEPT ![c].at = "await", ![c].agent = a]
    /\ UNCHANGED <<Host, untold>>

\* The service is of another kind than the target, or another service of its node failed
\* first: its record is saved as it was loaded.
PassesBy(c) ==
    /\ command[c].at = "ask" /\ command[c].op \in {"up", "down"}
    /\ Concludes(c, command[c].seen)
    /\ UNCHANGED <<nodeVars, Host, untold>>

\* The service cannot be run on the node, or the node cannot be reached.
CannotStart(c) ==
    /\ command[c].at = "ask" /\ command[c].op = "up"
    /\ Concludes(c, "failed")
    /\ UNCHANGED <<nodeVars, Host, untold>>

\* Mutant: init resets the records of a changed configuration whatever they say.
InitAnyway(c) ==
    /\ command[c].at = "ask" /\ command[c].op = "init"
    /\ Concludes(c, "stopped")
    /\ UNCHANGED <<nodeVars, Host, untold>>

\* init with a changed configuration forgets the records, unless one says "running"; a
\* service that is recorded as failed may be running as well.
InitChanged(c) ==
    /\ command[c].at = "ask" /\ command[c].op = "init"
    /\ command[c].seen # "running"
    /\ Concludes(c, "stopped")
    /\ untold' = IF command[c].seen = "failed" THEN untold \cup Births ELSE untold
    /\ UNCHANGED <<nodeVars, Host>>

\* init with the same configuration keeps the records; it also may not get that far.
InitKeeps(c) ==
    /\ command[c].at = "ask" /\ command[c].op = "init"
    /\ Concludes(c, command[c].seen)
    /\ UNCHANGED <<nodeVars, Host, untold>>

\* Mutant: a stop that was refused, or whose agent died, is taken for one that worked.
TakeAnswerTrusting(c) ==
    /\ command[c].at = "await" /\ agent[command[c].agent].at = "done"
    /\ LET answer == agent[command[c].agent] IN
       IF command[c].op = "down" THEN Concludes(c, "stopped")
       ELSE IF answer.ok
       THEN command' = [command EXCEPT ![c].at = "poll", ![c].agent = NoAgent, ![c].pid = answer.pid]
       ELSE Concludes(c, "failed")
    /\ UNCHANGED <<nodeVars, Host, untold>>

\* A stop that found nothing, a stale pid or the service is a success; after a failure
\* down keeps the record it loaded, and up says failed.
TakeAnswer(c) ==
    /\ command[c].at = "await" /\ agent[command[c].agent].at = "done"
    /\ LET answer == agent[command[c].agent] IN
       IF command[c].op = "down"
       THEN Concludes(c, IF answer.ok THEN "stopped" ELSE command[c].seen)
       ELSE IF answer.ok
       THEN command' = [command EXCEPT ![c].at = "poll", ![c].agent = NoAgent, ![c].pid = answer.pid]
       ELSE Concludes(c, "failed")
    /\ UNCHANGED <<nodeVars, Host, untold>>

\* executor.run raises: the timeout of the command, or the connection.  Over ssh the
\* agent goes on.
LosesAgent(c) ==
    /\ command[c].at = "await"
    /\ Concludes(c, IF command[c].op = "up" THEN "failed" ELSE command[c].seen)
    /\ UNCHANGED <<nodeVars, Host, untold>>

\* One round of _wait_until_ready finds the process and its endpoint answers, which any
\* process of the service may do.
Ready(c) ==
    /\ command[c].at = "poll"
    /\ FoundRunning(command[c].pid)
    /\ \E p \in Pids : Running(p)
    /\ Concludes(c, "running")
    /\ UNCHANGED <<nodeVars, Host, untold>>

ExitedBeforeReady(c) ==
    /\ command[c].at = "poll"
    /\ ~FoundRunning(command[c].pid)
    /\ Concludes(c, "failed")
    /\ UNCHANGED <<nodeVars, Host, untold>>

\* wait_timeout_s is over, or the status could not be asked for.  The service is left.
NotReadyInTime(c) ==
    /\ command[c].at = "poll"
    /\ Concludes(c, "failed")
    /\ UNCHANGED <<nodeVars, Host, untold>>

\* store.save(state): the file is replaced, whatever it says by now.
Save(c) ==
    /\ command[c].at = "save"
    /\ record' = command[c].result
    /\ command' = [command EXCEPT ![c] = NoCommand]
    /\ UNCHANGED <<nodeVars, begun, untold, crossed>>

\* The command is interrupted, or the host fails; or the state file cannot be written.
CommandDies(c) ==
    /\ UnderWay(c)
    /\ command' = [command EXCEPT ![c] = NoCommand]
    /\ untold' = IF command[c].op = "up" /\ command[c].at # "ask" /\ record = "stopped"
                 THEN untold \cup Births ELSE untold
    /\ UNCHANGED <<nodeVars, record, begun, crossed>>

-----------------------------------------------------------------------------
(* The composition.                                                        *)

\* The record says "stopped", or a command is about to write that.
RecordForgets == record = "stopped" \/ \E c \in Commands : command[c].at = "save" /\ command[c].result = "stopped"

\* A step of the node.  If it spawns a service for a command that has gone, nobody may
\* record that service.
NodeTurn ==
    /\ NodeStep
    /\ untold' = Births' \cap
          IF RecordForgets /\ \E a \in Agents, p \in Pids : Spawn(a, p) /\ ~Awaited(a)
          THEN untold \cup {births'} ELSE untold
    /\ UNCHANGED <<record, command, begun, crossed>>

CommandStep(c) ==
    \/ \E a \in Agents : Ask(c, a)
    \/ PassesBy(c) \/ CannotStart(c) \/ InitChanged(c) \/ InitKeeps(c)
    \/ TakeAnswer(c) \/ LosesAgent(c)
    \/ Ready(c) \/ ExitedBeforeReady(c) \/ NotReadyInTime(c)
    \/ Save(c)

DeploymentNext ==
    \/ NodeTurn
    \/ \E c \in Commands, op \in {"up", "down", "init"} : Begin(c, op)
    \/ \E c \in Commands : CommandStep(c) \/ CommandDies(c)

DeploymentSpec == DeploymentInit /\ [][DeploymentNext]_deploymentVars

-----------------------------------------------------------------------------
(* Properties.                                                             *)

\* No agent, and no command, is in the middle of anything.
FilesAtRest == \A a \in Agents : ~AtWork(a)
AtRest == FilesAtRest /\ \A c \in Commands : ~UnderWay(c)

\* _agent_stop refuses to signal a pid that belongs to another process, whatever agents
\* were killed between their steps, lost their callers or met on the two files: a signal
\* hits a stranger only if it took over the pid after the agent had looked.
NoForeignSignal ==
    [][\A a \in Agents :
          Exists(agent[a].pid) /\ (Terminate(a) \/ Kill(a)) =>
              \/ process[agent[a].pid].kind = "service"
              \/ process[agent[a].pid].birth > agent[a].since]_deploymentVars

\* A service that runs is the one that the pid file and the identity file tell of, so that
\* the next status, start or stop finds it and there is only one: over failed starts,
\* killed agents, services that exit or ignore SIGTERM, and reused pids.  Two agents at a
\* time, and one that ends between the spawn and the pid file, are what the code has no
\* answer to.
NothingForgotten ==
    ~tangled /\ FilesAtRest =>
        \A p \in Pids : Running(p) => process[p].birth \in strayed \/ FoundRunning(p)

\* What sync and init rely on: a record that says "stopped" at a quiet moment is right,
\* although answers get lost, stops fail half-way and commands pass the service by.  It is
\* not right for services whose command was killed before it saved, or whose record of a
\* failed start init replaced, and after two commands at a time the later save wins.
StoppedMeansDown ==
    ~tangled /\ ~crossed /\ AtRest /\ record = "stopped" =>
        \A p \in Pids : Running(p) => process[p].birth \in strayed \cup untold
=============================================================================
