---------------------------- MODULE XLeRobotOwner ----------------------------
(***************************************************************************)
(* The robot endpoint of the XLeRobot owner (server.py, Platform and       *)
(* robot_endpoint), its clients (RemoteRobot, and the gateway that drives  *)
(* through it) and the robot of XLeRobotHardware.                          *)
(*                                                                         *)
(* A client asks for control of a scope with a new owner token; the server *)
(* keeps one whole-robot lease, robot_owner, or one lease per scope,       *)
(* robot_owners.  Handlers take control_lock one after the other; between  *)
(* their steps the watchdog thread may stop scopes, so leases are pruned   *)
(* by a control_state read earlier (refresh_robot_owners).  Requests may   *)
(* be lost, or overtaken by their own timeout and handled late.  The       *)
(* server may exit or crash and be started again, with or without a        *)
(* snapshot of the old one, while the motors keep torque and motion.       *)
(*                                                                         *)
(* Histories, not state of the code: armedBy names, for each active scope, *)
(* the client and its enable that activated it; robot.doubt.               *)
(*                                                                         *)
(* Left out: browsers connected to the robot's own server (its websocket   *)
(* owner and the mapper), recording, leader following, authentication.     *)
(***************************************************************************)
EXTENDS XLeRobotHardware, Naturals

CONSTANTS
    Clients,        \* programs that hold a RemoteRobot
    ScopeChoices,   \* the scopes the clients may have been started with
    MaxEnables,     \* bound: the enables each client asks for
    MaxLate,        \* bound: a client's requests that it has given up waiting for
    Nobody          \* no owner

ASSUME OwnerAssumption ==
    /\ ScopeChoices \subseteq [Clients -> {"all", "arms", "base"}]
    /\ MaxEnables \in [Clients -> Nat] /\ MaxLate \in [Clients -> Nat]
    /\ Nobody \notin Clients \cup (Clients \X Nat)

VARIABLES
    robot,              \* HardwareRobot and its motors
    up,                 \* the server runs
    robot_owner, robot_owners, stop_unconfirmed,    \* Platform
    handler,            \* the holder of control_lock
    requests,           \* sent and not yet taken by a handler
    client, scopeOf,    \* RemoteRobot and the program around it
    snapshot,           \* what an operator has captured for a restart
    armedBy             \* history

server == <<robot_owner, robot_owners, stop_unconfirmed>>
ownerVars == <<robot, up, server, handler, requests, client, scopeOf, snapshot, armedBy>>

ScopesOf(c) == IF scopeOf[c] = "all" THEN Scopes ELSE {scopeOf[c]}
Unleased == [s \in Scopes |-> Nobody]

\* A RemoteRobot draws a new owner token for every enable.
\* Mutant: a client keeps one token for as long as it lives.
TokenForLife(c, n) == <<c, 0>>
TokenOf(c, n) == <<c, n>>

NoCall == [op |-> "none", client |-> Nobody, era |-> 0, late |-> FALSE]
Idle == [at |-> "idle", task |-> "none", req |-> NoCall, seen |-> {}]

\* What the variables hold.
RemoteCalls == [op : {"arm", "command", "release", "stop", "stop_all"}, client : Clients,
                era : Nat, late : BOOLEAN]
Owners == {Nobody} \cup (Clients \X Nat)

OwnerTypeOK ==
    /\ robot \in Robots /\ up \in BOOLEAN
    /\ robot_owner \in Owners /\ robot_owners \in [Scopes -> Owners] /\ stop_unconfirmed \in BOOLEAN
    /\ handler \in [at : {"idle", "begun", "call"},
                    task : {"none", "arm", "command", "release", "stop", "stop_all", "give_up",
                            "fault", "exit"},
                    req : RemoteCalls \cup {NoCall}, seen : SUBSET Scopes]
    /\ requests \subseteq RemoteCalls
    /\ client \in [Clients -> [at : {"rest", "arm", "armed", "command", "quit", "stop"}, era : Nat]]
    /\ scopeOf \in ScopeChoices
    /\ snapshot \in {"none", "held", "fault", "torn_fault"}
    /\ armedBy \in [Scopes -> Owners]

OwnerInit ==
    /\ scopeOf \in ScopeChoices
    /\ robot = [hw |-> NewHardware, moving |-> {}, powered |-> {}, doubt |-> {}]
    /\ up = TRUE
    /\ robot_owner = Nobody /\ robot_owners = Unleased /\ stop_unconfirmed = FALSE
    /\ handler = Idle /\ requests = {}
    /\ client = [c \in Clients |-> [at |-> "rest", era |-> 0]]
    /\ snapshot = "none"
    /\ armedBy = Unleased

\* The robot changes; who activated its scopes is kept for the properties.
RobotBecomes(r, sender) ==
    /\ robot' = r
    /\ armedBy' = [s \in Scopes |->
                     IF s \notin r.hw.active THEN Nobody
                     ELSE IF s \in robot.hw.active THEN armedBy[s] ELSE sender]

-----------------------------------------------------------------------------
(* Clients: one call of RemoteRobot at a time.                             *)

StopOps(c) == {"stop", "stop_all"} \cup IF scopeOf[c] = "all" THEN {} ELSE {"release"}
Waiting(c) == client[c].at \in {"arm", "command", "stop"}

Send(c, op, at, era) ==
    /\ requests' = requests \cup {[op |-> op, client |-> c, era |-> era, late |-> FALSE]}
    /\ client' = [client EXCEPT ![c] = [at |-> at, era |-> era]]
    /\ UNCHANGED <<robot, up, server, handler, scopeOf, snapshot, armedBy>>

Enable(c) == /\ client[c].at = "rest" /\ client[c].era < MaxEnables[c]
             /\ Send(c, "arm", "arm", client[c].era + 1)

Drive(c) == /\ client[c].at = "armed"
            /\ Send(c, "command", "command", client[c].era)

\* An operator's stop, or the one that follows a failed command.  Without
\* control, a stop of the own scope alone is not sent.
Halt(c) == /\ client[c].at \in {"rest", "armed", "quit"}
           /\ \E op \in StopOps(c) :
                /\ client[c].at = "rest" => op = "stop_all"
                /\ Send(c, op, "stop", client[c].era)

\* A failed or unanswered call: an enable is taken as not granted, a command
\* is followed by a stop, a stop is reported as unconfirmed.
AfterError(at) == IF at = "command" THEN "quit" ELSE "rest"
FailedCall(c) == client' = [client EXCEPT ![c].at = AfterError(@)]

Awaited(q, c) == q.client = c /\ ~q.late
LateOnes(c) == {q \in requests \cup {handler.req} : q.client = c /\ q.late}

\* The timeout passes while the request is on its way or being handled.  A
\* stop on its way is then lost (ConnectionLost): a late one would do what the
\* all-stop of any client may do at any time.
GiveUp(c) ==
    /\ Waiting(c) /\ Cardinality(LateOnes(c)) < MaxLate[c]
    /\ FailedCall(c)
    /\ \/ \E q \in requests :
            /\ Awaited(q, c) /\ q.op \in {"arm", "command"}
            /\ requests' = (requests \ {q}) \cup {[q EXCEPT !.late = TRUE]}
            /\ UNCHANGED handler
       \/ /\ Awaited(handler.req, c)
          /\ handler' = [handler EXCEPT !.req.late = TRUE]
          /\ UNCHANGED requests
    /\ UNCHANGED <<robot, up, server, scopeOf, snapshot, armedBy>>

\* The request or its connection is lost.
ConnectionLost(c) ==
    /\ Waiting(c) /\ ~Awaited(handler.req, c)
    /\ FailedCall(c)
    /\ requests' = {q \in requests : ~Awaited(q, c)}
    /\ UNCHANGED <<robot, up, server, handler, scopeOf, snapshot, armedBy>>

LateLost == /\ \E q \in requests : q.late /\ requests' = requests \ {q}
            /\ UNCHANGED <<robot, up, server, handler, client, scopeOf, snapshot, armedBy>>

-----------------------------------------------------------------------------
(* Handlers.                                                               *)

Answer(q, at) ==
    client' = IF q.late \/ q = NoCall THEN client
              ELSE [client EXCEPT ![q.client].at = at]

Reply(at) == Answer(handler.req, at) /\ handler' = Idle

\* A handler gets control_lock and reads control_state.
Accept ==
    /\ up /\ handler = Idle
    /\ \E q \in requests :
         /\ requests' = requests \ {q}
         /\ handler' = [at |-> "begun", task |-> q.op, req |-> q,
                        seen |-> robot.hw.active]
    /\ UNCHANGED <<robot, up, server, client, scopeOf, snapshot, armedBy>>

\* refresh_robot_owners, by the scopes that were active when they were read.
KeptOwners(seen) == [s \in Scopes |-> IF s \in seen THEN robot_owners[s] ELSE Nobody]
KeptOwner == IF robot.hw.active = {} THEN Nobody ELSE robot_owner

Token == TokenOf(handler.req.client, handler.req.era)
Target == ScopesOf(handler.req.client)
Whole == scopeOf[handler.req.client] = "all"
Held(owner, owners) == IF Whole THEN owner ELSE owners[CHOOSE s \in Target : TRUE]
Without(owners) == [s \in Scopes |-> IF s \in Target THEN Nobody ELSE owners[s]]

\* An enable needs the whole robot, or the scope and the robot, unleased.
\* Mutant: a scoped client does not ask for a lease of the whole robot.
MayLeaseByScope(owner, owners) ==
    /\ Whole => owner = Nobody
    /\ \A s \in Target : owners[s] = Nobody
    /\ ~stop_unconfirmed
MayLease(owner, owners) ==
    /\ owner = Nobody
    /\ \A s \in Target : owners[s] = Nobody
    /\ ~stop_unconfirmed

Proceed(owner, owners) ==
    /\ robot_owner' = owner /\ robot_owners' = owners
    /\ handler' = [handler EXCEPT !.at = "call"]
    /\ UNCHANGED <<stop_unconfirmed, client>>

Refuse(owner, owners, at) ==
    /\ robot_owner' = owner /\ robot_owners' = owners
    /\ Reply(at)
    /\ UNCHANGED stop_unconfirmed

\* The body of robot_endpoint up to its call of the robot.
Resume ==
    /\ handler.at = "begun"
    /\ LET owner == KeptOwner
           owners == KeptOwners(handler.seen)
       IN CASE handler.task = "arm" ->
                 \/ MayLease(owner, owners) /\ Proceed(owner, owners)
                 \* an observation too old, or somebody's lease
                 \/ Refuse(owner, owners, "rest")
            [] handler.task = "command" ->
                 IF Held(owner, owners) = Token /\ robot.hw.active # {}
                 THEN Proceed(owner, owners) ELSE Refuse(owner, owners, "quit")
            [] handler.task = "release" ->
                 IF Held(owner, owners) = Token
                 THEN Proceed(owner, Without(owners)) ELSE Refuse(owner, owners, "rest")
            [] handler.task = "stop_all" \/ (handler.task = "stop" /\ Whole) ->
                 Proceed(Nobody, Unleased)
            [] OTHER ->
                 IF owner = Nobody THEN Proceed(owner, Without(owners))
                 ELSE Refuse(owner, owners, "rest")
    /\ UNCHANGED <<robot, up, requests, scopeOf, snapshot, armedBy>>

\* Stops of the whole robot, and those that lift an inherited fault.
IsWhole == handler.task \in {"stop_all", "fault", "exit"} \/ Whole
Lifts == handler.task \in {"stop_all", "stop"}

Outcomes ==
    CASE handler.task = "arm" -> Arm(robot, Target)
      [] handler.task = "command" ->
           UNION {Command(robot, S) : S \in (SUBSET Target) \ {{}}}
      [] OTHER -> IF IsWhole THEN Stop(robot, Scopes, Lifts) ELSE Stop(robot, Target, FALSE)

\* What a handler makes of the robot's answer: a command that was not carried
\* out is followed by the stop of its scope.
Apply(ok, uncertain) ==
    CASE handler.task = "arm" ->
           /\ robot_owner' = IF ok /\ Whole THEN Token ELSE robot_owner
           /\ robot_owners' = [s \in Scopes |->
                 IF ok /\ ~Whole /\ s \in Target THEN Token ELSE robot_owners[s]]
           /\ Reply(IF ok THEN "armed" ELSE "rest")
           /\ UNCHANGED <<up, stop_unconfirmed>>
      [] handler.task = "command" /\ ok ->
           Reply("armed") /\ UNCHANGED <<up, server>>
      [] handler.task = "command" /\ ~ok ->
           /\ robot_owner' = IF Whole THEN Nobody ELSE robot_owner
           /\ robot_owners' = Without(robot_owners)
           /\ handler' = [handler EXCEPT !.task = "give_up"]
           /\ UNCHANGED <<up, stop_unconfirmed, client>>
      [] OTHER ->
           /\ stop_unconfirmed' = IF handler.task = "exit" THEN FALSE
                                  ELSE IF IsWhole THEN ~ok \/ uncertain
                                  ELSE stop_unconfirmed \/ ~ok
           /\ Reply(IF handler.task = "give_up" THEN "quit" ELSE "rest")
           /\ up' = (handler.task # "exit")
           /\ UNCHANGED <<robot_owner, robot_owners>>

\* platform.call: the robot's method under its lock, and the handler's rest.
Call ==
    /\ handler.at = "call"
    /\ \E o \in Outcomes :
         /\ Apply(o.ok, o.robot.hw.uncertain)
         /\ RobotBecomes(IF up' THEN o.robot ELSE ColdRestart(o.robot),
                         <<handler.req.client, handler.req.era>>)
    /\ UNCHANGED <<requests, scopeOf, snapshot>>

\* "observe" prunes the leases, and tells a client whose control is gone.
Observe(c) ==
    /\ up /\ handler = Idle /\ client[c].at = "armed"
    /\ robot_owner' = KeptOwner /\ robot_owners' = KeptOwners(robot.hw.active)
    /\ client' = [client EXCEPT ![c].at =
                    IF \/ robot.hw.active = {}
                       \/ /\ scopeOf[c] # "all"
                          /\ robot_owners'[scopeOf[c]] # TokenOf(c, client[c].era)
                    THEN "quit" ELSE @]
    /\ UNCHANGED <<robot, up, stop_unconfirmed, handler, requests, scopeOf, snapshot, armedBy>>

\* tick: a read that fails while somebody has control stops the robot.
TickFault ==
    /\ up /\ handler = Idle
    /\ robot_owner # Nobody \/ robot_owners # Unleased
    /\ robot_owner' = Nobody /\ robot_owners' = Unleased
    /\ handler' = [Idle EXCEPT !.at = "call", !.task = "fault"]
    /\ UNCHANGED <<robot, up, stop_unconfirmed, requests, client, scopeOf, snapshot, armedBy>>

-----------------------------------------------------------------------------
(* The watchdog thread.                                                    *)

\* Mutant: a scope that does not move is not watched.
WatchdogFiresInMotion(expired) ==
    /\ up /\ expired \subseteq robot.hw.active \cap robot.moving /\ expired # {}
    /\ \E o \in Watchdog(robot, expired) : RobotBecomes(o.robot, Nobody)
    /\ UNCHANGED <<up, server, handler, requests, client, scopeOf, snapshot>>

\* Any scope may have gone without a command for WATCHDOG_TIMEOUT_S.
WatchdogFires(expired) ==
    /\ up /\ expired \subseteq robot.hw.active /\ expired # {}
    /\ \E o \in Watchdog(robot, expired) : RobotBecomes(o.robot, Nobody)
    /\ UNCHANGED <<up, server, handler, requests, client, scopeOf, snapshot>>

-----------------------------------------------------------------------------
(* The end of the server, and its restart.                                 *)

\* What the process knew goes with it.
Ended == /\ up' = FALSE
         /\ RobotBecomes(ColdRestart(robot), Nobody)
         /\ robot_owner' = Nobody /\ robot_owners' = Unleased /\ stop_unconfirmed' = FALSE

\* close stops a robot that is still armed.
Exit ==
    /\ up /\ handler = Idle
    /\ IF robot.hw.active = {} THEN Ended /\ UNCHANGED handler
       ELSE /\ handler' = [Idle EXCEPT !.at = "call", !.task = "exit"]
            /\ robot_owner' = Nobody /\ robot_owners' = Unleased
            /\ UNCHANGED <<up, robot, stop_unconfirmed, armedBy>>
    /\ UNCHANGED <<requests, client, scopeOf, snapshot>>

Crash ==
    /\ up /\ Ended
    /\ handler' = Idle
    /\ UNCHANGED <<requests, client, scopeOf, snapshot>>

\* A maintenance handoff: the state of a server nobody controls is captured,
\* a fault whose all-stop was not confirmed or a robot confirmed at rest, and
\* the server is ended.
HandOver ==
    /\ up /\ handler = Idle /\ robot.hw.active = {}
    /\ robot_owner = Nobody /\ robot_owners = Unleased
    /\ \/ /\ stop_unconfirmed /\ robot.hw.uncertain /\ robot.hw.owned = Scopes
          /\ snapshot' = IF robot.hw.torn THEN "torn_fault" ELSE "fault"
       \/ /\ ~stop_unconfirmed /\ robot.moving = {}
          /\ snapshot' = "held"
    /\ Ended
    /\ UNCHANGED <<handler, requests, client, scopeOf>>

\* Torque and motion go on without the process, until somebody switches the
\* power off.
PowerOff ==
    /\ ~up /\ robot.powered # {}
    /\ robot' = [robot EXCEPT !.powered = {}, !.moving = {}]
    /\ snapshot' = "none"
    /\ UNCHANGED <<up, server, handler, requests, client, scopeOf, armedBy>>

Restart ==
    /\ ~up /\ up' = TRUE
    /\ snapshot' = "none"
    /\ \/ UNCHANGED robot
       \/ /\ snapshot \in {"fault", "torn_fault"} /\ robot.powered = Scopes
          /\ robot' = FaultRestart(robot, snapshot = "torn_fault")
       \/ /\ snapshot = "held" /\ robot.moving = {}
          /\ \E o \in HeldRestart(robot) : robot' = o.robot
    /\ stop_unconfirmed' = robot'.hw.uncertain
    /\ UNCHANGED <<robot_owner, robot_owners, handler, requests, client, scopeOf, armedBy>>

-----------------------------------------------------------------------------
OwnerNext ==
    \/ \E c \in Clients : \/ Enable(c) \/ Drive(c) \/ Halt(c)
                          \/ GiveUp(c) \/ ConnectionLost(c) \/ Observe(c)
    \/ LateLost
    \/ Accept \/ Resume \/ Call \/ TickFault
    \/ \E expired \in SUBSET Scopes : WatchdogFires(expired)
    \/ Exit \/ Crash \/ HandOver \/ Restart
    \/ PowerOff

Silent == requests = {} /\ handler = Idle

\* The watchdog thread wakes every 25 ms, and finds expired what nobody has
\* commanded for long enough.
Fairness == WF_ownerVars(Silent /\ \E expired \in SUBSET Scopes : WatchdogFires(expired))

OwnerSpec == OwnerInit /\ [][OwnerNext]_ownerVars /\ Fairness

-----------------------------------------------------------------------------
(* What must hold.                                                         *)

\* A command runs only on scopes that its own sender activated, by the very
\* enable it was sent under: not after a stop, an expiry or a lost lease in
\* between, and not because the sender has control again by the time a
\* delayed request is handled (robot_endpoint, server.py:1122-1124).
CommandsAreOwn ==
    [][/\ handler.at = "call" /\ handler.task = "command"
       /\ handler' = Idle /\ up'
       => \A s \in Target \cap robot.hw.active :
            armedBy[s] = <<handler.req.client, handler.req.era>>]_ownerVars

\* As long as one scope's last stop, enable or command has not been confirmed,
\* or a fault taken over has not been lifted, the process knows it and no scope
\* is active, whatever succeeded elsewhere; and a motor this process powered
\* turns only in a scope that the watchdog watches or with the doubt on record
\* (_stop_uncertain, hardware.py:1893, 1476, 1731).
DoubtStopsEverything ==
    /\ robot.doubt # {} => robot.hw.uncertain /\ robot.hw.active = {}
    /\ robot.hw.uncertain \/ robot.moving \cap robot.hw.owned \subseteq robot.hw.active

\* Whenever no handler is at work, a lease of the whole robot excludes leases
\* of its scopes, and every active scope is leased to the client and the
\* enable that activated it (server.py:1086-1105, refresh_robot_owners).
OneDriver ==
    handler = Idle =>
        /\ robot_owner # Nobody => robot_owners = Unleased
        /\ \A s \in robot.hw.active :
             /\ armedBy[s] # Nobody
             /\ TokenOf(armedBy[s][1], armedBy[s][2]) =
                  (IF robot_owner # Nobody THEN robot_owner ELSE robot_owners[s])

\* If from some time on nobody sends anything, every scope is dropped for
\* good, also when no stop can be confirmed and when the enable was handled
\* after its client had given up (_watchdog_loop, hardware.py:1980).
SilenceDisarms == <>[]Silent => <>[](robot.hw.active = {})
=============================================================================
