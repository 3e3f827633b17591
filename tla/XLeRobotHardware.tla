-------------------------- MODULE XLeRobotHardware --------------------------
(***************************************************************************)
(* The motors of the XLeRobot and the class that owns them, HardwareRobot  *)
(* of integrations/xlerobot_owner.  Every method of the class runs under   *)
(* _io_lock, so each is one step: an operator from what is known of the    *)
(* robot before to the set of outcomes it may have.  The servos may refuse *)
(* a write, answer a read with an error, or take a write and lose the      *)
(* answer; the class only ever learns whether a stop was confirmed.        *)
(*                                                                         *)
(* The joints fall into two control scopes, the arms and the base (wheels  *)
(* and camera tilt).  A robot is a record of                               *)
(*   hw      what HardwareRobot keeps: the scopes that are                 *)
(*             active   enabled (_active_scopes),                          *)
(*             owned    powered by this process (_owned_torque_names),     *)
(*             stopped  confirmed at rest since enabled (_stopped_scopes), *)
(*           and the flags byUs (_stopped_by_us), uncertain                *)
(*           (_stop_uncertain), inherited (_inherited_stop_fault) and torn *)
(*           (_torque_ownership_uncertain);                                *)
(*   moving  the scopes whose motors may turn, powered those whose motors  *)
(*           hold torque: physical, not memory of the process;             *)
(*   doubt   a history: the scopes whose last stop, enable or command went *)
(*           wrong and that no stop has confirmed at rest since, and       *)
(*           "inherited" while a fault taken over from an earlier process  *)
(*           has not been lifted by an operator's confirmed all-stop.      *)
(*                                                                         *)
(* Left out: positions, goals, rate limits, calibration and EEPROM checks  *)
(* (an enable or a command may be refused for no modelled reason), cameras *)
(* and diagnostics.  A scope counts as owned when one of its joints is.    *)
(***************************************************************************)
EXTENDS FiniteSets

Scopes == {"arms", "base"}

\* A process that has just constructed and connected a HardwareRobot.
NewHardware ==
    [active |-> {}, owned |-> {}, stopped |-> {},
     byUs |-> FALSE, uncertain |-> FALSE, inherited |-> FALSE, torn |-> FALSE]

\* What the class keeps, and what is known of the motors besides.
Hardware ==
    [active : SUBSET Scopes, owned : SUBSET Scopes, stopped : SUBSET Scopes,
     byUs : BOOLEAN, uncertain : BOOLEAN, inherited : BOOLEAN, torn : BOOLEAN]
Robots ==
    [hw : Hardware, moving : SUBSET Scopes, powered : SUBSET Scopes,
     doubt : SUBSET (Scopes \cup {"inherited"})]

Outcome(r, ok) == [robot |-> r, ok |-> ok]

-----------------------------------------------------------------------------
(* Stopping.                                                               *)

\* What _stop_locked records of a stop of the scopes S.  A confirmed stop of
\* one scope does not lift the doubt about the other one.
\* Mutant: the newest stop alone decides whether the robot is in doubt.
HaltedByLastStop(h, S, ok, lifts) ==
    LET inherited == h.inherited /\ ~lifts
        active == h.active \ S
    IN [h EXCEPT !.active = active,
                 !.inherited = inherited,
                 !.uncertain = inherited \/ ~ok,
                 !.byUs = ok /\ active = {},
                 !.stopped = IF ok THEN @ \cup S ELSE @]
Halted(h, S, ok, lifts) ==
    LET inherited == h.inherited /\ ~lifts
        active == h.active \ S
    IN [h EXCEPT !.active = active,
                 !.inherited = inherited,
                 !.uncertain = inherited \/ (h.uncertain /\ S # Scopes) \/ ~ok,
                 !.byUs = ok /\ active = {},
                 !.stopped = IF ok THEN @ \cup S ELSE @]

\* _stop_locked: with writes, every joint of S is told to hold or to stand
\* still, and two samples in a row must then show it at rest; without, only
\* the samples are taken, and a motion may have ended by itself.  recover is
\* the operator's explicit all-stop.
StopOf(r, S, writes, recover) ==
    LET lifts == recover /\ writes /\ S = Scopes
        confirmed ==
            Outcome([r EXCEPT !.hw = Halted(@, S, TRUE, lifts),
                              !.moving = @ \ S,
                              !.doubt = @ \ (S \cup (IF lifts THEN {"inherited"} ELSE {}))],
                    TRUE)
        unconfirmed(m) ==
            Outcome([r EXCEPT !.hw = Halted(@, S, FALSE, FALSE),
                              !.moving = m, !.doubt = @ \cup S],
                    FALSE)
    IN {confirmed} \cup {unconfirmed(r.moving \ X) : X \in SUBSET (IF writes THEN S ELSE {})}

\* A stop that leaves another scope active without being confirmed is
\* followed by a stop of the whole robot.
WholeIfUnconfirmed(o) ==
    IF o.ok \/ o.robot.hw.active = {} THEN {o} ELSE StopOf(o.robot, Scopes, TRUE, FALSE)

\* stop(scope), stop_all: nothing is written to motors this process has not
\* powered.  The answer is that of the stop asked for, not of the fallback.
Stop(r, S, recover) ==
    UNION {{Outcome(f.robot, o.ok) : f \in WholeIfUnconfirmed(o)} :
           o \in StopOf(r, S, r.hw.owned \cap S # {}, recover)}

\* The watchdog stops the scopes that had expired when it took the lock, one
\* after the other in no particular order; if a stop of its own breaks down it
\* drops every scope.
WatchdogError(r) ==
    Outcome([r EXCEPT !.hw = [@ EXCEPT !.active = {}, !.uncertain = TRUE],
                      !.doubt = @ \cup Scopes],
            FALSE)

WatchdogStop(r, s) ==
    {WatchdogError(r)} \cup UNION {WholeIfUnconfirmed(o) : o \in StopOf(r, {s}, TRUE, FALSE)}

Watchdog(r, expired) ==
    UNION {IF expired = {s} THEN WatchdogStop(r, s)
           ELSE UNION {WatchdogStop(o.robot, t) : o \in WatchdogStop(r, s), t \in expired \ {s}} :
           s \in expired}

-----------------------------------------------------------------------------
(* Enabling and commanding.                                                *)

\* Torque found on is our own only when it was left by a confirmed stop.
InternallyOwned(h) == {s \in h.owned : (h.byUs \/ s \in h.stopped) /\ ~h.uncertain}

\* _preflight reads every joint of S: at rest, and with no torque but our own.
Preflight(r, S) ==
    /\ r.powered \cap S \subseteq InternallyOwned(r.hw)
    /\ r.moving \cap S = {}

\* What arm asks before it writes: no scope of S active, and nothing in doubt.
MayArm(r, S) ==
    /\ S \cap r.hw.active = {}
    /\ ~r.hw.uncertain /\ ~r.hw.torn
    /\ Preflight(r, S)

Armed(r, S) ==
    [r EXCEPT !.hw = [r.hw EXCEPT !.active = @ \cup S, !.owned = @ \cup S,
                                  !.stopped = @ \ S, !.byUs = FALSE],
              !.powered = @ \cup S]

\* An enable that failed after torque was tried on T, of which P took it.
\* Every scope is dropped; a best-effort hold may or may not stop the rest.
ArmFailed(r, S, T, P, m) ==
    [r EXCEPT !.hw = [r.hw EXCEPT !.active = {}, !.owned = @ \cup T, !.byUs = FALSE,
                                  !.torn = T # {},
                                  !.uncertain = T # {} \/ r.hw.owned # {}],
              !.moving = m, !.powered = @ \cup P,
              !.doubt = @ \cup T \cup r.hw.active]

\* arm(scope): "already_armed" for a scope that is active, refused, failed
\* half-way, or armed.
Arm(r, S) ==
    IF S \subseteq r.hw.active THEN {Outcome(r, TRUE)}
    ELSE {Outcome(r, FALSE)} \cup
         IF ~MayArm(r, S) THEN {}
         ELSE {Outcome(Armed(r, S), TRUE)} \cup
              UNION {UNION {{Outcome(ArmFailed(r, S, T, P, m), FALSE) : m \in SUBSET r.moving} :
                            P \in SUBSET T} : T \in SUBSET S}

\* A command that could not be written in full: every scope is dropped.
\* Mutant: whether the robot stands still is not put in doubt.
CommandFailedQuietly(r, m) ==
    [r EXCEPT !.hw = [@ EXCEPT !.active = {}],
              !.moving = m, !.doubt = @ \cup r.hw.active]
CommandFailed(r, m) ==
    [r EXCEPT !.hw = [@ EXCEPT !.active = {}, !.uncertain = r.hw.owned # {}],
              !.moving = m, !.doubt = @ \cup r.hw.active]

\* command(action) for joints of the scopes S: run, rejected, or failed.
Command(r, S) ==
    {Outcome(r, FALSE)} \cup
    IF ~(S \subseteq r.hw.active) THEN {}
    ELSE {Outcome([r EXCEPT !.moving = @ \cup S], TRUE)} \cup
         {Outcome(CommandFailed(r, m), FALSE) : m \in SUBSET (r.moving \cup S)}

-----------------------------------------------------------------------------
(* A restart.  Torque and motion outlive the process; what it knew does    *)
(* not, unless a snapshot of it is handed over.                            *)

ColdRestart(r) == [r EXCEPT !.hw = NewHardware, !.doubt = {}]

\* restore_stop_fault: a fully powered robot whose last all-stop was not
\* confirmed is taken over with that fault; nothing is written or cleared.
FaultRestart(r, torn) ==
    [r EXCEPT !.hw = [NewHardware EXCEPT !.owned = Scopes, !.uncertain = TRUE,
                                         !.inherited = TRUE, !.torn = torn],
              !.doubt = Scopes \cup {"inherited"}]

\* restore_held_state: a robot found at rest with the torque and the goals of
\* the snapshot is taken over as stopped; a reading that does not confirm it
\* leaves a robot in doubt.
HeldRestart(r) ==
    {Outcome(IF o.ok
             THEN [o.robot EXCEPT !.hw = [@ EXCEPT !.owned = r.powered, !.stopped = Scopes,
                                                   !.byUs = TRUE]]
             ELSE o.robot, o.ok) : o \in StopOf(ColdRestart(r), Scopes, FALSE, FALSE)}
=============================================================================
