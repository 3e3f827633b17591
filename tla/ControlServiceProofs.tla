------------------------ MODULE ControlServiceProofs ------------------------
(***************************************************************************)
(* Proofs about ControlService, for any set of callers and any mix of      *)
(* their calls.                                                            *)
(***************************************************************************)
EXTENDS ControlService, TLAPS

Ensuring == {"ensure", "opening", "interrupt", "prepare", "ready"}

\* Where the calls of each kind can be.
Placed(c) ==
    /\ at[c] = "out" <=> call[c] = "none"
    /\ at[c] \in Ensuring => call[c] \in {"execute", "direct", "cancel", "acquire"}
    /\ at[c] \in {"task", "dropped"} => call[c] = "execute"
    /\ at[c] \in {"begun", "running", "finish"} => call[c] \in {"execute", "direct"}
    /\ at[c] = "take" => call[c] = "acquire"
    /\ at[c] = "clearing" => call[c] = "release"
    /\ at[c] = "latch" => call[c] = "estop"
    /\ at[c] = "clear" => call[c] = "reset"
    /\ at[c] \in {"look", "attach"} => call[c] = "observe"
    /\ at[c] = "holding" => call[c] # "observe"

PlacesInv == \A c \in Callers : Placed(c)

\* An arbiter is only made by the holder of _robot_lock, when there is none, and
\* for commands only before close() looks for it.
MakingInv ==
    /\ \A c \in Callers : at[c] \in {"opening", "attach"} => arbiter = "none"
    /\ \A c \in Callers : at[c] = "interrupt" => arbiter = "open"
    /\ \A c \in Callers : at[c] = "prepare" => arbiter # "none"
    /\ \A c \in Callers : at[c] \in {"opening", "interrupt"} => closeAt \in {"no", "reading"}
    /\ reserved \subseteq {c \in Callers : call[c] = "acquire"}
    /\ closed <=> closeAt # "no"

\* A call that works with the arbiter it was handed.
Engaged(c) ==
    \/ at[c] \in {"ready", "begun", "running", "dropped", "finish", "take", "clearing"}
    \/ at[c] = "holding" /\ call[c] \notin {"estop", "reset"}

\* Nobody has worked with the robot yet.
Unused ==
    /\ token = None /\ granted = {} /\ manualOwner \in reserved \cup {None}
    /\ ~moving /\ \A c \in Callers : ~Engaged(c)

UnusedInv ==
    \/ arbiter = "none" /\ closeAt \in {"no", "reading"}
    \/ \E c \in Callers : at[c] = "interrupt"
    => Unused

PreparedInv ==
    arbiter = "open" /\ ~robotPrepared =>
        /\ token = None /\ ~moving
        /\ manualOwner \in reserved \cup {None}
        /\ \A c \in Callers : ~Engaged(c)

ManualInv ==
    ~closed =>
        /\ granted \subseteq {manualOwner} /\ granted \cap reserved = {}
        /\ \A c \in Callers : call[c] = "acquire" => manualOwner = c
        /\ \A c \in Callers : call[c] = "release" => granted = {}
        /\ \/ granted # {}
           \/ \E c \in Callers : call[c] = "acquire" /\ at[c] = "holding"
           => authority # "MODEL"

\* An emergency stop is in the service as long as there is no arbiter, and in the
\* arbiter when there is one, at the latest when its maker has latched it.
StopInv ==
    stopped /\ ~escaped =>
        /\ arbiter = "none" /\ closeAt \in {"no", "reading"} => estopLatched
        /\ arbiter = "open" => authority = "ESTOP" \/ \E c \in Callers : at[c] = "interrupt"

\* Whatever moves under MODEL is going to be held by the owner of the token.
HeldInv ==
    arbiter = "open" /\ authority = "MODEL" /\ moving /\ ~dropped =>
        /\ token # None /\ call[token] \in {"execute", "direct"}
        /\ at[token] \in {"begun", "running", "finish", "holding"}

CloseInv ==
    /\ closeAt \in {"no", "reading"} => arbiter \in {"none", "open"}
    /\ closeAt = "arbiter" => arbiter = "open"
    /\ closeAt \in {"holding", "hub", "manager", "final", "done"} => arbiter # "open"
    /\ closeAt \in {"hub", "manager", "final", "done"} => closeFailed \/ ~moving
    /\ closeAt = "manager" => ~closeFailed
    /\ released => ~moving /\ closeAt \in {"final", "done"}

IInv ==
    /\ TypeOK /\ PlacesInv /\ LocksHeld /\ MakingInv /\ UnusedInv /\ PreparedInv
    /\ ManualInv /\ StopInv /\ HeldInv /\ CloseInv

-----------------------------------------------------------------------------

\* Every action keeps the types.
LEMMA TypeStep ==
    ASSUME IInv, Next
    PROVE  TypeOK'
<1> USE CallersAssumption, CallsAssumption DEF IInv, serviceVars, lockVars, arbiterVars,
   threadVars, closeVars, robotVars, historyVars
<1>1. ASSUME NEW c \in Callers, EnsureFinds(c) PROVE TypeOK'
  BY <1>1 DEF EnsureFinds, EnsureRest, Fails, Without, Returns, Moves, TypeOK, Places
<1>2. ASSUME NEW c \in Callers, EnsureOpens(c) PROVE TypeOK'
  BY <1>2 DEF EnsureOpens, EnsureRest, Fails, Without, Returns, Moves, TypeOK, Places
<1>3. ASSUME NEW c \in Callers, Opens(c) PROVE TypeOK'
  BY <1>3 DEF Opens, EnsureRest, NewArbiter, AfterOpening, Interrupted, Moves, Returns, TypeOK,
     Places
<1>4. ASSUME NEW c \in Callers, OpeningFails(c) PROVE TypeOK'
  BY <1>4 DEF OpeningFails, EnsureRest, Fails, Without, Returns, TypeOK, Places
<1>5. ASSUME NEW c \in Callers, Interrupts(c) PROVE TypeOK'
  BY <1>5 DEF Interrupts, EnsureRest, Fails, Without, Returns, Cancelled, TypeOK, Places
<1>6. ASSUME NEW c \in Callers, Prepares(c) PROVE TypeOK'
  BY <1>6 DEF Prepares, EnsureRest, Moves, Returns, TypeOK, Places
<1>7. ASSUME NEW c \in Callers, Execute(c) PROVE TypeOK'
  BY <1>7 DEF Execute, JobRest, Starts, Without, NewToken, TypeOK, Places
<1>8. ASSUME NEW c \in Callers, TaskLock(c) PROVE TypeOK'
  BY <1>8 DEF TaskLock, JobRest, Moves, Returns, TypeOK, Places
<1>9. ASSUME NEW c \in Callers, Direct(c) PROVE TypeOK'
  BY <1>9 DEF Direct, JobRest, Starts, Without, NewToken, TypeOK, Places
<1>10. ASSUME NEW c \in Callers, CancelEvent(c) PROVE TypeOK'
  BY <1>10 DEF CancelEvent, TypeOK, Places
<1>11. ASSUME NEW c \in Callers, Begins(c) PROVE TypeOK'
  BY <1>11 DEF Begins, JobRest, Moves, Returns, Without, Cancelled, TypeOK, Places
<1>12. ASSUME NEW c \in Callers, Registers(c) PROVE TypeOK'
  <2>1. dropped' \in BOOLEAN
    BY <1>12 DEF TypeOK, Registers, JobRest, Moves, Returns
  <2> QED
    BY <1>12, <2>1 DEF TypeOK, Places, Registers, JobRest, Moves, Returns
<1>13. ASSUME NEW c \in Callers, Drives(c) PROVE TypeOK'
  BY <1>13 DEF Drives, JobRest, MayDrive, Admits, TypeOK, Places
<1>14. ASSUME NEW c \in Callers, RunEnds(c) PROVE TypeOK'
  BY <1>14 DEF RunEnds, JobRest, Moves, Returns, Without, TypeOK, Places
<1>15. ASSUME NEW c \in Callers, Drops(c) PROVE TypeOK'
  BY <1>15 DEF Drops, JobRest, Moves, Returns, Without, TypeOK, Places
<1>16. ASSUME NEW c \in Callers, Finishes(c) PROVE TypeOK'
  BY <1>16 DEF Finishes, JobRest, Moves, Returns, Without, Cancelled, Owns, TypeOK, Places
<1>17. ASSUME NEW c \in Callers, Cancel(c) PROVE TypeOK'
  BY <1>17 DEF Cancel, JobRest, Starts, TypeOK, Places
<1>18. ASSUME NEW c \in Callers, CancelsWork(c) PROVE TypeOK'
  BY <1>18 DEF CancelsWork, JobRest, Moves, Returns, Cancelled, Owns, TypeOK, Places
<1>19. ASSUME NEW c \in Callers, Acquire(c) PROVE TypeOK'
  BY <1>19 DEF Acquire, ManualRest, Starts, OwnerIsFree, TypeOK, Places
<1>20. ASSUME NEW c \in Callers, CancelsForManual(c) PROVE TypeOK'
  BY <1>20 DEF CancelsForManual, ManualRest, Moves, Returns, CancelsTask, TypeOK, Places
<1>21. ASSUME NEW c \in Callers, Takes(c) PROVE TypeOK'
  BY <1>21 DEF Takes, Fails, Without, Returns, Moves, Cancelled, TypeOK, Places
<1>22. ASSUME NEW c \in Callers, Release(c) PROVE TypeOK'
  BY <1>22 DEF Release, ManualRest, Starts, TypeOK, Places
<1>23. ASSUME NEW c \in Callers, ReleaseClears(c) PROVE TypeOK'
  BY <1>23 DEF ReleaseClears, ManualRest, Moves, Returns, Without, TypeOK, Places
<1>24. ASSUME NEW c \in Callers, DrivesManually(c) PROVE TypeOK'
  BY <1>24 DEF DrivesManually, ManualRest, MayDriveManually, TypeOK, Places
<1>25. ASSUME NEW c \in Callers, EmergencyStopEarly(c) PROVE TypeOK'
  BY <1>25 DEF EmergencyStopEarly, StopRest, CancelsTask, TypeOK, Places
<1>26. ASSUME NEW c \in Callers, EmergencyStop(c) PROVE TypeOK'
  BY <1>26 DEF EmergencyStop, StopRest, Starts, CancelsTask, TypeOK, Places
<1>27. ASSUME NEW c \in Callers, Latches(c) PROVE TypeOK'
  <2>1. stopped' \in BOOLEAN
    BY <1>27 DEF TypeOK, Latches, StopRest, Moves, Returns, Cancelled
  <2> QED
    BY <1>27, <2>1 DEF TypeOK, Places, Latches, StopRest, Moves, Returns, Cancelled
<1>28. ASSUME NEW c \in Callers, Reset(c) PROVE TypeOK'
  BY <1>28 DEF Reset, StopRest, Starts, TypeOK, Places
<1>29. ASSUME NEW c \in Callers, ResetClears(c) PROVE TypeOK'
  <2>1. stopped' \in BOOLEAN
    BY <1>29 DEF TypeOK, ResetClears, StopRest, Moves, Returns
  <2>2. estopLatched' \in BOOLEAN
    BY <1>29 DEF TypeOK, ResetClears, StopRest, Moves, Returns
  <2> QED
    BY <1>29, <2>1, <2>2 DEF TypeOK, Places, ResetClears, StopRest, Moves, Returns
<1>30. ASSUME NEW c \in Callers, HoldSucceeds(c) PROVE TypeOK'
  <2>1. stopped' \in BOOLEAN
    BY <1>30 DEF TypeOK, HoldSucceeds, Moves, Returns, Without, AuthorityAfter
  <2>2. authority' \in {"MODEL", "MANUAL", "ESTOP"} /\ call' \in [Callers -> Calls \cup {"none"}]
        /\ at' \in [Callers -> Places]
    BY <1>30 DEF TypeOK, Places, HoldSucceeds, AuthorityAfter, Moves, Returns
  <2>3. token' \in Callers \cup {None} /\ granted' \subseteq Callers /\ moving' \in BOOLEAN
        /\ fresh' \subseteq Callers /\ reserved' \subseteq Callers
        /\ taskLock' \in Callers \cup {None} /\ manualLock' \in Callers \cup {None}
    BY <1>30 DEF TypeOK, HoldSucceeds, Without, Moves, Returns
  <2> QED
    BY <1>30, <2>1, <2>2, <2>3 DEF TypeOK, HoldSucceeds
<1>31. ASSUME NEW c \in Callers, HoldFails(c) PROVE TypeOK'
  BY <1>31 DEF HoldFails, Fails, Without, Returns, Cancelled, TypeOK, Places
<1>32. ASSUME NEW c \in Callers, Observe(c) PROVE TypeOK'
  BY <1>32 DEF Observe, ObserveRest, Starts, TypeOK, Places
<1>33. ASSUME NEW c \in Callers, Looks(c) PROVE TypeOK'
  BY <1>33 DEF Looks, ObserveRest, Moves, Returns, TypeOK, Places
<1>34. ASSUME NEW c \in Callers, Attaches(c) PROVE TypeOK'
  <2>1. escaped' \in BOOLEAN
    BY <1>34 DEF TypeOK, Attaches, ObserveRest, NewArbiter, Moves, Returns
  <2>2. robotPrepared' \in BOOLEAN
    BY <1>34 DEF TypeOK, Attaches, ObserveRest, NewArbiter, Moves, Returns
  <2> QED
    BY <1>34, <2>1, <2>2 DEF TypeOK, Places, Attaches, ObserveRest, NewArbiter, Moves, Returns
<1>35. CASE CloseBegins
  BY <1>35 DEF CloseBegins, CloseRest, CancelsTask, TypeOK, Places
<1>36. CASE CloseReads
  BY <1>36 DEF CloseReads, CloseRest, TypeOK, Places
<1>37. CASE CloseArbiter
  BY <1>37 DEF CloseArbiter, CloseRest, Cancelled, HoldsAtClose, TypeOK, Places
<1>38. CASE CloseHolds
  <2>1. moving' \in BOOLEAN
    BY <1>38 DEF TypeOK, CloseHolds, CloseRest
  <2>2. closeFailed' \in BOOLEAN
    BY <1>38 DEF TypeOK, CloseHolds, CloseRest
  <2> QED
    BY <1>38, <2>1, <2>2 DEF TypeOK, Places, CloseHolds, CloseRest
<1>39. CASE CloseHub
  BY <1>39 DEF CloseHub, CloseRest, KeepsDevice, TypeOK, Places
<1>40. CASE CloseManager
  BY <1>40 DEF CloseManager, CloseRest, TypeOK, Places
<1>41. CASE CloseEnds
  <2>1. robotPrepared' \in BOOLEAN
    BY <1>41 DEF TypeOK, CloseEnds, CloseRest
  <2>2. closeFailed' \in BOOLEAN
    BY <1>41 DEF TypeOK, CloseEnds, CloseRest
  <2> QED
    BY <1>41, <2>1, <2>2 DEF TypeOK, Places, CloseEnds, CloseRest
<1> QED
  BY <1>1, <1>2, <1>3, <1>4, <1>5, <1>6, <1>7, <1>8, <1>9, <1>10, <1>11, <1>12, <1>13, <1>14,
     <1>15, <1>16, <1>17, <1>18, <1>19, <1>20, <1>21, <1>22, <1>23, <1>24, <1>25, <1>26, <1>27,
     <1>28, <1>29, <1>30, <1>31, <1>32, <1>33, <1>34, <1>35, <1>36, <1>37, <1>38, <1>39, <1>40,
     <1>41
     DEF Next, CallBegins, Step, EnsureStep, JobStep, ManualStep, StopStep, ObserveStep, CloseStep

\* Calls go their ways.
LEMMA PlacesStep ==
    ASSUME IInv, Next
    PROVE  PlacesInv'
<1> USE CallersAssumption DEF IInv, serviceVars, lockVars, arbiterVars, threadVars, closeVars,
   robotVars, historyVars
<1>1. ASSUME NEW c \in Callers, EnsureFinds(c) PROVE PlacesInv'
  BY <1>1 DEF EnsureFinds, EnsureRest, Fails, Without, Returns, Moves, TypeOK, PlacesInv, Placed,
     Ensuring
<1>2. ASSUME NEW c \in Callers, EnsureOpens(c) PROVE PlacesInv'
  BY <1>2 DEF EnsureOpens, EnsureRest, Fails, Without, Returns, Moves, TypeOK, PlacesInv, Placed,
     Ensuring
<1>3. ASSUME NEW c \in Callers, Opens(c) PROVE PlacesInv'
  BY <1>3 DEF Opens, EnsureRest, NewArbiter, AfterOpening, Interrupted, Moves, Returns, TypeOK,
     PlacesInv, Placed, Ensuring
<1>4. ASSUME NEW c \in Callers, OpeningFails(c) PROVE PlacesInv'
  BY <1>4 DEF OpeningFails, EnsureRest, Fails, Without, Returns, TypeOK, PlacesInv, Placed,
     Ensuring
<1>5. ASSUME NEW c \in Callers, Interrupts(c) PROVE PlacesInv'
  BY <1>5 DEF Interrupts, EnsureRest, Fails, Without, Returns, Cancelled, TypeOK, PlacesInv,
     Placed, Ensuring
<1>6. ASSUME NEW c \in Callers, Prepares(c) PROVE PlacesInv'
  BY <1>6 DEF Prepares, EnsureRest, Moves, Returns, TypeOK, PlacesInv, Placed, Ensuring
<1>7. ASSUME NEW c \in Callers, Execute(c) PROVE PlacesInv'
  BY <1>7 DEF Execute, JobRest, Starts, Without, NewToken, TypeOK, PlacesInv, Placed, Ensuring
<1>8. ASSUME NEW c \in Callers, TaskLock(c) PROVE PlacesInv'
  BY <1>8 DEF TaskLock, JobRest, Moves, Returns, TypeOK, PlacesInv, Placed, Ensuring
<1>9. ASSUME NEW c \in Callers, Direct(c) PROVE PlacesInv'
  BY <1>9 DEF Direct, JobRest, Starts, Without, NewToken, TypeOK, PlacesInv, Placed, Ensuring
<1>10. ASSUME NEW c \in Callers, CancelEvent(c) PROVE PlacesInv'
  BY <1>10 DEF CancelEvent, TypeOK, PlacesInv, Placed, Ensuring
<1>11. ASSUME NEW c \in Callers, Begins(c) PROVE PlacesInv'
  BY <1>11 DEF Begins, JobRest, Moves, Returns, Without, Cancelled, TypeOK, PlacesInv, Placed,
     Ensuring
<1>12. ASSUME NEW c \in Callers, Registers(c) PROVE PlacesInv'
  BY <1>12 DEF Registers, JobRest, Moves, Returns, TypeOK, PlacesInv, Placed, Ensuring
<1>13. ASSUME NEW c \in Callers, Drives(c) PROVE PlacesInv'
  BY <1>13 DEF Drives, JobRest, MayDrive, Admits, TypeOK, PlacesInv, Placed, Ensuring
<1>14. ASSUME NEW c \in Callers, RunEnds(c) PROVE PlacesInv'
  BY <1>14 DEF RunEnds, JobRest, Moves, Returns, Without, TypeOK, PlacesInv, Placed, Ensuring
<1>15. ASSUME NEW c \in Callers, Drops(c) PROVE PlacesInv'
  BY <1>15 DEF Drops, JobRest, Moves, Returns, Without, TypeOK, PlacesInv, Placed, Ensuring
<1>16. ASSUME NEW c \in Callers, Finishes(c) PROVE PlacesInv'
  BY <1>16 DEF Finishes, JobRest, Moves, Returns, Without, Cancelled, Owns, TypeOK, PlacesInv,
     Placed, Ensuring
<1>17. ASSUME NEW c \in Callers, Cancel(c) PROVE PlacesInv'
  BY <1>17 DEF Cancel, JobRest, Starts, TypeOK, PlacesInv, Placed, Ensuring
<1>18. ASSUME NEW c \in Callers, CancelsWork(c) PROVE PlacesInv'
  BY <1>18 DEF CancelsWork, JobRest, Moves, Returns, Cancelled, Owns, TypeOK, PlacesInv, Placed,
     Ensuring
<1>19. ASSUME NEW c \in Callers, Acquire(c) PROVE PlacesInv'
  BY <1>19 DEF Acquire, ManualRest, Starts, OwnerIsFree, TypeOK, PlacesInv, Placed, Ensuring
<1>20. ASSUME NEW c \in Callers, CancelsForManual(c) PROVE PlacesInv'
  BY <1>20 DEF CancelsForManual, ManualRest, Moves, Returns, CancelsTask, TypeOK, PlacesInv,
     Placed, Ensuring
<1>21. ASSUME NEW c \in Callers, Takes(c) PROVE PlacesInv'
  BY <1>21 DEF Takes, Fails, Without, Returns, Moves, Cancelled, TypeOK, PlacesInv, Placed,
     Ensuring
<1>22. ASSUME NEW c \in Callers, Release(c) PROVE PlacesInv'
  BY <1>22 DEF Release, ManualRest, Starts, TypeOK, PlacesInv, Placed, Ensuring
<1>23. ASSUME NEW c \in Callers, ReleaseClears(c) PROVE PlacesInv'
  BY <1>23 DEF ReleaseClears, ManualRest, Moves, Returns, Without, TypeOK, PlacesInv, Placed,
     Ensuring
<1>24. ASSUME NEW c \in Callers, DrivesManually(c) PROVE PlacesInv'
  BY <1>24 DEF DrivesManually, ManualRest, MayDriveManually, TypeOK, PlacesInv, Placed, Ensuring
<1>25. ASSUME NEW c \in Callers, EmergencyStopEarly(c) PROVE PlacesInv'
  BY <1>25 DEF EmergencyStopEarly, StopRest, CancelsTask, TypeOK, PlacesInv, Placed, Ensuring
<1>26. ASSUME NEW c \in Callers, EmergencyStop(c) PROVE PlacesInv'
  BY <1>26 DEF EmergencyStop, StopRest, Starts, CancelsTask, TypeOK, PlacesInv, Placed, Ensuring
<1>27. ASSUME NEW c \in Callers, Latches(c) PROVE PlacesInv'
  BY <1>27 DEF Latches, StopRest, Moves, Returns, Cancelled, TypeOK, PlacesInv, Placed, Ensuring
<1>28. ASSUME NEW c \in Callers, Reset(c) PROVE PlacesInv'
  BY <1>28 DEF Reset, StopRest, Starts, TypeOK, PlacesInv, Placed, Ensuring
<1>29. ASSUME NEW c \in Callers, ResetClears(c) PROVE PlacesInv'
  BY <1>29 DEF ResetClears, StopRest, Moves, Returns, TypeOK, PlacesInv, Placed, Ensuring
<1>30. ASSUME NEW c \in Callers, HoldSucceeds(c) PROVE PlacesInv'
  BY <1>30 DEF HoldSucceeds, Moves, Returns, Without, AuthorityAfter, TypeOK, PlacesInv, Placed,
     Ensuring
<1>31. ASSUME NEW c \in Callers, HoldFails(c) PROVE PlacesInv'
  BY <1>31 DEF HoldFails, Fails, Without, Returns, Cancelled, TypeOK, PlacesInv, Placed, Ensuring
<1>32. ASSUME NEW c \in Callers, Observe(c) PROVE PlacesInv'
  BY <1>32 DEF Observe, ObserveRest, Starts, TypeOK, PlacesInv, Placed, Ensuring
<1>33. ASSUME NEW c \in Callers, Looks(c) PROVE PlacesInv'
  BY <1>33 DEF Looks, ObserveRest, Moves, Returns, TypeOK, PlacesInv, Placed, Ensuring
<1>34. ASSUME NEW c \in Callers, Attaches(c) PROVE PlacesInv'
  BY <1>34 DEF Attaches, ObserveRest, NewArbiter, Moves, Returns, TypeOK, PlacesInv, Placed,
     Ensuring
<1>35. CASE CloseBegins
  BY <1>35 DEF CloseBegins, CloseRest, CancelsTask, TypeOK, PlacesInv, Placed, Ensuring
<1>36. CASE CloseReads
  BY <1>36 DEF CloseReads, CloseRest, TypeOK, PlacesInv, Placed, Ensuring
<1>37. CASE CloseArbiter
  BY <1>37 DEF CloseArbiter, CloseRest, Cancelled, HoldsAtClose, TypeOK, PlacesInv, Placed,
     Ensuring
<1>38. CASE CloseHolds
  BY <1>38 DEF CloseHolds, CloseRest, TypeOK, PlacesInv, Placed, Ensuring
<1>39. CASE CloseHub
  BY <1>39 DEF CloseHub, CloseRest, KeepsDevice, TypeOK, PlacesInv, Placed, Ensuring
<1>40. CASE CloseManager
  BY <1>40 DEF CloseManager, CloseRest, TypeOK, PlacesInv, Placed, Ensuring
<1>41. CASE CloseEnds
  BY <1>41 DEF CloseEnds, CloseRest, TypeOK, PlacesInv, Placed, Ensuring
<1> QED
  BY <1>1, <1>2, <1>3, <1>4, <1>5, <1>6, <1>7, <1>8, <1>9, <1>10, <1>11, <1>12, <1>13, <1>14,
     <1>15, <1>16, <1>17, <1>18, <1>19, <1>20, <1>21, <1>22, <1>23, <1>24, <1>25, <1>26, <1>27,
     <1>28, <1>29, <1>30, <1>31, <1>32, <1>33, <1>34, <1>35, <1>36, <1>37, <1>38, <1>39, <1>40,
     <1>41
     DEF Next, CallBegins, Step, EnsureStep, JobStep, ManualStep, StopStep, ObserveStep, CloseStep

\* A lock is taken and given up with the section it belongs to.
LEMMA LockStep ==
    ASSUME IInv, Next
    PROVE  LocksHeld'
<1> USE CallersAssumption DEF IInv, serviceVars, lockVars, arbiterVars, threadVars, closeVars,
   robotVars, historyVars
<1>1. ASSUME NEW c \in Callers, EnsureFinds(c) PROVE LocksHeld'
  BY <1>1 DEF EnsureFinds, EnsureRest, Fails, Without, Returns, Moves, TypeOK, LocksHeld,
     MakingInv, PlacesInv, Placed, Ensuring, CloseInv
<1>2. ASSUME NEW c \in Callers, EnsureOpens(c) PROVE LocksHeld'
  BY <1>2 DEF EnsureOpens, EnsureRest, Fails, Without, Returns, Moves, TypeOK, LocksHeld,
     MakingInv, PlacesInv, Placed, Ensuring, CloseInv
<1>3. ASSUME NEW c \in Callers, Opens(c) PROVE LocksHeld'
  BY <1>3 DEF Opens, EnsureRest, NewArbiter, AfterOpening, Interrupted, Moves, Returns, TypeOK,
     LocksHeld, MakingInv, PlacesInv, Placed, Ensuring, CloseInv
<1>4. ASSUME NEW c \in Callers, OpeningFails(c) PROVE LocksHeld'
  BY <1>4 DEF OpeningFails, EnsureRest, Fails, Without, Returns, TypeOK, LocksHeld, MakingInv,
     PlacesInv, Placed, Ensuring, CloseInv
<1>5. ASSUME NEW c \in Callers, Interrupts(c) PROVE LocksHeld'
  BY <1>5 DEF Interrupts, EnsureRest, Fails, Without, Returns, Cancelled, TypeOK, LocksHeld,
     MakingInv, PlacesInv, Placed, Ensuring, CloseInv
<1>6. ASSUME NEW c \in Callers, Prepares(c) PROVE LocksHeld'
  BY <1>6 DEF Prepares, EnsureRest, Moves, Returns, TypeOK, LocksHeld, MakingInv, PlacesInv,
     Placed, Ensuring, CloseInv
<1>7. ASSUME NEW c \in Callers, Execute(c) PROVE LocksHeld'
  BY <1>7 DEF Execute, JobRest, Starts, Without, NewToken, TypeOK, LocksHeld, MakingInv,
     PlacesInv, Placed, Ensuring, CloseInv
<1>8. ASSUME NEW c \in Callers, TaskLock(c) PROVE LocksHeld'
  BY <1>8 DEF TaskLock, JobRest, Moves, Returns, TypeOK, LocksHeld, MakingInv, PlacesInv, Placed,
     Ensuring, CloseInv
<1>9. ASSUME NEW c \in Callers, Direct(c) PROVE LocksHeld'
  BY <1>9 DEF Direct, JobRest, Starts, Without, NewToken, TypeOK, LocksHeld, MakingInv, PlacesInv,
     Placed, Ensuring, CloseInv
<1>10. ASSUME NEW c \in Callers, CancelEvent(c) PROVE LocksHeld'
  BY <1>10 DEF CancelEvent, TypeOK, LocksHeld, MakingInv, PlacesInv, Placed, Ensuring, CloseInv
<1>11. ASSUME NEW c \in Callers, Begins(c) PROVE LocksHeld'
  BY <1>11 DEF Begins, JobRest, Moves, Returns, Without, Cancelled, TypeOK, LocksHeld, MakingInv,
     PlacesInv, Placed, Ensuring, CloseInv
<1>12. ASSUME NEW c \in Callers, Registers(c) PROVE LocksHeld'
  BY <1>12 DEF Registers, JobRest, Moves, Returns, TypeOK, LocksHeld, MakingInv, PlacesInv,
     Placed, Ensuring, CloseInv
<1>13. ASSUME NEW c \in Callers, Drives(c) PROVE LocksHeld'
  BY <1>13 DEF Drives, JobRest, MayDrive, Admits, TypeOK, LocksHeld, MakingInv, PlacesInv, Placed,
     Ensuring, CloseInv
<1>14. ASSUME NEW c \in Callers, RunEnds(c) PROVE LocksHeld'
  BY <1>14 DEF RunEnds, JobRest, Moves, Returns, Without, TypeOK, LocksHeld, MakingInv, PlacesInv,
     Placed, Ensuring, CloseInv
<1>15. ASSUME NEW c \in Callers, Drops(c) PROVE LocksHeld'
  BY <1>15 DEF Drops, JobRest, Moves, Returns, Without, TypeOK, LocksHeld, MakingInv, PlacesInv,
     Placed, Ensuring, CloseInv
<1>16. ASSUME NEW c \in Callers, Finishes(c) PROVE LocksHeld'
  BY <1>16 DEF Finishes, JobRest, Moves, Returns, Without, Cancelled, Owns, TypeOK, LocksHeld,
     MakingInv, PlacesInv, Placed, Ensuring, CloseInv
<1>17. ASSUME NEW c \in Callers, Cancel(c) PROVE LocksHeld'
  BY <1>17 DEF Cancel, JobRest, Starts, TypeOK, LocksHeld, MakingInv, PlacesInv, Placed, Ensuring,
     CloseInv
<1>18. ASSUME NEW c \in Callers, CancelsWork(c) PROVE LocksHeld'
  BY <1>18 DEF CancelsWork, JobRest, Moves, Returns, Cancelled, Owns, TypeOK, LocksHeld,
     MakingInv, PlacesInv, Placed, Ensuring, CloseInv
<1>19. ASSUME NEW c \in Callers, Acquire(c) PROVE LocksHeld'
  BY <1>19 DEF Acquire, ManualRest, Starts, OwnerIsFree, TypeOK, LocksHeld, MakingInv, PlacesInv,
     Placed, Ensuring, CloseInv
<1>20. ASSUME NEW c \in Callers, CancelsForManual(c) PROVE LocksHeld'
  BY <1>20 DEF CancelsForManual, ManualRest, Moves, Returns, CancelsTask, TypeOK, LocksHeld,
     MakingInv, PlacesInv, Placed, Ensuring, CloseInv
<1>21. ASSUME NEW c \in Callers, Takes(c) PROVE LocksHeld'
  BY <1>21 DEF Takes, Fails, Without, Returns, Moves, Cancelled, TypeOK, LocksHeld, MakingInv,
     PlacesInv, Placed, Ensuring, CloseInv
<1>22. ASSUME NEW c \in Callers, Release(c) PROVE LocksHeld'
  BY <1>22 DEF Release, ManualRest, Starts, TypeOK, LocksHeld, MakingInv, PlacesInv, Placed,
     Ensuring, CloseInv
<1>23. ASSUME NEW c \in Callers, ReleaseClears(c) PROVE LocksHeld'
  BY <1>23 DEF ReleaseClears, ManualRest, Moves, Returns, Without, TypeOK, LocksHeld, MakingInv,
     PlacesInv, Placed, Ensuring, CloseInv
<1>24. ASSUME NEW c \in Callers, DrivesManually(c) PROVE LocksHeld'
  BY <1>24 DEF DrivesManually, ManualRest, MayDriveManually, TypeOK, LocksHeld, MakingInv,
     PlacesInv, Placed, Ensuring, CloseInv
<1>25. ASSUME NEW c \in Callers, EmergencyStopEarly(c) PROVE LocksHeld'
  BY <1>25 DEF EmergencyStopEarly, StopRest, CancelsTask, TypeOK, LocksHeld, MakingInv, PlacesInv,
     Placed, Ensuring, CloseInv
<1>26. ASSUME NEW c \in Callers, EmergencyStop(c) PROVE LocksHeld'
  BY <1>26 DEF EmergencyStop, StopRest, Starts, CancelsTask, TypeOK, LocksHeld, MakingInv,
     PlacesInv, Placed, Ensuring, CloseInv
<1>27. ASSUME NEW c \in Callers, Latches(c) PROVE LocksHeld'
  BY <1>27 DEF Latches, StopRest, Moves, Returns, Cancelled, TypeOK, LocksHeld, MakingInv,
     PlacesInv, Placed, Ensuring, CloseInv
<1>28. ASSUME NEW c \in Callers, Reset(c) PROVE LocksHeld'
  BY <1>28 DEF Reset, StopRest, Starts, TypeOK, LocksHeld, MakingInv, PlacesInv, Placed, Ensuring,
     CloseInv
<1>29. ASSUME NEW c \in Callers, ResetClears(c) PROVE LocksHeld'
  BY <1>29 DEF ResetClears, StopRest, Moves, Returns, TypeOK, LocksHeld, MakingInv, PlacesInv,
     Placed, Ensuring, CloseInv
<1>30. ASSUME NEW c \in Callers, HoldSucceeds(c) PROVE LocksHeld'
  BY <1>30 DEF HoldSucceeds, Moves, Returns, Without, AuthorityAfter, TypeOK, LocksHeld,
     MakingInv, PlacesInv, Placed, Ensuring, CloseInv
<1>31. ASSUME NEW c \in Callers, HoldFails(c) PROVE LocksHeld'
  BY <1>31 DEF HoldFails, Fails, Without, Returns, Cancelled, TypeOK, LocksHeld, MakingInv,
     PlacesInv, Placed, Ensuring, CloseInv
<1>32. ASSUME NEW c \in Callers, Observe(c) PROVE LocksHeld'
  BY <1>32 DEF Observe, ObserveRest, Starts, TypeOK, LocksHeld, MakingInv, PlacesInv, Placed,
     Ensuring, CloseInv
<1>33. ASSUME NEW c \in Callers, Looks(c) PROVE LocksHeld'
  BY <1>33 DEF Looks, ObserveRest, Moves, Returns, TypeOK, LocksHeld, MakingInv, PlacesInv,
     Placed, Ensuring, CloseInv
<1>34. ASSUME NEW c \in Callers, Attaches(c) PROVE LocksHeld'
  BY <1>34 DEF Attaches, ObserveRest, NewArbiter, Moves, Returns, TypeOK, LocksHeld, MakingInv,
     PlacesInv, Placed, Ensuring, CloseInv
<1>35. CASE CloseBegins
  BY <1>35 DEF CloseBegins, CloseRest, CancelsTask, TypeOK, LocksHeld, MakingInv, PlacesInv,
     Placed, Ensuring, CloseInv
<1>36. CASE CloseReads
  BY <1>36 DEF CloseReads, CloseRest, TypeOK, LocksHeld, MakingInv, PlacesInv, Placed, Ensuring,
     CloseInv
<1>37. CASE CloseArbiter
  BY <1>37 DEF CloseArbiter, CloseRest, Cancelled, HoldsAtClose, TypeOK, LocksHeld, MakingInv,
     PlacesInv, Placed, Ensuring, CloseInv
<1>38. CASE CloseHolds
  BY <1>38 DEF CloseHolds, CloseRest, TypeOK, LocksHeld, MakingInv, PlacesInv, Placed, Ensuring,
     CloseInv
<1>39. CASE CloseHub
  BY <1>39 DEF CloseHub, CloseRest, KeepsDevice, TypeOK, LocksHeld, MakingInv, PlacesInv, Placed,
     Ensuring, CloseInv
<1>40. CASE CloseManager
  BY <1>40 DEF CloseManager, CloseRest, TypeOK, LocksHeld, MakingInv, PlacesInv, Placed, Ensuring,
     CloseInv
<1>41. CASE CloseEnds
  BY <1>41 DEF CloseEnds, CloseRest, TypeOK, LocksHeld, MakingInv, PlacesInv, Placed, Ensuring,
     CloseInv
<1> QED
  BY <1>1, <1>2, <1>3, <1>4, <1>5, <1>6, <1>7, <1>8, <1>9, <1>10, <1>11, <1>12, <1>13, <1>14,
     <1>15, <1>16, <1>17, <1>18, <1>19, <1>20, <1>21, <1>22, <1>23, <1>24, <1>25, <1>26, <1>27,
     <1>28, <1>29, <1>30, <1>31, <1>32, <1>33, <1>34, <1>35, <1>36, <1>37, <1>38, <1>39, <1>40,
     <1>41
     DEF Next, CallBegins, Step, EnsureStep, JobStep, ManualStep, StopStep, ObserveStep, CloseStep

\* An arbiter is made once, while nobody else looks.
LEMMA MakingStep ==
    ASSUME IInv, Next
    PROVE  MakingInv'
<1> USE CallersAssumption DEF IInv, serviceVars, lockVars, arbiterVars, threadVars, closeVars,
   robotVars, historyVars
<1>1. ASSUME NEW c \in Callers, EnsureFinds(c) PROVE MakingInv'
  BY <1>1 DEF EnsureFinds, EnsureRest, Fails, Without, Returns, Moves, TypeOK, LocksHeld,
     MakingInv, PlacesInv, Placed, Ensuring, CloseInv
<1>2. ASSUME NEW c \in Callers, EnsureOpens(c) PROVE MakingInv'
  BY <1>2 DEF EnsureOpens, EnsureRest, Fails, Without, Returns, Moves, TypeOK, LocksHeld,
     MakingInv, PlacesInv, Placed, Ensuring, CloseInv
<1>3. ASSUME NEW c \in Callers, Opens(c) PROVE MakingInv'
  BY <1>3 DEF Opens, EnsureRest, NewArbiter, AfterOpening, Interrupted, Moves, Returns, TypeOK,
     LocksHeld, MakingInv, PlacesInv, Placed, Ensuring, CloseInv
<1>4. ASSUME NEW c \in Callers, OpeningFails(c) PROVE MakingInv'
  BY <1>4 DEF OpeningFails, EnsureRest, Fails, Without, Returns, TypeOK, LocksHeld, MakingInv,
     PlacesInv, Placed, Ensuring, CloseInv
<1>5. ASSUME NEW c \in Callers, Interrupts(c) PROVE MakingInv'
  BY <1>5 DEF Interrupts, EnsureRest, Fails, Without, Returns, Cancelled, TypeOK, LocksHeld,
     MakingInv, PlacesInv, Placed, Ensuring, CloseInv
<1>6. ASSUME NEW c \in Callers, Prepares(c) PROVE MakingInv'
  BY <1>6 DEF Prepares, EnsureRest, Moves, Returns, TypeOK, LocksHeld, MakingInv, PlacesInv,
     Placed, Ensuring, CloseInv
<1>7. ASSUME NEW c \in Callers, Execute(c) PROVE MakingInv'
  BY <1>7 DEF Execute, JobRest, Starts, Without, NewToken, TypeOK, LocksHeld, MakingInv,
     PlacesInv, Placed, Ensuring, CloseInv
<1>8. ASSUME NEW c \in Callers, TaskLock(c) PROVE MakingInv'
  BY <1>8 DEF TaskLock, JobRest, Moves, Returns, TypeOK, LocksHeld, MakingInv, PlacesInv, Placed,
     Ensuring, CloseInv
<1>9. ASSUME NEW c \in Callers, Direct(c) PROVE MakingInv'
  BY <1>9 DEF Direct, JobRest, Starts, Without, NewToken, TypeOK, LocksHeld, MakingInv, PlacesInv,
     Placed, Ensuring, CloseInv
<1>10. ASSUME NEW c \in Callers, CancelEvent(c) PROVE MakingInv'
  BY <1>10 DEF CancelEvent, TypeOK, LocksHeld, MakingInv, PlacesInv, Placed, Ensuring, CloseInv
<1>11. ASSUME NEW c \in Callers, Begins(c) PROVE MakingInv'
  BY <1>11 DEF Begins, JobRest, Moves, Returns, Without, Cancelled, TypeOK, LocksHeld, MakingInv,
     PlacesInv, Placed, Ensuring, CloseInv
<1>12. ASSUME NEW c \in Callers, Registers(c) PROVE MakingInv'
  BY <1>12 DEF Registers, JobRest, Moves, Returns, TypeOK, LocksHeld, MakingInv, PlacesInv,
     Placed, Ensuring, CloseInv
<1>13. ASSUME NEW c \in Callers, Drives(c) PROVE MakingInv'
  BY <1>13 DEF Drives, JobRest, MayDrive, Admits, TypeOK, LocksHeld, MakingInv, PlacesInv, Placed,
     Ensuring, CloseInv
<1>14. ASSUME NEW c \in Callers, RunEnds(c) PROVE MakingInv'
  BY <1>14 DEF RunEnds, JobRest, Moves, Returns, Without, TypeOK, LocksHeld, MakingInv, PlacesInv,
     Placed, Ensuring, CloseInv
<1>15. ASSUME NEW c \in Callers, Drops(c) PROVE MakingInv'
  BY <1>15 DEF Drops, JobRest, Moves, Returns, Without, TypeOK, LocksHeld, MakingInv, PlacesInv,
     Placed, Ensuring, CloseInv
<1>16. ASSUME NEW c \in Callers, Finishes(c) PROVE MakingInv'
  BY <1>16 DEF Finishes, JobRest, Moves, Returns, Without, Cancelled, Owns, TypeOK, LocksHeld,
     MakingInv, PlacesInv, Placed, Ensuring, CloseInv
<1>17. ASSUME NEW c \in Callers, Cancel(c) PROVE MakingInv'
  BY <1>17 DEF Cancel, JobRest, Starts, TypeOK, LocksHeld, MakingInv, PlacesInv, Placed, Ensuring,
     CloseInv
<1>18. ASSUME NEW c \in Callers, CancelsWork(c) PROVE MakingInv'
  BY <1>18 DEF CancelsWork, JobRest, Moves, Returns, Cancelled, Owns, TypeOK, LocksHeld,
     MakingInv, PlacesInv, Placed, Ensuring, CloseInv
<1>19. ASSUME NEW c \in Callers, Acquire(c) PROVE MakingInv'
  BY <1>19 DEF Acquire, ManualRest, Starts, OwnerIsFree, TypeOK, LocksHeld, MakingInv, PlacesInv,
     Placed, Ensuring, CloseInv
<1>20. ASSUME NEW c \in Callers, CancelsForManual(c) PROVE MakingInv'
  BY <1>20 DEF CancelsForManual, ManualRest, Moves, Returns, CancelsTask, TypeOK, LocksHeld,
     MakingInv, PlacesInv, Placed, Ensuring, CloseInv
<1>21. ASSUME NEW c \in Callers, Takes(c) PROVE MakingInv'
  BY <1>21 DEF Takes, Fails, Without, Returns, Moves, Cancelled, TypeOK, LocksHeld, MakingInv,
     PlacesInv, Placed, Ensuring, CloseInv
<1>22. ASSUME NEW c \in Callers, Release(c) PROVE MakingInv'
  BY <1>22 DEF Release, ManualRest, Starts, TypeOK, LocksHeld, MakingInv, PlacesInv, Placed,
     Ensuring, CloseInv
<1>23. ASSUME NEW c \in Callers, ReleaseClears(c) PROVE MakingInv'
  BY <1>23 DEF ReleaseClears, ManualRest, Moves, Returns, Without, TypeOK, LocksHeld, MakingInv,
     PlacesInv, Placed, Ensuring, CloseInv
<1>24. ASSUME NEW c \in Callers, DrivesManually(c) PROVE MakingInv'
  BY <1>24 DEF DrivesManually, ManualRest, MayDriveManually, TypeOK, LocksHeld, MakingInv,
     PlacesInv, Placed, Ensuring, CloseInv
<1>25. ASSUME NEW c \in Callers, EmergencyStopEarly(c) PROVE MakingInv'
  BY <1>25 DEF EmergencyStopEarly, StopRest, CancelsTask, TypeOK, LocksHeld, MakingInv, PlacesInv,
     Placed, Ensuring, CloseInv
<1>26. ASSUME NEW c \in Callers, EmergencyStop(c) PROVE MakingInv'
  BY <1>26 DEF EmergencyStop, StopRest, Starts, CancelsTask, TypeOK, LocksHeld, MakingInv,
     PlacesInv, Placed, Ensuring, CloseInv
<1>27. ASSUME NEW c \in Callers, Latches(c) PROVE MakingInv'
  BY <1>27 DEF Latches, StopRest, Moves, Returns, Cancelled, TypeOK, LocksHeld, MakingInv,
     PlacesInv, Placed, Ensuring, CloseInv
<1>28. ASSUME NEW c \in Callers, Reset(c) PROVE MakingInv'
  BY <1>28 DEF Reset, StopRest, Starts, TypeOK, LocksHeld, MakingInv, PlacesInv, Placed, Ensuring,
     CloseInv
<1>29. ASSUME NEW c \in Callers, ResetClears(c) PROVE MakingInv'
  BY <1>29 DEF ResetClears, StopRest, Moves, Returns, TypeOK, LocksHeld, MakingInv, PlacesInv,
     Placed, Ensuring, CloseInv
<1>30. ASSUME NEW c \in Callers, HoldSucceeds(c) PROVE MakingInv'
  BY <1>30 DEF HoldSucceeds, Moves, Returns, Without, AuthorityAfter, TypeOK, LocksHeld,
     MakingInv, PlacesInv, Placed, Ensuring, CloseInv
<1>31. ASSUME NEW c \in Callers, HoldFails(c) PROVE MakingInv'
  BY <1>31 DEF HoldFails, Fails, Without, Returns, Cancelled, TypeOK, LocksHeld, MakingInv,
     PlacesInv, Placed, Ensuring, CloseInv
<1>32. ASSUME NEW c \in Callers, Observe(c) PROVE MakingInv'
  BY <1>32 DEF Observe, ObserveRest, Starts, TypeOK, LocksHeld, MakingInv, PlacesInv, Placed,
     Ensuring, CloseInv
<1>33. ASSUME NEW c \in Callers, Looks(c) PROVE MakingInv'
  BY <1>33 DEF Looks, ObserveRest, Moves, Returns, TypeOK, LocksHeld, MakingInv, PlacesInv,
     Placed, Ensuring, CloseInv
<1>34. ASSUME NEW c \in Callers, Attaches(c) PROVE MakingInv'
  BY <1>34 DEF Attaches, ObserveRest, NewArbiter, Moves, Returns, TypeOK, LocksHeld, MakingInv,
     PlacesInv, Placed, Ensuring, CloseInv
<1>35. CASE CloseBegins
  BY <1>35 DEF CloseBegins, CloseRest, CancelsTask, TypeOK, LocksHeld, MakingInv, PlacesInv,
     Placed, Ensuring, CloseInv
<1>36. CASE CloseReads
  BY <1>36 DEF CloseReads, CloseRest, TypeOK, LocksHeld, MakingInv, PlacesInv, Placed, Ensuring,
     CloseInv
<1>37. CASE CloseArbiter
  BY <1>37 DEF CloseArbiter, CloseRest, Cancelled, HoldsAtClose, TypeOK, LocksHeld, MakingInv,
     PlacesInv, Placed, Ensuring, CloseInv
<1>38. CASE CloseHolds
  BY <1>38 DEF CloseHolds, CloseRest, TypeOK, LocksHeld, MakingInv, PlacesInv, Placed, Ensuring,
     CloseInv
<1>39. CASE CloseHub
  BY <1>39 DEF CloseHub, CloseRest, KeepsDevice, TypeOK, LocksHeld, MakingInv, PlacesInv, Placed,
     Ensuring, CloseInv
<1>40. CASE CloseManager
  BY <1>40 DEF CloseManager, CloseRest, TypeOK, LocksHeld, MakingInv, PlacesInv, Placed, Ensuring,
     CloseInv
<1>41. CASE CloseEnds
  BY <1>41 DEF CloseEnds, CloseRest, TypeOK, LocksHeld, MakingInv, PlacesInv, Placed, Ensuring,
     CloseInv
<1> QED
  BY <1>1, <1>2, <1>3, <1>4, <1>5, <1>6, <1>7, <1>8, <1>9, <1>10, <1>11, <1>12, <1>13, <1>14,
     <1>15, <1>16, <1>17, <1>18, <1>19, <1>20, <1>21, <1>22, <1>23, <1>24, <1>25, <1>26, <1>27,
     <1>28, <1>29, <1>30, <1>31, <1>32, <1>33, <1>34, <1>35, <1>36, <1>37, <1>38, <1>39, <1>40,
     <1>41
     DEF Next, CallBegins, Step, EnsureStep, JobStep, ManualStep, StopStep, ObserveStep, CloseStep

\* A new arbiter is an unused one.
LEMMA UnusedStep ==
    ASSUME IInv, Next
    PROVE  UnusedInv'
<1> USE CallersAssumption DEF IInv, serviceVars, lockVars, arbiterVars, threadVars, closeVars,
   robotVars, historyVars
<1>1. ASSUME NEW c \in Callers, EnsureFinds(c) PROVE UnusedInv'
  BY <1>1 DEF EnsureFinds, EnsureRest, Fails, Without, Returns, Moves, TypeOK, LocksHeld,
     MakingInv, PlacesInv, Placed, Ensuring, UnusedInv, Unused, Engaged
<1>2. ASSUME NEW c \in Callers, EnsureOpens(c) PROVE UnusedInv'
  BY <1>2 DEF EnsureOpens, EnsureRest, Fails, Without, Returns, Moves, TypeOK, LocksHeld,
     MakingInv, PlacesInv, Placed, Ensuring, UnusedInv, Unused, Engaged
<1>3. ASSUME NEW c \in Callers, Opens(c) PROVE UnusedInv'
  BY <1>3 DEF Opens, EnsureRest, NewArbiter, AfterOpening, Interrupted, Moves, Returns, TypeOK,
     LocksHeld, MakingInv, PlacesInv, Placed, Ensuring, UnusedInv, Unused, Engaged
<1>4. ASSUME NEW c \in Callers, OpeningFails(c) PROVE UnusedInv'
  BY <1>4 DEF OpeningFails, EnsureRest, Fails, Without, Returns, TypeOK, LocksHeld, MakingInv,
     PlacesInv, Placed, Ensuring, UnusedInv, Unused, Engaged
<1>5. ASSUME NEW c \in Callers, Interrupts(c) PROVE UnusedInv'
  BY <1>5 DEF Interrupts, EnsureRest, Fails, Without, Returns, Cancelled, TypeOK, LocksHeld,
     MakingInv, PlacesInv, Placed, Ensuring, UnusedInv, Unused, Engaged
<1>6. ASSUME NEW c \in Callers, Prepares(c) PROVE UnusedInv'
  BY <1>6 DEF Prepares, EnsureRest, Moves, Returns, TypeOK, LocksHeld, MakingInv, PlacesInv,
     Placed, Ensuring, UnusedInv, Unused, Engaged
<1>7. ASSUME NEW c \in Callers, Execute(c) PROVE UnusedInv'
  BY <1>7 DEF Execute, JobRest, Starts, Without, NewToken, TypeOK, LocksHeld, MakingInv,
     PlacesInv, Placed, Ensuring, UnusedInv, Unused, Engaged
<1>8. ASSUME NEW c \in Callers, TaskLock(c) PROVE UnusedInv'
  BY <1>8 DEF TaskLock, JobRest, Moves, Returns, TypeOK, LocksHeld, MakingInv, PlacesInv, Placed,
     Ensuring, UnusedInv, Unused, Engaged
<1>9. ASSUME NEW c \in Callers, Direct(c) PROVE UnusedInv'
  BY <1>9 DEF Direct, JobRest, Starts, Without, NewToken, TypeOK, LocksHeld, MakingInv, PlacesInv,
     Placed, Ensuring, UnusedInv, Unused, Engaged
<1>10. ASSUME NEW c \in Callers, CancelEvent(c) PROVE UnusedInv'
  BY <1>10 DEF CancelEvent, TypeOK, LocksHeld, MakingInv, PlacesInv, Placed, Ensuring, UnusedInv,
     Unused, Engaged
<1>11. ASSUME NEW c \in Callers, Begins(c) PROVE UnusedInv'
  BY <1>11 DEF Begins, JobRest, Moves, Returns, Without, Cancelled, TypeOK, LocksHeld, MakingInv,
     PlacesInv, Placed, Ensuring, UnusedInv, Unused, Engaged
<1>12. ASSUME NEW c \in Callers, Registers(c) PROVE UnusedInv'
  BY <1>12 DEF Registers, JobRest, Moves, Returns, TypeOK, LocksHeld, MakingInv, PlacesInv,
     Placed, Ensuring, UnusedInv, Unused, Engaged
<1>13. ASSUME NEW c \in Callers, Drives(c) PROVE UnusedInv'
  BY <1>13 DEF Drives, JobRest, MayDrive, Admits, TypeOK, LocksHeld, MakingInv, PlacesInv, Placed,
     Ensuring, UnusedInv, Unused, Engaged
<1>14. ASSUME NEW c \in Callers, RunEnds(c) PROVE UnusedInv'
  BY <1>14 DEF RunEnds, JobRest, Moves, Returns, Without, TypeOK, LocksHeld, MakingInv, PlacesInv,
     Placed, Ensuring, UnusedInv, Unused, Engaged
<1>15. ASSUME NEW c \in Callers, Drops(c) PROVE UnusedInv'
  BY <1>15 DEF Drops, JobRest, Moves, Returns, Without, TypeOK, LocksHeld, MakingInv, PlacesInv,
     Placed, Ensuring, UnusedInv, Unused, Engaged
<1>16. ASSUME NEW c \in Callers, Finishes(c) PROVE UnusedInv'
  BY <1>16 DEF Finishes, JobRest, Moves, Returns, Without, Cancelled, Owns, TypeOK, LocksHeld,
     MakingInv, PlacesInv, Placed, Ensuring, UnusedInv, Unused, Engaged
<1>17. ASSUME NEW c \in Callers, Cancel(c) PROVE UnusedInv'
  BY <1>17 DEF Cancel, JobRest, Starts, TypeOK, LocksHeld, MakingInv, PlacesInv, Placed, Ensuring,
     UnusedInv, Unused, Engaged
<1>18. ASSUME NEW c \in Callers, CancelsWork(c) PROVE UnusedInv'
  BY <1>18 DEF CancelsWork, JobRest, Moves, Returns, Cancelled, Owns, TypeOK, LocksHeld,
     MakingInv, PlacesInv, Placed, Ensuring, UnusedInv, Unused, Engaged
<1>19. ASSUME NEW c \in Callers, Acquire(c) PROVE UnusedInv'
  BY <1>19 DEF Acquire, ManualRest, Starts, OwnerIsFree, TypeOK, LocksHeld, MakingInv, PlacesInv,
     Placed, Ensuring, UnusedInv, Unused, Engaged
<1>20. ASSUME NEW c \in Callers, CancelsForManual(c) PROVE UnusedInv'
  BY <1>20 DEF CancelsForManual, ManualRest, Moves, Returns, CancelsTask, TypeOK, LocksHeld,
     MakingInv, PlacesInv, Placed, Ensuring, UnusedInv, Unused, Engaged
<1>21. ASSUME NEW c \in Callers, Takes(c) PROVE UnusedInv'
  BY <1>21 DEF Takes, Fails, Without, Returns, Moves, Cancelled, TypeOK, LocksHeld, MakingInv,
     PlacesInv, Placed, Ensuring, UnusedInv, Unused, Engaged
<1>22. ASSUME NEW c \in Callers, Release(c) PROVE UnusedInv'
  BY <1>22 DEF Release, ManualRest, Starts, TypeOK, LocksHeld, MakingInv, PlacesInv, Placed,
     Ensuring, UnusedInv, Unused, Engaged
<1>23. ASSUME NEW c \in Callers, ReleaseClears(c) PROVE UnusedInv'
  BY <1>23 DEF ReleaseClears, ManualRest, Moves, Returns, Without, TypeOK, LocksHeld, MakingInv,
     PlacesInv, Placed, Ensuring, UnusedInv, Unused, Engaged
<1>24. ASSUME NEW c \in Callers, DrivesManually(c) PROVE UnusedInv'
  BY <1>24 DEF DrivesManually, ManualRest, MayDriveManually, TypeOK, LocksHeld, MakingInv,
     PlacesInv, Placed, Ensuring, UnusedInv, Unused, Engaged
<1>25. ASSUME NEW c \in Callers, EmergencyStopEarly(c) PROVE UnusedInv'
  BY <1>25 DEF EmergencyStopEarly, StopRest, CancelsTask, TypeOK, LocksHeld, MakingInv, PlacesInv,
     Placed, Ensuring, UnusedInv, Unused, Engaged
<1>26. ASSUME NEW c \in Callers, EmergencyStop(c) PROVE UnusedInv'
  BY <1>26 DEF EmergencyStop, StopRest, Starts, CancelsTask, TypeOK, LocksHeld, MakingInv,
     PlacesInv, Placed, Ensuring, UnusedInv, Unused, Engaged
<1>27. ASSUME NEW c \in Callers, Latches(c) PROVE UnusedInv'
  BY <1>27 DEF Latches, StopRest, Moves, Returns, Cancelled, TypeOK, LocksHeld, MakingInv,
     PlacesInv, Placed, Ensuring, UnusedInv, Unused, Engaged
<1>28. ASSUME NEW c \in Callers, Reset(c) PROVE UnusedInv'
  BY <1>28 DEF Reset, StopRest, Starts, TypeOK, LocksHeld, MakingInv, PlacesInv, Placed, Ensuring,
     UnusedInv, Unused, Engaged
<1>29. ASSUME NEW c \in Callers, ResetClears(c) PROVE UnusedInv'
  BY <1>29 DEF ResetClears, StopRest, Moves, Returns, TypeOK, LocksHeld, MakingInv, PlacesInv,
     Placed, Ensuring, UnusedInv, Unused, Engaged
<1>30. ASSUME NEW c \in Callers, HoldSucceeds(c) PROVE UnusedInv'
  BY <1>30 DEF HoldSucceeds, Moves, Returns, Without, AuthorityAfter, TypeOK, LocksHeld,
     MakingInv, PlacesInv, Placed, Ensuring, UnusedInv, Unused, Engaged
<1>31. ASSUME NEW c \in Callers, HoldFails(c) PROVE UnusedInv'
  BY <1>31 DEF HoldFails, Fails, Without, Returns, Cancelled, TypeOK, LocksHeld, MakingInv,
     PlacesInv, Placed, Ensuring, UnusedInv, Unused, Engaged
<1>32. ASSUME NEW c \in Callers, Observe(c) PROVE UnusedInv'
  BY <1>32 DEF Observe, ObserveRest, Starts, TypeOK, LocksHeld, MakingInv, PlacesInv, Placed,
     Ensuring, UnusedInv, Unused, Engaged
<1>33. ASSUME NEW c \in Callers, Looks(c) PROVE UnusedInv'
  BY <1>33 DEF Looks, ObserveRest, Moves, Returns, TypeOK, LocksHeld, MakingInv, PlacesInv,
     Placed, Ensuring, UnusedInv, Unused, Engaged
<1>34. ASSUME NEW c \in Callers, Attaches(c) PROVE UnusedInv'
  BY <1>34 DEF Attaches, ObserveRest, NewArbiter, Moves, Returns, TypeOK, LocksHeld, MakingInv,
     PlacesInv, Placed, Ensuring, UnusedInv, Unused, Engaged
<1>35. CASE CloseBegins
  BY <1>35 DEF CloseBegins, CloseRest, CancelsTask, TypeOK, LocksHeld, MakingInv, PlacesInv,
     Placed, Ensuring, UnusedInv, Unused, Engaged
<1>36. CASE CloseReads
  BY <1>36 DEF CloseReads, CloseRest, TypeOK, LocksHeld, MakingInv, PlacesInv, Placed, Ensuring,
     UnusedInv, Unused, Engaged
<1>37. CASE CloseArbiter
  BY <1>37 DEF CloseArbiter, CloseRest, Cancelled, HoldsAtClose, TypeOK, LocksHeld, MakingInv,
     PlacesInv, Placed, Ensuring, UnusedInv, Unused, Engaged
<1>38. CASE CloseHolds
  BY <1>38 DEF CloseHolds, CloseRest, TypeOK, LocksHeld, MakingInv, PlacesInv, Placed, Ensuring,
     UnusedInv, Unused, Engaged
<1>39. CASE CloseHub
  BY <1>39 DEF CloseHub, CloseRest, KeepsDevice, TypeOK, LocksHeld, MakingInv, PlacesInv, Placed,
     Ensuring, UnusedInv, Unused, Engaged
<1>40. CASE CloseManager
  BY <1>40 DEF CloseManager, CloseRest, TypeOK, LocksHeld, MakingInv, PlacesInv, Placed, Ensuring,
     UnusedInv, Unused, Engaged
<1>41. CASE CloseEnds
  BY <1>41 DEF CloseEnds, CloseRest, TypeOK, LocksHeld, MakingInv, PlacesInv, Placed, Ensuring,
     UnusedInv, Unused, Engaged
<1> QED
  BY <1>1, <1>2, <1>3, <1>4, <1>5, <1>6, <1>7, <1>8, <1>9, <1>10, <1>11, <1>12, <1>13, <1>14,
     <1>15, <1>16, <1>17, <1>18, <1>19, <1>20, <1>21, <1>22, <1>23, <1>24, <1>25, <1>26, <1>27,
     <1>28, <1>29, <1>30, <1>31, <1>32, <1>33, <1>34, <1>35, <1>36, <1>37, <1>38, <1>39, <1>40,
     <1>41
     DEF Next, CallBegins, Step, EnsureStep, JobStep, ManualStep, StopStep, ObserveStep, CloseStep

\* Nobody is handed a robot that was not prepared.
LEMMA PreparedStep ==
    ASSUME IInv, Next
    PROVE  PreparedInv'
<1> USE CallersAssumption DEF IInv, serviceVars, lockVars, arbiterVars, threadVars, closeVars,
   robotVars, historyVars
<1>1. ASSUME NEW c \in Callers, EnsureFinds(c) PROVE PreparedInv'
  BY <1>1 DEF EnsureFinds, EnsureRest, Fails, Without, Returns, Moves, TypeOK, LocksHeld,
     MakingInv, PlacesInv, Placed, Ensuring, UnusedInv, Unused, Engaged, PreparedInv
<1>2. ASSUME NEW c \in Callers, EnsureOpens(c) PROVE PreparedInv'
  BY <1>2 DEF EnsureOpens, EnsureRest, Fails, Without, Returns, Moves, TypeOK, LocksHeld,
     MakingInv, PlacesInv, Placed, Ensuring, UnusedInv, Unused, Engaged, PreparedInv
<1>3. ASSUME NEW c \in Callers, Opens(c) PROVE PreparedInv'
  BY <1>3 DEF Opens, EnsureRest, NewArbiter, AfterOpening, Interrupted, Moves, Returns, TypeOK,
     LocksHeld, MakingInv, PlacesInv, Placed, Ensuring, UnusedInv, Unused, Engaged, PreparedInv
<1>4. ASSUME NEW c \in Callers, OpeningFails(c) PROVE PreparedInv'
  BY <1>4 DEF OpeningFails, EnsureRest, Fails, Without, Returns, TypeOK, LocksHeld, MakingInv,
     PlacesInv, Placed, Ensuring, UnusedInv, Unused, Engaged, PreparedInv
<1>5. ASSUME NEW c \in Callers, Interrupts(c) PROVE PreparedInv'
  BY <1>5 DEF Interrupts, EnsureRest, Fails, Without, Returns, Cancelled, TypeOK, LocksHeld,
     MakingInv, PlacesInv, Placed, Ensuring, UnusedInv, Unused, Engaged, PreparedInv
<1>6. ASSUME NEW c \in Callers, Prepares(c) PROVE PreparedInv'
  BY <1>6 DEF Prepares, EnsureRest, Moves, Returns, TypeOK, LocksHeld, MakingInv, PlacesInv,
     Placed, Ensuring, UnusedInv, Unused, Engaged, PreparedInv
<1>7. ASSUME NEW c \in Callers, Execute(c) PROVE PreparedInv'
  BY <1>7 DEF Execute, JobRest, Starts, Without, NewToken, TypeOK, LocksHeld, MakingInv,
     PlacesInv, Placed, Ensuring, UnusedInv, Unused, Engaged, PreparedInv
<1>8. ASSUME NEW c \in Callers, TaskLock(c) PROVE PreparedInv'
  BY <1>8 DEF TaskLock, JobRest, Moves, Returns, TypeOK, LocksHeld, MakingInv, PlacesInv, Placed,
     Ensuring, UnusedInv, Unused, Engaged, PreparedInv
<1>9. ASSUME NEW c \in Callers, Direct(c) PROVE PreparedInv'
  BY <1>9 DEF Direct, JobRest, Starts, Without, NewToken, TypeOK, LocksHeld, MakingInv, PlacesInv,
     Placed, Ensuring, UnusedInv, Unused, Engaged, PreparedInv
<1>10. ASSUME NEW c \in Callers, CancelEvent(c) PROVE PreparedInv'
  BY <1>10 DEF CancelEvent, TypeOK, LocksHeld, MakingInv, PlacesInv, Placed, Ensuring, UnusedInv,
     Unused, Engaged, PreparedInv
<1>11. ASSUME NEW c \in Callers, Begins(c) PROVE PreparedInv'
  BY <1>11 DEF Begins, JobRest, Moves, Returns, Without, Cancelled, TypeOK, LocksHeld, MakingInv,
     PlacesInv, Placed, Ensuring, UnusedInv, Unused, Engaged, PreparedInv
<1>12. ASSUME NEW c \in Callers, Registers(c) PROVE PreparedInv'
  BY <1>12 DEF Registers, JobRest, Moves, Returns, TypeOK, LocksHeld, MakingInv, PlacesInv,
     Placed, Ensuring, UnusedInv, Unused, Engaged, PreparedInv
<1>13. ASSUME NEW c \in Callers, Drives(c) PROVE PreparedInv'
  BY <1>13 DEF Drives, JobRest, MayDrive, Admits, TypeOK, LocksHeld, MakingInv, PlacesInv, Placed,
     Ensuring, UnusedInv, Unused, Engaged, PreparedInv
<1>14. ASSUME NEW c \in Callers, RunEnds(c) PROVE PreparedInv'
  BY <1>14 DEF RunEnds, JobRest, Moves, Returns, Without, TypeOK, LocksHeld, MakingInv, PlacesInv,
     Placed, Ensuring, UnusedInv, Unused, Engaged, PreparedInv
<1>15. ASSUME NEW c \in Callers, Drops(c) PROVE PreparedInv'
  BY <1>15 DEF Drops, JobRest, Moves, Returns, Without, TypeOK, LocksHeld, MakingInv, PlacesInv,
     Placed, Ensuring, UnusedInv, Unused, Engaged, PreparedInv
<1>16. ASSUME NEW c \in Callers, Finishes(c) PROVE PreparedInv'
  BY <1>16 DEF Finishes, JobRest, Moves, Returns, Without, Cancelled, Owns, TypeOK, LocksHeld,
     MakingInv, PlacesInv, Placed, Ensuring, UnusedInv, Unused, Engaged, PreparedInv
<1>17. ASSUME NEW c \in Callers, Cancel(c) PROVE PreparedInv'
  BY <1>17 DEF Cancel, JobRest, Starts, TypeOK, LocksHeld, MakingInv, PlacesInv, Placed, Ensuring,
     UnusedInv, Unused, Engaged, PreparedInv
<1>18. ASSUME NEW c \in Callers, CancelsWork(c) PROVE PreparedInv'
  BY <1>18 DEF CancelsWork, JobRest, Moves, Returns, Cancelled, Owns, TypeOK, LocksHeld,
     MakingInv, PlacesInv, Placed, Ensuring, UnusedInv, Unused, Engaged, PreparedInv
<1>19. ASSUME NEW c \in Callers, Acquire(c) PROVE PreparedInv'
  BY <1>19 DEF Acquire, ManualRest, Starts, OwnerIsFree, TypeOK, LocksHeld, MakingInv, PlacesInv,
     Placed, Ensuring, UnusedInv, Unused, Engaged, PreparedInv
<1>20. ASSUME NEW c \in Callers, CancelsForManual(c) PROVE PreparedInv'
  BY <1>20 DEF CancelsForManual, ManualRest, Moves, Returns, CancelsTask, TypeOK, LocksHeld,
     MakingInv, PlacesInv, Placed, Ensuring, UnusedInv, Unused, Engaged, PreparedInv
<1>21. ASSUME NEW c \in Callers, Takes(c) PROVE PreparedInv'
  BY <1>21 DEF Takes, Fails, Without, Returns, Moves, Cancelled, TypeOK, LocksHeld, MakingInv,
     PlacesInv, Placed, Ensuring, UnusedInv, Unused, Engaged, PreparedInv
<1>22. ASSUME NEW c \in Callers, Release(c) PROVE PreparedInv'
  BY <1>22 DEF Release, ManualRest, Starts, TypeOK, LocksHeld, MakingInv, PlacesInv, Placed,
     Ensuring, UnusedInv, Unused, Engaged, PreparedInv
<1>23. ASSUME NEW c \in Callers, ReleaseClears(c) PROVE PreparedInv'
  BY <1>23 DEF ReleaseClears, ManualRest, Moves, Returns, Without, TypeOK, LocksHeld, MakingInv,
     PlacesInv, Placed, Ensuring, UnusedInv, Unused, Engaged, PreparedInv
<1>24. ASSUME NEW c \in Callers, DrivesManually(c) PROVE PreparedInv'
  BY <1>24 DEF DrivesManually, ManualRest, MayDriveManually, TypeOK, LocksHeld, MakingInv,
     PlacesInv, Placed, Ensuring, UnusedInv, Unused, Engaged, PreparedInv
<1>25. ASSUME NEW c \in Callers, EmergencyStopEarly(c) PROVE PreparedInv'
  BY <1>25 DEF EmergencyStopEarly, StopRest, CancelsTask, TypeOK, LocksHeld, MakingInv, PlacesInv,
     Placed, Ensuring, UnusedInv, Unused, Engaged, PreparedInv
<1>26. ASSUME NEW c \in Callers, EmergencyStop(c) PROVE PreparedInv'
  BY <1>26 DEF EmergencyStop, StopRest, Starts, CancelsTask, TypeOK, LocksHeld, MakingInv,
     PlacesInv, Placed, Ensuring, UnusedInv, Unused, Engaged, PreparedInv
<1>27. ASSUME NEW c \in Callers, Latches(c) PROVE PreparedInv'
  BY <1>27 DEF Latches, StopRest, Moves, Returns, Cancelled, TypeOK, LocksHeld, MakingInv,
     PlacesInv, Placed, Ensuring, UnusedInv, Unused, Engaged, PreparedInv
<1>28. ASSUME NEW c \in Callers, Reset(c) PROVE PreparedInv'
  BY <1>28 DEF Reset, StopRest, Starts, TypeOK, LocksHeld, MakingInv, PlacesInv, Placed, Ensuring,
     UnusedInv, Unused, Engaged, PreparedInv
<1>29. ASSUME NEW c \in Callers, ResetClears(c) PROVE PreparedInv'
  BY <1>29 DEF ResetClears, StopRest, Moves, Returns, TypeOK, LocksHeld, MakingInv, PlacesInv,
     Placed, Ensuring, UnusedInv, Unused, Engaged, PreparedInv
<1>30. ASSUME NEW c \in Callers, HoldSucceeds(c) PROVE PreparedInv'
  BY <1>30 DEF HoldSucceeds, Moves, Returns, Without, AuthorityAfter, TypeOK, LocksHeld,
     MakingInv, PlacesInv, Placed, Ensuring, UnusedInv, Unused, Engaged, PreparedInv
<1>31. ASSUME NEW c \in Callers, HoldFails(c) PROVE PreparedInv'
  BY <1>31 DEF HoldFails, Fails, Without, Returns, Cancelled, TypeOK, LocksHeld, MakingInv,
     PlacesInv, Placed, Ensuring, UnusedInv, Unused, Engaged, PreparedInv
<1>32. ASSUME NEW c \in Callers, Observe(c) PROVE PreparedInv'
  BY <1>32 DEF Observe, ObserveRest, Starts, TypeOK, LocksHeld, MakingInv, PlacesInv, Placed,
     Ensuring, UnusedInv, Unused, Engaged, PreparedInv
<1>33. ASSUME NEW c \in Callers, Looks(c) PROVE PreparedInv'
  BY <1>33 DEF Looks, ObserveRest, Moves, Returns, TypeOK, LocksHeld, MakingInv, PlacesInv,
     Placed, Ensuring, UnusedInv, Unused, Engaged, PreparedInv
<1>34. ASSUME NEW c \in Callers, Attaches(c) PROVE PreparedInv'
  BY <1>34 DEF Attaches, ObserveRest, NewArbiter, Moves, Returns, TypeOK, LocksHeld, MakingInv,
     PlacesInv, Placed, Ensuring, UnusedInv, Unused, Engaged, PreparedInv
<1>35. CASE CloseBegins
  BY <1>35 DEF CloseBegins, CloseRest, CancelsTask, TypeOK, LocksHeld, MakingInv, PlacesInv,
     Placed, Ensuring, UnusedInv, Unused, Engaged, PreparedInv
<1>36. CASE CloseReads
  BY <1>36 DEF CloseReads, CloseRest, TypeOK, LocksHeld, MakingInv, PlacesInv, Placed, Ensuring,
     UnusedInv, Unused, Engaged, PreparedInv
<1>37. CASE CloseArbiter
  BY <1>37 DEF CloseArbiter, CloseRest, Cancelled, HoldsAtClose, TypeOK, LocksHeld, MakingInv,
     PlacesInv, Placed, Ensuring, UnusedInv, Unused, Engaged, PreparedInv
<1>38. CASE CloseHolds
  BY <1>38 DEF CloseHolds, CloseRest, TypeOK, LocksHeld, MakingInv, PlacesInv, Placed, Ensuring,
     UnusedInv, Unused, Engaged, PreparedInv
<1>39. CASE CloseHub
  BY <1>39 DEF CloseHub, CloseRest, KeepsDevice, TypeOK, LocksHeld, MakingInv, PlacesInv, Placed,
     Ensuring, UnusedInv, Unused, Engaged, PreparedInv
<1>40. CASE CloseManager
  BY <1>40 DEF CloseManager, CloseRest, TypeOK, LocksHeld, MakingInv, PlacesInv, Placed, Ensuring,
     UnusedInv, Unused, Engaged, PreparedInv
<1>41. CASE CloseEnds
  BY <1>41 DEF CloseEnds, CloseRest, TypeOK, LocksHeld, MakingInv, PlacesInv, Placed, Ensuring,
     UnusedInv, Unused, Engaged, PreparedInv
<1> QED
  BY <1>1, <1>2, <1>3, <1>4, <1>5, <1>6, <1>7, <1>8, <1>9, <1>10, <1>11, <1>12, <1>13, <1>14,
     <1>15, <1>16, <1>17, <1>18, <1>19, <1>20, <1>21, <1>22, <1>23, <1>24, <1>25, <1>26, <1>27,
     <1>28, <1>29, <1>30, <1>31, <1>32, <1>33, <1>34, <1>35, <1>36, <1>37, <1>38, <1>39, <1>40,
     <1>41
     DEF Next, CallBegins, Step, EnsureStep, JobStep, ManualStep, StopStep, ObserveStep, CloseStep

\* Manual control is granted to its owner, and takes the authority with it.
LEMMA ManualStepKeeps ==
    ASSUME IInv, Next
    PROVE  ManualInv'
<1> USE CallersAssumption DEF IInv, serviceVars, lockVars, arbiterVars, threadVars, closeVars,
   robotVars, historyVars
<1>1. ASSUME NEW c \in Callers, EnsureFinds(c) PROVE ManualInv'
  BY <1>1 DEF EnsureFinds, EnsureRest, Fails, Without, Returns, Moves, TypeOK, LocksHeld,
     MakingInv, PlacesInv, Placed, Ensuring, UnusedInv, Unused, Engaged, ManualInv
<1>2. ASSUME NEW c \in Callers, EnsureOpens(c) PROVE ManualInv'
  BY <1>2 DEF EnsureOpens, EnsureRest, Fails, Without, Returns, Moves, TypeOK, LocksHeld,
     MakingInv, PlacesInv, Placed, Ensuring, UnusedInv, Unused, Engaged, ManualInv
<1>3. ASSUME NEW c \in Callers, Opens(c) PROVE ManualInv'
  BY <1>3 DEF Opens, EnsureRest, NewArbiter, AfterOpening, Interrupted, Moves, Returns, TypeOK,
     LocksHeld, MakingInv, PlacesInv, Placed, Ensuring, UnusedInv, Unused, Engaged, ManualInv
<1>4. ASSUME NEW c \in Callers, OpeningFails(c) PROVE ManualInv'
  BY <1>4 DEF OpeningFails, EnsureRest, Fails, Without, Returns, TypeOK, LocksHeld, MakingInv,
     PlacesInv, Placed, Ensuring, UnusedInv, Unused, Engaged, ManualInv
<1>5. ASSUME NEW c \in Callers, Interrupts(c) PROVE ManualInv'
  BY <1>5 DEF Interrupts, EnsureRest, Fails, Without, Returns, Cancelled, TypeOK, LocksHeld,
     MakingInv, PlacesInv, Placed, Ensuring, UnusedInv, Unused, Engaged, ManualInv
<1>6. ASSUME NEW c \in Callers, Prepares(c) PROVE ManualInv'
  BY <1>6 DEF Prepares, EnsureRest, Moves, Returns, TypeOK, LocksHeld, MakingInv, PlacesInv,
     Placed, Ensuring, UnusedInv, Unused, Engaged, ManualInv
<1>7. ASSUME NEW c \in Callers, Execute(c) PROVE ManualInv'
  BY <1>7 DEF Execute, JobRest, Starts, Without, NewToken, TypeOK, LocksHeld, MakingInv,
     PlacesInv, Placed, Ensuring, UnusedInv, Unused, Engaged, ManualInv
<1>8. ASSUME NEW c \in Callers, TaskLock(c) PROVE ManualInv'
  BY <1>8 DEF TaskLock, JobRest, Moves, Returns, TypeOK, LocksHeld, MakingInv, PlacesInv, Placed,
     Ensuring, UnusedInv, Unused, Engaged, ManualInv
<1>9. ASSUME NEW c \in Callers, Direct(c) PROVE ManualInv'
  BY <1>9 DEF Direct, JobRest, Starts, Without, NewToken, TypeOK, LocksHeld, MakingInv, PlacesInv,
     Placed, Ensuring, UnusedInv, Unused, Engaged, ManualInv
<1>10. ASSUME NEW c \in Callers, CancelEvent(c) PROVE ManualInv'
  BY <1>10 DEF CancelEvent, TypeOK, LocksHeld, MakingInv, PlacesInv, Placed, Ensuring, UnusedInv,
     Unused, Engaged, ManualInv
<1>11. ASSUME NEW c \in Callers, Begins(c) PROVE ManualInv'
  BY <1>11 DEF Begins, JobRest, Moves, Returns, Without, Cancelled, TypeOK, LocksHeld, MakingInv,
     PlacesInv, Placed, Ensuring, UnusedInv, Unused, Engaged, ManualInv
<1>12. ASSUME NEW c \in Callers, Registers(c) PROVE ManualInv'
  BY <1>12 DEF Registers, JobRest, Moves, Returns, TypeOK, LocksHeld, MakingInv, PlacesInv,
     Placed, Ensuring, UnusedInv, Unused, Engaged, ManualInv
<1>13. ASSUME NEW c \in Callers, Drives(c) PROVE ManualInv'
  BY <1>13 DEF Drives, JobRest, MayDrive, Admits, TypeOK, LocksHeld, MakingInv, PlacesInv, Placed,
     Ensuring, UnusedInv, Unused, Engaged, ManualInv
<1>14. ASSUME NEW c \in Callers, RunEnds(c) PROVE ManualInv'
  BY <1>14 DEF RunEnds, JobRest, Moves, Returns, Without, TypeOK, LocksHeld, MakingInv, PlacesInv,
     Placed, Ensuring, UnusedInv, Unused, Engaged, ManualInv
<1>15. ASSUME NEW c \in Callers, Drops(c) PROVE ManualInv'
  BY <1>15 DEF Drops, JobRest, Moves, Returns, Without, TypeOK, LocksHeld, MakingInv, PlacesInv,
     Placed, Ensuring, UnusedInv, Unused, Engaged, ManualInv
<1>16. ASSUME NEW c \in Callers, Finishes(c) PROVE ManualInv'
  BY <1>16 DEF Finishes, JobRest, Moves, Returns, Without, Cancelled, Owns, TypeOK, LocksHeld,
     MakingInv, PlacesInv, Placed, Ensuring, UnusedInv, Unused, Engaged, ManualInv
<1>17. ASSUME NEW c \in Callers, Cancel(c) PROVE ManualInv'
  BY <1>17 DEF Cancel, JobRest, Starts, TypeOK, LocksHeld, MakingInv, PlacesInv, Placed, Ensuring,
     UnusedInv, Unused, Engaged, ManualInv
<1>18. ASSUME NEW c \in Callers, CancelsWork(c) PROVE ManualInv'
  BY <1>18 DEF CancelsWork, JobRest, Moves, Returns, Cancelled, Owns, TypeOK, LocksHeld,
     MakingInv, PlacesInv, Placed, Ensuring, UnusedInv, Unused, Engaged, ManualInv
<1>19. ASSUME NEW c \in Callers, Acquire(c) PROVE ManualInv'
  BY <1>19 DEF Acquire, ManualRest, Starts, OwnerIsFree, TypeOK, LocksHeld, MakingInv, PlacesInv,
     Placed, Ensuring, UnusedInv, Unused, Engaged, ManualInv
<1>20. ASSUME NEW c \in Callers, CancelsForManual(c) PROVE ManualInv'
  BY <1>20 DEF CancelsForManual, ManualRest, Moves, Returns, CancelsTask, TypeOK, LocksHeld,
     MakingInv, PlacesInv, Placed, Ensuring, UnusedInv, Unused, Engaged, ManualInv
<1>21. ASSUME NEW c \in Callers, Takes(c) PROVE ManualInv'
  BY <1>21 DEF Takes, Fails, Without, Returns, Moves, Cancelled, TypeOK, LocksHeld, MakingInv,
     PlacesInv, Placed, Ensuring, UnusedInv, Unused, Engaged, ManualInv
<1>22. ASSUME NEW c \in Callers, Release(c) PROVE ManualInv'
  BY <1>22 DEF Release, ManualRest, Starts, TypeOK, LocksHeld, MakingInv, PlacesInv, Placed,
     Ensuring, UnusedInv, Unused, Engaged, ManualInv
<1>23. ASSUME NEW c \in Callers, ReleaseClears(c) PROVE ManualInv'
  BY <1>23 DEF ReleaseClears, ManualRest, Moves, Returns, Without, TypeOK, LocksHeld, MakingInv,
     PlacesInv, Placed, Ensuring, UnusedInv, Unused, Engaged, ManualInv
<1>24. ASSUME NEW c \in Callers, DrivesManually(c) PROVE ManualInv'
  BY <1>24 DEF DrivesManually, ManualRest, MayDriveManually, TypeOK, LocksHeld, MakingInv,
     PlacesInv, Placed, Ensuring, UnusedInv, Unused, Engaged, ManualInv
<1>25. ASSUME NEW c \in Callers, EmergencyStopEarly(c) PROVE ManualInv'
  BY <1>25 DEF EmergencyStopEarly, StopRest, CancelsTask, TypeOK, LocksHeld, MakingInv, PlacesInv,
     Placed, Ensuring, UnusedInv, Unused, Engaged, ManualInv
<1>26. ASSUME NEW c \in Callers, EmergencyStop(c) PROVE ManualInv'
  BY <1>26 DEF EmergencyStop, StopRest, Starts, CancelsTask, TypeOK, LocksHeld, MakingInv,
     PlacesInv, Placed, Ensuring, UnusedInv, Unused, Engaged, ManualInv
<1>27. ASSUME NEW c \in Callers, Latches(c) PROVE ManualInv'
  BY <1>27 DEF Latches, StopRest, Moves, Returns, Cancelled, TypeOK, LocksHeld, MakingInv,
     PlacesInv, Placed, Ensuring, UnusedInv, Unused, Engaged, ManualInv
<1>28. ASSUME NEW c \in Callers, Reset(c) PROVE ManualInv'
  BY <1>28 DEF Reset, StopRest, Starts, TypeOK, LocksHeld, MakingInv, PlacesInv, Placed, Ensuring,
     UnusedInv, Unused, Engaged, ManualInv
<1>29. ASSUME NEW c \in Callers, ResetClears(c) PROVE ManualInv'
  BY <1>29 DEF ResetClears, StopRest, Moves, Returns, TypeOK, LocksHeld, MakingInv, PlacesInv,
     Placed, Ensuring, UnusedInv, Unused, Engaged, ManualInv
<1>30. ASSUME NEW c \in Callers, HoldSucceeds(c) PROVE ManualInv'
  BY <1>30 DEF HoldSucceeds, Moves, Returns, Without, AuthorityAfter, TypeOK, LocksHeld,
     MakingInv, PlacesInv, Placed, Ensuring, UnusedInv, Unused, Engaged, ManualInv
<1>31. ASSUME NEW c \in Callers, HoldFails(c) PROVE ManualInv'
  BY <1>31 DEF HoldFails, Fails, Without, Returns, Cancelled, TypeOK, LocksHeld, MakingInv,
     PlacesInv, Placed, Ensuring, UnusedInv, Unused, Engaged, ManualInv
<1>32. ASSUME NEW c \in Callers, Observe(c) PROVE ManualInv'
  BY <1>32 DEF Observe, ObserveRest, Starts, TypeOK, LocksHeld, MakingInv, PlacesInv, Placed,
     Ensuring, UnusedInv, Unused, Engaged, ManualInv
<1>33. ASSUME NEW c \in Callers, Looks(c) PROVE ManualInv'
  BY <1>33 DEF Looks, ObserveRest, Moves, Returns, TypeOK, LocksHeld, MakingInv, PlacesInv,
     Placed, Ensuring, UnusedInv, Unused, Engaged, ManualInv
<1>34. ASSUME NEW c \in Callers, Attaches(c) PROVE ManualInv'
  BY <1>34 DEF Attaches, ObserveRest, NewArbiter, Moves, Returns, TypeOK, LocksHeld, MakingInv,
     PlacesInv, Placed, Ensuring, UnusedInv, Unused, Engaged, ManualInv
<1>35. CASE CloseBegins
  BY <1>35 DEF CloseBegins, CloseRest, CancelsTask, TypeOK, LocksHeld, MakingInv, PlacesInv,
     Placed, Ensuring, UnusedInv, Unused, Engaged, ManualInv
<1>36. CASE CloseReads
  BY <1>36 DEF CloseReads, CloseRest, TypeOK, LocksHeld, MakingInv, PlacesInv, Placed, Ensuring,
     UnusedInv, Unused, Engaged, ManualInv
<1>37. CASE CloseArbiter
  BY <1>37 DEF CloseArbiter, CloseRest, Cancelled, HoldsAtClose, TypeOK, LocksHeld, MakingInv,
     PlacesInv, Placed, Ensuring, UnusedInv, Unused, Engaged, ManualInv
<1>38. CASE CloseHolds
  BY <1>38 DEF CloseHolds, CloseRest, TypeOK, LocksHeld, MakingInv, PlacesInv, Placed, Ensuring,
     UnusedInv, Unused, Engaged, ManualInv
<1>39. CASE CloseHub
  BY <1>39 DEF CloseHub, CloseRest, KeepsDevice, TypeOK, LocksHeld, MakingInv, PlacesInv, Placed,
     Ensuring, UnusedInv, Unused, Engaged, ManualInv
<1>40. CASE CloseManager
  BY <1>40 DEF CloseManager, CloseRest, TypeOK, LocksHeld, MakingInv, PlacesInv, Placed, Ensuring,
     UnusedInv, Unused, Engaged, ManualInv
<1>41. CASE CloseEnds
  BY <1>41 DEF CloseEnds, CloseRest, TypeOK, LocksHeld, MakingInv, PlacesInv, Placed, Ensuring,
     UnusedInv, Unused, Engaged, ManualInv
<1> QED
  BY <1>1, <1>2, <1>3, <1>4, <1>5, <1>6, <1>7, <1>8, <1>9, <1>10, <1>11, <1>12, <1>13, <1>14,
     <1>15, <1>16, <1>17, <1>18, <1>19, <1>20, <1>21, <1>22, <1>23, <1>24, <1>25, <1>26, <1>27,
     <1>28, <1>29, <1>30, <1>31, <1>32, <1>33, <1>34, <1>35, <1>36, <1>37, <1>38, <1>39, <1>40,
     <1>41
     DEF Next, CallBegins, Step, EnsureStep, JobStep, ManualStep, StopStep, ObserveStep, CloseStep

\* A stop is kept from before there is an arbiter.
LEMMA StopStepKeeps ==
    ASSUME IInv, Next
    PROVE  StopInv'
<1> USE CallersAssumption DEF IInv, serviceVars, lockVars, arbiterVars, threadVars, closeVars,
   robotVars, historyVars
<1>1. ASSUME NEW c \in Callers, EnsureFinds(c) PROVE StopInv'
  BY <1>1 DEF EnsureFinds, EnsureRest, Fails, Without, Returns, Moves, TypeOK, LocksHeld,
     MakingInv, UnusedInv, Unused, Engaged, StopInv, PlacesInv, Placed, Ensuring
<1>2. ASSUME NEW c \in Callers, EnsureOpens(c) PROVE StopInv'
  BY <1>2 DEF EnsureOpens, EnsureRest, Fails, Without, Returns, Moves, TypeOK, LocksHeld,
     MakingInv, UnusedInv, Unused, Engaged, StopInv, PlacesInv, Placed, Ensuring
<1>3. ASSUME NEW c \in Callers, Opens(c) PROVE StopInv'
  BY <1>3 DEF Opens, EnsureRest, NewArbiter, AfterOpening, Interrupted, Moves, Returns, TypeOK,
     LocksHeld, MakingInv, UnusedInv, Unused, Engaged, StopInv, PlacesInv, Placed, Ensuring
<1>4. ASSUME NEW c \in Callers, OpeningFails(c) PROVE StopInv'
  BY <1>4 DEF OpeningFails, EnsureRest, Fails, Without, Returns, TypeOK, LocksHeld, MakingInv,
     UnusedInv, Unused, Engaged, StopInv, PlacesInv, Placed, Ensuring
<1>5. ASSUME NEW c \in Callers, Interrupts(c) PROVE StopInv'
  BY <1>5 DEF Interrupts, EnsureRest, Fails, Without, Returns, Cancelled, TypeOK, LocksHeld,
     MakingInv, UnusedInv, Unused, Engaged, StopInv, PlacesInv, Placed, Ensuring
<1>6. ASSUME NEW c \in Callers, Prepares(c) PROVE StopInv'
  BY <1>6 DEF Prepares, EnsureRest, Moves, Returns, TypeOK, LocksHeld, MakingInv, UnusedInv,
     Unused, Engaged, StopInv, PlacesInv, Placed, Ensuring
<1>7. ASSUME NEW c \in Callers, Execute(c) PROVE StopInv'
  BY <1>7 DEF Execute, JobRest, Starts, Without, NewToken, TypeOK, LocksHeld, MakingInv,
     UnusedInv, Unused, Engaged, StopInv, PlacesInv, Placed, Ensuring
<1>8. ASSUME NEW c \in Callers, TaskLock(c) PROVE StopInv'
  BY <1>8 DEF TaskLock, JobRest, Moves, Returns, TypeOK, LocksHeld, MakingInv, UnusedInv, Unused,
     Engaged, StopInv, PlacesInv, Placed, Ensuring
<1>9. ASSUME NEW c \in Callers, Direct(c) PROVE StopInv'
  BY <1>9 DEF Direct, JobRest, Starts, Without, NewToken, TypeOK, LocksHeld, MakingInv, UnusedInv,
     Unused, Engaged, StopInv, PlacesInv, Placed, Ensuring
<1>10. ASSUME NEW c \in Callers, CancelEvent(c) PROVE StopInv'
  BY <1>10 DEF CancelEvent, TypeOK, LocksHeld, MakingInv, UnusedInv, Unused, Engaged, StopInv,
     PlacesInv, Placed, Ensuring
<1>11. ASSUME NEW c \in Callers, Begins(c) PROVE StopInv'
  BY <1>11 DEF Begins, JobRest, Moves, Returns, Without, Cancelled, TypeOK, LocksHeld, MakingInv,
     UnusedInv, Unused, Engaged, StopInv, PlacesInv, Placed, Ensuring
<1>12. ASSUME NEW c \in Callers, Registers(c) PROVE StopInv'
  BY <1>12 DEF Registers, JobRest, Moves, Returns, TypeOK, LocksHeld, MakingInv, UnusedInv,
     Unused, Engaged, StopInv, PlacesInv, Placed, Ensuring
<1>13. ASSUME NEW c \in Callers, Drives(c) PROVE StopInv'
  BY <1>13 DEF Drives, JobRest, MayDrive, Admits, TypeOK, LocksHeld, MakingInv, UnusedInv, Unused,
     Engaged, StopInv, PlacesInv, Placed, Ensuring
<1>14. ASSUME NEW c \in Callers, RunEnds(c) PROVE StopInv'
  BY <1>14 DEF RunEnds, JobRest, Moves, Returns, Without, TypeOK, LocksHeld, MakingInv, UnusedInv,
     Unused, Engaged, StopInv, PlacesInv, Placed, Ensuring
<1>15. ASSUME NEW c \in Callers, Drops(c) PROVE StopInv'
  BY <1>15 DEF Drops, JobRest, Moves, Returns, Without, TypeOK, LocksHeld, MakingInv, UnusedInv,
     Unused, Engaged, StopInv, PlacesInv, Placed, Ensuring
<1>16. ASSUME NEW c \in Callers, Finishes(c) PROVE StopInv'
  BY <1>16 DEF Finishes, JobRest, Moves, Returns, Without, Cancelled, Owns, TypeOK, LocksHeld,
     MakingInv, UnusedInv, Unused, Engaged, StopInv, PlacesInv, Placed, Ensuring
<1>17. ASSUME NEW c \in Callers, Cancel(c) PROVE StopInv'
  BY <1>17 DEF Cancel, JobRest, Starts, TypeOK, LocksHeld, MakingInv, UnusedInv, Unused, Engaged,
     StopInv, PlacesInv, Placed, Ensuring
<1>18. ASSUME NEW c \in Callers, CancelsWork(c) PROVE StopInv'
  BY <1>18 DEF CancelsWork, JobRest, Moves, Returns, Cancelled, Owns, TypeOK, LocksHeld,
     MakingInv, UnusedInv, Unused, Engaged, StopInv, PlacesInv, Placed, Ensuring
<1>19. ASSUME NEW c \in Callers, Acquire(c) PROVE StopInv'
  BY <1>19 DEF Acquire, ManualRest, Starts, OwnerIsFree, TypeOK, LocksHeld, MakingInv, UnusedInv,
     Unused, Engaged, StopInv, PlacesInv, Placed, Ensuring
<1>20. ASSUME NEW c \in Callers, CancelsForManual(c) PROVE StopInv'
  BY <1>20 DEF CancelsForManual, ManualRest, Moves, Returns, CancelsTask, TypeOK, LocksHeld,
     MakingInv, UnusedInv, Unused, Engaged, StopInv, PlacesInv, Placed, Ensuring
<1>21. ASSUME NEW c \in Callers, Takes(c) PROVE StopInv'
  BY <1>21 DEF Takes, Fails, Without, Returns, Moves, Cancelled, TypeOK, LocksHeld, MakingInv,
     UnusedInv, Unused, Engaged, StopInv, PlacesInv, Placed, Ensuring
<1>22. ASSUME NEW c \in Callers, Release(c) PROVE StopInv'
  BY <1>22 DEF Release, ManualRest, Starts, TypeOK, LocksHeld, MakingInv, UnusedInv, Unused,
     Engaged, StopInv, PlacesInv, Placed, Ensuring
<1>23. ASSUME NEW c \in Callers, ReleaseClears(c) PROVE StopInv'
  BY <1>23 DEF ReleaseClears, ManualRest, Moves, Returns, Without, TypeOK, LocksHeld, MakingInv,
     UnusedInv, Unused, Engaged, StopInv, PlacesInv, Placed, Ensuring
<1>24. ASSUME NEW c \in Callers, DrivesManually(c) PROVE StopInv'
  BY <1>24 DEF DrivesManually, ManualRest, MayDriveManually, TypeOK, LocksHeld, MakingInv,
     UnusedInv, Unused, Engaged, StopInv, PlacesInv, Placed, Ensuring
<1>25. ASSUME NEW c \in Callers, EmergencyStopEarly(c) PROVE StopInv'
  BY <1>25 DEF EmergencyStopEarly, StopRest, CancelsTask, TypeOK, LocksHeld, MakingInv, UnusedInv,
     Unused, Engaged, StopInv, PlacesInv, Placed, Ensuring
<1>26. ASSUME NEW c \in Callers, EmergencyStop(c) PROVE StopInv'
  BY <1>26 DEF EmergencyStop, StopRest, Starts, CancelsTask, TypeOK, LocksHeld, MakingInv,
     UnusedInv, Unused, Engaged, StopInv, PlacesInv, Placed, Ensuring
<1>27. ASSUME NEW c \in Callers, Latches(c) PROVE StopInv'
  BY <1>27 DEF Latches, StopRest, Moves, Returns, Cancelled, TypeOK, LocksHeld, MakingInv,
     UnusedInv, Unused, Engaged, StopInv, PlacesInv, Placed, Ensuring
<1>28. ASSUME NEW c \in Callers, Reset(c) PROVE StopInv'
  BY <1>28 DEF Reset, StopRest, Starts, TypeOK, LocksHeld, MakingInv, UnusedInv, Unused, Engaged,
     StopInv, PlacesInv, Placed, Ensuring
<1>29. ASSUME NEW c \in Callers, ResetClears(c) PROVE StopInv'
  BY <1>29 DEF ResetClears, StopRest, Moves, Returns, TypeOK, LocksHeld, MakingInv, UnusedInv,
     Unused, Engaged, StopInv, PlacesInv, Placed, Ensuring
<1>30. ASSUME NEW c \in Callers, HoldSucceeds(c) PROVE StopInv'
  BY <1>30 DEF HoldSucceeds, Moves, Returns, Without, AuthorityAfter, TypeOK, LocksHeld,
     MakingInv, UnusedInv, Unused, Engaged, StopInv, PlacesInv, Placed, Ensuring
<1>31. ASSUME NEW c \in Callers, HoldFails(c) PROVE StopInv'
  BY <1>31 DEF HoldFails, Fails, Without, Returns, Cancelled, TypeOK, LocksHeld, MakingInv,
     UnusedInv, Unused, Engaged, StopInv, PlacesInv, Placed, Ensuring
<1>32. ASSUME NEW c \in Callers, Observe(c) PROVE StopInv'
  BY <1>32 DEF Observe, ObserveRest, Starts, TypeOK, LocksHeld, MakingInv, UnusedInv, Unused,
     Engaged, StopInv, PlacesInv, Placed, Ensuring
<1>33. ASSUME NEW c \in Callers, Looks(c) PROVE StopInv'
  BY <1>33 DEF Looks, ObserveRest, Moves, Returns, TypeOK, LocksHeld, MakingInv, UnusedInv,
     Unused, Engaged, StopInv, PlacesInv, Placed, Ensuring
<1>34. ASSUME NEW c \in Callers, Attaches(c) PROVE StopInv'
  BY <1>34 DEF Attaches, ObserveRest, NewArbiter, Moves, Returns, TypeOK, LocksHeld, MakingInv,
     UnusedInv, Unused, Engaged, StopInv, PlacesInv, Placed, Ensuring
<1>35. CASE CloseBegins
  BY <1>35 DEF CloseBegins, CloseRest, CancelsTask, TypeOK, LocksHeld, MakingInv, UnusedInv,
     Unused, Engaged, StopInv, PlacesInv, Placed, Ensuring
<1>36. CASE CloseReads
  BY <1>36 DEF CloseReads, CloseRest, TypeOK, LocksHeld, MakingInv, UnusedInv, Unused, Engaged,
     StopInv, PlacesInv, Placed, Ensuring
<1>37. CASE CloseArbiter
  BY <1>37 DEF CloseArbiter, CloseRest, Cancelled, HoldsAtClose, TypeOK, LocksHeld, MakingInv,
     UnusedInv, Unused, Engaged, StopInv, PlacesInv, Placed, Ensuring
<1>38. CASE CloseHolds
  BY <1>38 DEF CloseHolds, CloseRest, TypeOK, LocksHeld, MakingInv, UnusedInv, Unused, Engaged,
     StopInv, PlacesInv, Placed, Ensuring
<1>39. CASE CloseHub
  BY <1>39 DEF CloseHub, CloseRest, KeepsDevice, TypeOK, LocksHeld, MakingInv, UnusedInv, Unused,
     Engaged, StopInv, PlacesInv, Placed, Ensuring
<1>40. CASE CloseManager
  BY <1>40 DEF CloseManager, CloseRest, TypeOK, LocksHeld, MakingInv, UnusedInv, Unused, Engaged,
     StopInv, PlacesInv, Placed, Ensuring
<1>41. CASE CloseEnds
  BY <1>41 DEF CloseEnds, CloseRest, TypeOK, LocksHeld, MakingInv, UnusedInv, Unused, Engaged,
     StopInv, PlacesInv, Placed, Ensuring
<1> QED
  BY <1>1, <1>2, <1>3, <1>4, <1>5, <1>6, <1>7, <1>8, <1>9, <1>10, <1>11, <1>12, <1>13, <1>14,
     <1>15, <1>16, <1>17, <1>18, <1>19, <1>20, <1>21, <1>22, <1>23, <1>24, <1>25, <1>26, <1>27,
     <1>28, <1>29, <1>30, <1>31, <1>32, <1>33, <1>34, <1>35, <1>36, <1>37, <1>38, <1>39, <1>40,
     <1>41
     DEF Next, CallBegins, Step, EnsureStep, JobStep, ManualStep, StopStep, ObserveStep, CloseStep

\* Whoever takes the token answers for what moves.
LEMMA HeldStep ==
    ASSUME IInv, Next
    PROVE  HeldInv'
<1> USE CallersAssumption DEF IInv, serviceVars, lockVars, arbiterVars, threadVars, closeVars,
   robotVars, historyVars
<1>1. ASSUME NEW c \in Callers, EnsureFinds(c) PROVE HeldInv'
  BY <1>1 DEF EnsureFinds, EnsureRest, Fails, Without, Returns, Moves, TypeOK, MakingInv,
     UnusedInv, Unused, Engaged, HeldInv, PlacesInv, Placed, Ensuring
<1>2. ASSUME NEW c \in Callers, EnsureOpens(c) PROVE HeldInv'
  BY <1>2 DEF EnsureOpens, EnsureRest, Fails, Without, Returns, Moves, TypeOK, MakingInv,
     UnusedInv, Unused, Engaged, HeldInv, PlacesInv, Placed, Ensuring
<1>3. ASSUME NEW c \in Callers, Opens(c) PROVE HeldInv'
  BY <1>3 DEF Opens, EnsureRest, NewArbiter, AfterOpening, Interrupted, Moves, Returns, TypeOK,
     MakingInv, UnusedInv, Unused, Engaged, HeldInv, PlacesInv, Placed, Ensuring
<1>4. ASSUME NEW c \in Callers, OpeningFails(c) PROVE HeldInv'
  BY <1>4 DEF OpeningFails, EnsureRest, Fails, Without, Returns, TypeOK, MakingInv, UnusedInv,
     Unused, Engaged, HeldInv, PlacesInv, Placed, Ensuring
<1>5. ASSUME NEW c \in Callers, Interrupts(c) PROVE HeldInv'
  BY <1>5 DEF Interrupts, EnsureRest, Fails, Without, Returns, Cancelled, TypeOK, MakingInv,
     UnusedInv, Unused, Engaged, HeldInv, PlacesInv, Placed, Ensuring
<1>6. ASSUME NEW c \in Callers, Prepares(c) PROVE HeldInv'
  BY <1>6 DEF Prepares, EnsureRest, Moves, Returns, TypeOK, MakingInv, UnusedInv, Unused, Engaged,
     HeldInv, PlacesInv, Placed, Ensuring
<1>7. ASSUME NEW c \in Callers, Execute(c) PROVE HeldInv'
  BY <1>7 DEF Execute, JobRest, Starts, Without, NewToken, TypeOK, MakingInv, UnusedInv, Unused,
     Engaged, HeldInv, PlacesInv, Placed, Ensuring
<1>8. ASSUME NEW c \in Callers, TaskLock(c) PROVE HeldInv'
  BY <1>8 DEF TaskLock, JobRest, Moves, Returns, TypeOK, MakingInv, UnusedInv, Unused, Engaged,
     HeldInv, PlacesInv, Placed, Ensuring
<1>9. ASSUME NEW c \in Callers, Direct(c) PROVE HeldInv'
  BY <1>9 DEF Direct, JobRest, Starts, Without, NewToken, TypeOK, MakingInv, UnusedInv, Unused,
     Engaged, HeldInv, PlacesInv, Placed, Ensuring
<1>10. ASSUME NEW c \in Callers, CancelEvent(c) PROVE HeldInv'
  BY <1>10 DEF CancelEvent, TypeOK, MakingInv, UnusedInv, Unused, Engaged, HeldInv, PlacesInv,
     Placed, Ensuring
<1>11. ASSUME NEW c \in Callers, Begins(c) PROVE HeldInv'
  BY <1>11 DEF Begins, JobRest, Moves, Returns, Without, Cancelled, TypeOK, MakingInv, UnusedInv,
     Unused, Engaged, HeldInv, PlacesInv, Placed, Ensuring
<1>12. ASSUME NEW c \in Callers, Registers(c) PROVE HeldInv'
  BY <1>12 DEF Registers, JobRest, Moves, Returns, TypeOK, MakingInv, UnusedInv, Unused, Engaged,
     HeldInv, PlacesInv, Placed, Ensuring
<1>13. ASSUME NEW c \in Callers, Drives(c) PROVE HeldInv'
  BY <1>13 DEF Drives, JobRest, MayDrive, Admits, TypeOK, MakingInv, UnusedInv, Unused, Engaged,
     HeldInv, PlacesInv, Placed, Ensuring
<1>14. ASSUME NEW c \in Callers, RunEnds(c) PROVE HeldInv'
  BY <1>14 DEF RunEnds, JobRest, Moves, Returns, Without, TypeOK, MakingInv, UnusedInv, Unused,
     Engaged, HeldInv, PlacesInv, Placed, Ensuring
<1>15. ASSUME NEW c \in Callers, Drops(c) PROVE HeldInv'
  BY <1>15 DEF Drops, JobRest, Moves, Returns, Without, TypeOK, MakingInv, UnusedInv, Unused,
     Engaged, HeldInv, PlacesInv, Placed, Ensuring
<1>16. ASSUME NEW c \in Callers, Finishes(c) PROVE HeldInv'
  BY <1>16 DEF Finishes, JobRest, Moves, Returns, Without, Cancelled, Owns, TypeOK, MakingInv,
     UnusedInv, Unused, Engaged, HeldInv, PlacesInv, Placed, Ensuring
<1>17. ASSUME NEW c \in Callers, Cancel(c) PROVE HeldInv'
  BY <1>17 DEF Cancel, JobRest, Starts, TypeOK, MakingInv, UnusedInv, Unused, Engaged, HeldInv,
     PlacesInv, Placed, Ensuring
<1>18. ASSUME NEW c \in Callers, CancelsWork(c) PROVE HeldInv'
  BY <1>18 DEF CancelsWork, JobRest, Moves, Returns, Cancelled, Owns, TypeOK, MakingInv,
     UnusedInv, Unused, Engaged, HeldInv, PlacesInv, Placed, Ensuring
<1>19. ASSUME NEW c \in Callers, Acquire(c) PROVE HeldInv'
  BY <1>19 DEF Acquire, ManualRest, Starts, OwnerIsFree, TypeOK, MakingInv, UnusedInv, Unused,
     Engaged, HeldInv, PlacesInv, Placed, Ensuring
<1>20. ASSUME NEW c \in Callers, CancelsForManual(c) PROVE HeldInv'
  BY <1>20 DEF CancelsForManual, ManualRest, Moves, Returns, CancelsTask, TypeOK, MakingInv,
     UnusedInv, Unused, Engaged, HeldInv, PlacesInv, Placed, Ensuring
<1>21. ASSUME NEW c \in Callers, Takes(c) PROVE HeldInv'
  BY <1>21 DEF Takes, Fails, Without, Returns, Moves, Cancelled, TypeOK, MakingInv, UnusedInv,
     Unused, Engaged, HeldInv, PlacesInv, Placed, Ensuring
<1>22. ASSUME NEW c \in Callers, Release(c) PROVE HeldInv'
  BY <1>22 DEF Release, ManualRest, Starts, TypeOK, MakingInv, UnusedInv, Unused, Engaged,
     HeldInv, PlacesInv, Placed, Ensuring
<1>23. ASSUME NEW c \in Callers, ReleaseClears(c) PROVE HeldInv'
  BY <1>23 DEF ReleaseClears, ManualRest, Moves, Returns, Without, TypeOK, MakingInv, UnusedInv,
     Unused, Engaged, HeldInv, PlacesInv, Placed, Ensuring
<1>24. ASSUME NEW c \in Callers, DrivesManually(c) PROVE HeldInv'
  BY <1>24 DEF DrivesManually, ManualRest, MayDriveManually, TypeOK, MakingInv, UnusedInv, Unused,
     Engaged, HeldInv, PlacesInv, Placed, Ensuring
<1>25. ASSUME NEW c \in Callers, EmergencyStopEarly(c) PROVE HeldInv'
  BY <1>25 DEF EmergencyStopEarly, StopRest, CancelsTask, TypeOK, MakingInv, UnusedInv, Unused,
     Engaged, HeldInv, PlacesInv, Placed, Ensuring
<1>26. ASSUME NEW c \in Callers, EmergencyStop(c) PROVE HeldInv'
  BY <1>26 DEF EmergencyStop, StopRest, Starts, CancelsTask, TypeOK, MakingInv, UnusedInv, Unused,
     Engaged, HeldInv, PlacesInv, Placed, Ensuring
<1>27. ASSUME NEW c \in Callers, Latches(c) PROVE HeldInv'
  BY <1>27 DEF Latches, StopRest, Moves, Returns, Cancelled, TypeOK, MakingInv, UnusedInv, Unused,
     Engaged, HeldInv, PlacesInv, Placed, Ensuring
<1>28. ASSUME NEW c \in Callers, Reset(c) PROVE HeldInv'
  BY <1>28 DEF Reset, StopRest, Starts, TypeOK, MakingInv, UnusedInv, Unused, Engaged, HeldInv,
     PlacesInv, Placed, Ensuring
<1>29. ASSUME NEW c \in Callers, ResetClears(c) PROVE HeldInv'
  BY <1>29 DEF ResetClears, StopRest, Moves, Returns, TypeOK, MakingInv, UnusedInv, Unused,
     Engaged, HeldInv, PlacesInv, Placed, Ensuring
<1>30. ASSUME NEW c \in Callers, HoldSucceeds(c) PROVE HeldInv'
  BY <1>30 DEF HoldSucceeds, Moves, Returns, Without, AuthorityAfter, TypeOK, MakingInv,
     UnusedInv, Unused, Engaged, HeldInv, PlacesInv, Placed, Ensuring
<1>31. ASSUME NEW c \in Callers, HoldFails(c) PROVE HeldInv'
  BY <1>31 DEF HoldFails, Fails, Without, Returns, Cancelled, TypeOK, MakingInv, UnusedInv,
     Unused, Engaged, HeldInv, PlacesInv, Placed, Ensuring
<1>32. ASSUME NEW c \in Callers, Observe(c) PROVE HeldInv'
  BY <1>32 DEF Observe, ObserveRest, Starts, TypeOK, MakingInv, UnusedInv, Unused, Engaged,
     HeldInv, PlacesInv, Placed, Ensuring
<1>33. ASSUME NEW c \in Callers, Looks(c) PROVE HeldInv'
  BY <1>33 DEF Looks, ObserveRest, Moves, Returns, TypeOK, MakingInv, UnusedInv, Unused, Engaged,
     HeldInv, PlacesInv, Placed, Ensuring
<1>34. ASSUME NEW c \in Callers, Attaches(c) PROVE HeldInv'
  BY <1>34 DEF Attaches, ObserveRest, NewArbiter, Moves, Returns, TypeOK, MakingInv, UnusedInv,
     Unused, Engaged, HeldInv, PlacesInv, Placed, Ensuring
<1>35. CASE CloseBegins
  BY <1>35 DEF CloseBegins, CloseRest, CancelsTask, TypeOK, MakingInv, UnusedInv, Unused, Engaged,
     HeldInv, PlacesInv, Placed, Ensuring
<1>36. CASE CloseReads
  BY <1>36 DEF CloseReads, CloseRest, TypeOK, MakingInv, UnusedInv, Unused, Engaged, HeldInv,
     PlacesInv, Placed, Ensuring
<1>37. CASE CloseArbiter
  BY <1>37 DEF CloseArbiter, CloseRest, Cancelled, HoldsAtClose, TypeOK, MakingInv, UnusedInv,
     Unused, Engaged, HeldInv, PlacesInv, Placed, Ensuring
<1>38. CASE CloseHolds
  BY <1>38 DEF CloseHolds, CloseRest, TypeOK, MakingInv, UnusedInv, Unused, Engaged, HeldInv,
     PlacesInv, Placed, Ensuring
<1>39. CASE CloseHub
  BY <1>39 DEF CloseHub, CloseRest, KeepsDevice, TypeOK, MakingInv, UnusedInv, Unused, Engaged,
     HeldInv, PlacesInv, Placed, Ensuring
<1>40. CASE CloseManager
  BY <1>40 DEF CloseManager, CloseRest, TypeOK, MakingInv, UnusedInv, Unused, Engaged, HeldInv,
     PlacesInv, Placed, Ensuring
<1>41. CASE CloseEnds
  BY <1>41 DEF CloseEnds, CloseRest, TypeOK, MakingInv, UnusedInv, Unused, Engaged, HeldInv,
     PlacesInv, Placed, Ensuring
<1> QED
  BY <1>1, <1>2, <1>3, <1>4, <1>5, <1>6, <1>7, <1>8, <1>9, <1>10, <1>11, <1>12, <1>13, <1>14,
     <1>15, <1>16, <1>17, <1>18, <1>19, <1>20, <1>21, <1>22, <1>23, <1>24, <1>25, <1>26, <1>27,
     <1>28, <1>29, <1>30, <1>31, <1>32, <1>33, <1>34, <1>35, <1>36, <1>37, <1>38, <1>39, <1>40,
     <1>41
     DEF Next, CallBegins, Step, EnsureStep, JobStep, ManualStep, StopStep, ObserveStep, CloseStep

\* close() goes through its steps in order.
LEMMA CloseStepKeeps ==
    ASSUME IInv, Next
    PROVE  CloseInv'
<1> USE CallersAssumption DEF IInv, serviceVars, lockVars, arbiterVars, threadVars, closeVars,
   robotVars, historyVars
<1>1. ASSUME NEW c \in Callers, EnsureFinds(c) PROVE CloseInv'
  BY <1>1 DEF EnsureFinds, EnsureRest, Fails, Without, Returns, Moves, TypeOK, LocksHeld,
     MakingInv, UnusedInv, Unused, Engaged, PreparedInv, CloseInv, PlacesInv, Placed, Ensuring
<1>2. ASSUME NEW c \in Callers, EnsureOpens(c) PROVE CloseInv'
  BY <1>2 DEF EnsureOpens, EnsureRest, Fails, Without, Returns, Moves, TypeOK, LocksHeld,
     MakingInv, UnusedInv, Unused, Engaged, PreparedInv, CloseInv, PlacesInv, Placed, Ensuring
<1>3. ASSUME NEW c \in Callers, Opens(c) PROVE CloseInv'
  BY <1>3 DEF Opens, EnsureRest, NewArbiter, AfterOpening, Interrupted, Moves, Returns, TypeOK,
     LocksHeld, MakingInv, UnusedInv, Unused, Engaged, PreparedInv, CloseInv, PlacesInv, Placed,
     Ensuring
<1>4. ASSUME NEW c \in Callers, OpeningFails(c) PROVE CloseInv'
  BY <1>4 DEF OpeningFails, EnsureRest, Fails, Without, Returns, TypeOK, LocksHeld, MakingInv,
     UnusedInv, Unused, Engaged, PreparedInv, CloseInv, PlacesInv, Placed, Ensuring
<1>5. ASSUME NEW c \in Callers, Interrupts(c) PROVE CloseInv'
  BY <1>5 DEF Interrupts, EnsureRest, Fails, Without, Returns, Cancelled, TypeOK, LocksHeld,
     MakingInv, UnusedInv, Unused, Engaged, PreparedInv, CloseInv, PlacesInv, Placed, Ensuring
<1>6. ASSUME NEW c \in Callers, Prepares(c) PROVE CloseInv'
  BY <1>6 DEF Prepares, EnsureRest, Moves, Returns, TypeOK, LocksHeld, MakingInv, UnusedInv,
     Unused, Engaged, PreparedInv, CloseInv, PlacesInv, Placed, Ensuring
<1>7. ASSUME NEW c \in Callers, Execute(c) PROVE CloseInv'
  BY <1>7 DEF Execute, JobRest, Starts, Without, NewToken, TypeOK, LocksHeld, MakingInv,
     UnusedInv, Unused, Engaged, PreparedInv, CloseInv, PlacesInv, Placed, Ensuring
<1>8. ASSUME NEW c \in Callers, TaskLock(c) PROVE CloseInv'
  BY <1>8 DEF TaskLock, JobRest, Moves, Returns, TypeOK, LocksHeld, MakingInv, UnusedInv, Unused,
     Engaged, PreparedInv, CloseInv, PlacesInv, Placed, Ensuring
<1>9. ASSUME NEW c \in Callers, Direct(c) PROVE CloseInv'
  BY <1>9 DEF Direct, JobRest, Starts, Without, NewToken, TypeOK, LocksHeld, MakingInv, UnusedInv,
     Unused, Engaged, PreparedInv, CloseInv, PlacesInv, Placed, Ensuring
<1>10. ASSUME NEW c \in Callers, CancelEvent(c) PROVE CloseInv'
  BY <1>10 DEF CancelEvent, TypeOK, LocksHeld, MakingInv, UnusedInv, Unused, Engaged, PreparedInv,
     CloseInv, PlacesInv, Placed, Ensuring
<1>11. ASSUME NEW c \in Callers, Begins(c) PROVE CloseInv'
  BY <1>11 DEF Begins, JobRest, Moves, Returns, Without, Cancelled, TypeOK, LocksHeld, MakingInv,
     UnusedInv, Unused, Engaged, PreparedInv, CloseInv, PlacesInv, Placed, Ensuring
<1>12. ASSUME NEW c \in Callers, Registers(c) PROVE CloseInv'
  BY <1>12 DEF Registers, JobRest, Moves, Returns, TypeOK, LocksHeld, MakingInv, UnusedInv,
     Unused, Engaged, PreparedInv, CloseInv, PlacesInv, Placed, Ensuring
<1>13. ASSUME NEW c \in Callers, Drives(c) PROVE CloseInv'
  BY <1>13 DEF Drives, JobRest, MayDrive, Admits, TypeOK, LocksHeld, MakingInv, UnusedInv, Unused,
     Engaged, PreparedInv, CloseInv, PlacesInv, Placed, Ensuring
<1>14. ASSUME NEW c \in Callers, RunEnds(c) PROVE CloseInv'
  BY <1>14 DEF RunEnds, JobRest, Moves, Returns, Without, TypeOK, LocksHeld, MakingInv, UnusedInv,
     Unused, Engaged, PreparedInv, CloseInv, PlacesInv, Placed, Ensuring
<1>15. ASSUME NEW c \in Callers, Drops(c) PROVE CloseInv'
  BY <1>15 DEF Drops, JobRest, Moves, Returns, Without, TypeOK, LocksHeld, MakingInv, UnusedInv,
     Unused, Engaged, PreparedInv, CloseInv, PlacesInv, Placed, Ensuring
<1>16. ASSUME NEW c \in Callers, Finishes(c) PROVE CloseInv'
  BY <1>16 DEF Finishes, JobRest, Moves, Returns, Without, Cancelled, Owns, TypeOK, LocksHeld,
     MakingInv, UnusedInv, Unused, Engaged, PreparedInv, CloseInv, PlacesInv, Placed, Ensuring
<1>17. ASSUME NEW c \in Callers, Cancel(c) PROVE CloseInv'
  BY <1>17 DEF Cancel, JobRest, Starts, TypeOK, LocksHeld, MakingInv, UnusedInv, Unused, Engaged,
     PreparedInv, CloseInv, PlacesInv, Placed, Ensuring
<1>18. ASSUME NEW c \in Callers, CancelsWork(c) PROVE CloseInv'
  BY <1>18 DEF CancelsWork, JobRest, Moves, Returns, Cancelled, Owns, TypeOK, LocksHeld,
     MakingInv, UnusedInv, Unused, Engaged, PreparedInv, CloseInv, PlacesInv, Placed, Ensuring
<1>19. ASSUME NEW c \in Callers, Acquire(c) PROVE CloseInv'
  BY <1>19 DEF Acquire, ManualRest, Starts, OwnerIsFree, TypeOK, LocksHeld, MakingInv, UnusedInv,
     Unused, Engaged, PreparedInv, CloseInv, PlacesInv, Placed, Ensuring
<1>20. ASSUME NEW c \in Callers, CancelsForManual(c) PROVE CloseInv'
  BY <1>20 DEF CancelsForManual, ManualRest, Moves, Returns, CancelsTask, TypeOK, LocksHeld,
     MakingInv, UnusedInv, Unused, Engaged, PreparedInv, CloseInv, PlacesInv, Placed, Ensuring
<1>21. ASSUME NEW c \in Callers, Takes(c) PROVE CloseInv'
  BY <1>21 DEF Takes, Fails, Without, Returns, Moves, Cancelled, TypeOK, LocksHeld, MakingInv,
     UnusedInv, Unused, Engaged, PreparedInv, CloseInv, PlacesInv, Placed, Ensuring
<1>22. ASSUME NEW c \in Callers, Release(c) PROVE CloseInv'
  BY <1>22 DEF Release, ManualRest, Starts, TypeOK, LocksHeld, MakingInv, UnusedInv, Unused,
     Engaged, PreparedInv, CloseInv, PlacesInv, Placed, Ensuring
<1>23. ASSUME NEW c \in Callers, ReleaseClears(c) PROVE CloseInv'
  BY <1>23 DEF ReleaseClears, ManualRest, Moves, Returns, Without, TypeOK, LocksHeld, MakingInv,
     UnusedInv, Unused, Engaged, PreparedInv, CloseInv, PlacesInv, Placed, Ensuring
<1>24. ASSUME NEW c \in Callers, DrivesManually(c) PROVE CloseInv'
  BY <1>24 DEF DrivesManually, ManualRest, MayDriveManually, TypeOK, LocksHeld, MakingInv,
     UnusedInv, Unused, Engaged, PreparedInv, CloseInv, PlacesInv, Placed, Ensuring
<1>25. ASSUME NEW c \in Callers, EmergencyStopEarly(c) PROVE CloseInv'
  BY <1>25 DEF EmergencyStopEarly, StopRest, CancelsTask, TypeOK, LocksHeld, MakingInv, UnusedInv,
     Unused, Engaged, PreparedInv, CloseInv, PlacesInv, Placed, Ensuring
<1>26. ASSUME NEW c \in Callers, EmergencyStop(c) PROVE CloseInv'
  BY <1>26 DEF EmergencyStop, StopRest, Starts, CancelsTask, TypeOK, LocksHeld, MakingInv,
     UnusedInv, Unused, Engaged, PreparedInv, CloseInv, PlacesInv, Placed, Ensuring
<1>27. ASSUME NEW c \in Callers, Latches(c) PROVE CloseInv'
  BY <1>27 DEF Latches, StopRest, Moves, Returns, Cancelled, TypeOK, LocksHeld, MakingInv,
     UnusedInv, Unused, Engaged, PreparedInv, CloseInv, PlacesInv, Placed, Ensuring
<1>28. ASSUME NEW c \in Callers, Reset(c) PROVE CloseInv'
  BY <1>28 DEF Reset, StopRest, Starts, TypeOK, LocksHeld, MakingInv, UnusedInv, Unused, Engaged,
     PreparedInv, CloseInv, PlacesInv, Placed, Ensuring
<1>29. ASSUME NEW c \in Callers, ResetClears(c) PROVE CloseInv'
  BY <1>29 DEF ResetClears, StopRest, Moves, Returns, TypeOK, LocksHeld, MakingInv, UnusedInv,
     Unused, Engaged, PreparedInv, CloseInv, PlacesInv, Placed, Ensuring
<1>30. ASSUME NEW c \in Callers, HoldSucceeds(c) PROVE CloseInv'
  BY <1>30 DEF HoldSucceeds, Moves, Returns, Without, AuthorityAfter, TypeOK, LocksHeld,
     MakingInv, UnusedInv, Unused, Engaged, PreparedInv, CloseInv, PlacesInv, Placed, Ensuring
<1>31. ASSUME NEW c \in Callers, HoldFails(c) PROVE CloseInv'
  BY <1>31 DEF HoldFails, Fails, Without, Returns, Cancelled, TypeOK, LocksHeld, MakingInv,
     UnusedInv, Unused, Engaged, PreparedInv, CloseInv, PlacesInv, Placed, Ensuring
<1>32. ASSUME NEW c \in Callers, Observe(c) PROVE CloseInv'
  BY <1>32 DEF Observe, ObserveRest, Starts, TypeOK, LocksHeld, MakingInv, UnusedInv, Unused,
     Engaged, PreparedInv, CloseInv, PlacesInv, Placed, Ensuring
<1>33. ASSUME NEW c \in Callers, Looks(c) PROVE CloseInv'
  BY <1>33 DEF Looks, ObserveRest, Moves, Returns, TypeOK, LocksHeld, MakingInv, UnusedInv,
     Unused, Engaged, PreparedInv, CloseInv, PlacesInv, Placed, Ensuring
<1>34. ASSUME NEW c \in Callers, Attaches(c) PROVE CloseInv'
  BY <1>34 DEF Attaches, ObserveRest, NewArbiter, Moves, Returns, TypeOK, LocksHeld, MakingInv,
     UnusedInv, Unused, Engaged, PreparedInv, CloseInv, PlacesInv, Placed, Ensuring
<1>35. CASE CloseBegins
  BY <1>35 DEF CloseBegins, CloseRest, CancelsTask, TypeOK, LocksHeld, MakingInv, UnusedInv,
     Unused, Engaged, PreparedInv, CloseInv, PlacesInv, Placed, Ensuring
<1>36. CASE CloseReads
  BY <1>36 DEF CloseReads, CloseRest, TypeOK, LocksHeld, MakingInv, UnusedInv, Unused, Engaged,
     PreparedInv, CloseInv, PlacesInv, Placed, Ensuring
<1>37. CASE CloseArbiter
  BY <1>37 DEF CloseArbiter, CloseRest, Cancelled, HoldsAtClose, TypeOK, LocksHeld, MakingInv,
     UnusedInv, Unused, Engaged, PreparedInv, CloseInv, PlacesInv, Placed, Ensuring
<1>38. CASE CloseHolds
  BY <1>38 DEF CloseHolds, CloseRest, TypeOK, LocksHeld, MakingInv, UnusedInv, Unused, Engaged,
     PreparedInv, CloseInv, PlacesInv, Placed, Ensuring
<1>39. CASE CloseHub
  BY <1>39 DEF CloseHub, CloseRest, KeepsDevice, TypeOK, LocksHeld, MakingInv, UnusedInv, Unused,
     Engaged, PreparedInv, CloseInv, PlacesInv, Placed, Ensuring
<1>40. CASE CloseManager
  BY <1>40 DEF CloseManager, CloseRest, TypeOK, LocksHeld, MakingInv, UnusedInv, Unused, Engaged,
     PreparedInv, CloseInv, PlacesInv, Placed, Ensuring
<1>41. CASE CloseEnds
  BY <1>41 DEF CloseEnds, CloseRest, TypeOK, LocksHeld, MakingInv, UnusedInv, Unused, Engaged,
     PreparedInv, CloseInv, PlacesInv, Placed, Ensuring
<1> QED
  BY <1>1, <1>2, <1>3, <1>4, <1>5, <1>6, <1>7, <1>8, <1>9, <1>10, <1>11, <1>12, <1>13, <1>14,
     <1>15, <1>16, <1>17, <1>18, <1>19, <1>20, <1>21, <1>22, <1>23, <1>24, <1>25, <1>26, <1>27,
     <1>28, <1>29, <1>30, <1>31, <1>32, <1>33, <1>34, <1>35, <1>36, <1>37, <1>38, <1>39, <1>40,
     <1>41
     DEF Next, CallBegins, Step, EnsureStep, JobStep, ManualStep, StopStep, ObserveStep, CloseStep

-----------------------------------------------------------------------------

\* Nothing has happened to a service that was just made.
LEMMA Start == Init => IInv
  BY CallersAssumption
     DEF Init, IInv, TypeOK, Places, PlacesInv, Placed, Ensuring, LocksHeld, MakingInv, UnusedInv,
         Unused, Engaged, PreparedInv, ManualInv, StopInv, HeldInv, CloseInv

\* Every step keeps the invariant.
LEMMA Kept == IInv /\ [Next]_vars => IInv'
<1> SUFFICES ASSUME IInv, [Next]_vars PROVE IInv'
  OBVIOUS
<1>1. CASE Next
  BY <1>1, TypeStep, PlacesStep, LockStep, MakingStep, UnusedStep, PreparedStep, ManualStepKeeps,
     StopStepKeeps, HeldStep, CloseStepKeeps DEF IInv
<1>2. CASE UNCHANGED vars
  BY <1>2 DEF vars, serviceVars, lockVars, arbiterVars, threadVars, closeVars, robotVars,
     historyVars,
      IInv, TypeOK, Places, PlacesInv, Placed, Ensuring, LocksHeld, MakingInv, UnusedInv,
      Unused, Engaged, PreparedInv, ManualInv, StopInv, HeldInv, CloseInv
<1> QED
  BY <1>1, <1>2

\* The invariant holds throughout.
LEMMA SpecIInv == Spec => []IInv
  BY Start, Kept, PTL DEF Spec

-----------------------------------------------------------------------------

\* The state stays in its domain.
THEOREM TypeCorrect == Spec => []TypeOK
<1>1. IInv => TypeOK
  BY DEF IInv
<1> QED
  BY <1>1, SpecIInv, PTL

\* _current_task_lock, _robot_lock and _manual_lock are held exactly by the calls in
\* their sections; the robot's holder always goes on without waiting for another lock.
THEOREM LocksAreHeld == Spec => []LocksHeld
<1>1. IInv => LocksHeld
  BY DEF IInv
<1> QED
  BY <1>1, SpecIInv, PTL

\* emergency_stop: from the latch to the answer of a reset nobody can drive, unless an
\* observation published an arbiter that was not latched.
THEOREM StopsAreHonoured == Spec => []StopHonoured
<1>1. IInv => StopHonoured
  <2> SUFFICES ASSUME IInv, stopped, ~escaped, NEW c \in Callers, MayDrive(c) \/ MayDriveManually(c)
               PROVE  FALSE
    BY DEF StopHonoured
  <2>1. arbiter = "open" /\ authority # "ESTOP"
    BY DEF MayDrive, Admits, MayDriveManually
  <2>2. PICK d \in Callers : at[d] = "interrupt"
    BY <2>1 DEF IInv, StopInv
  <2>3. Unused
    BY <2>2 DEF IInv, UnusedInv
  <2> QED
    BY <2>3, CallersAssumption DEF Unused, MayDrive, Admits, MayDriveManually, IInv, MakingInv
<1> QED
  BY <1>1, SpecIInv, PTL

\* acquire_manual: one caller has manual control, and the task before it no longer drives.
THEOREM ManualIsAlone == Spec => []ManualAlone
<1>1. IInv => ManualAlone
  BY DEF IInv, ManualInv, ManualAlone, MayDrive, Admits
<1> QED
  BY <1>1, SpecIInv, PTL

\* _ensure_robot_arbiter prepares the robot before anyone is handed its arbiter.
THEOREM DrivesPreparedOnly == Spec => []DrivesPrepared
<1>1. IInv => DrivesPrepared
  BY CallersAssumption
     DEF IInv, PreparedInv, MakingInv, DrivesPrepared, MayDrive, Admits, MayDriveManually
<1> QED
  BY <1>1, SpecIInv, PTL

\* Both of what entitles a caller to drive: the side is the caller's, and the robot was
\* prepared (_command_admission).
THEOREM DriversAreEntitled == Spec => []DriversEntitled
BY ManualIsAlone, DrivesPreparedOnly, PTL DEF DriversEntitled

\* finish_automatic_work and cancel_automatic_work: the last job leaves the robot held;
\* close(): the device manager gets the robot back at rest.
THEOREM RobotIsLeftAtRest == Spec => []LeftAtRest
<1>1. IInv => HeldWhenIdle
  BY DEF IInv, TypeOK, HeldInv, HeldWhenIdle, Working
<1>2. IInv => ReleasedAtRest
  BY DEF IInv, CloseInv, ReleasedAtRest, MayDrive, Admits, MayDriveManually
<1>3. IInv => LeftAtRest
  BY <1>1, <1>2 DEF LeftAtRest
<1> QED
  BY <1>3, SpecIInv, PTL
=============================================================================
