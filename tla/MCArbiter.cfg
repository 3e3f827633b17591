SPECIFICATION FairSpec
CONSTANTS
  x1 = x1  k1 = k1  t1 = t1  t2 = t2
  Tickets = {x1}
  NoTicket = NoTicket
  Tasks = {k1}
  NoTask = NoTask
  Threads = {t1, t2}
  NoThread = NoThread
  Worker = Worker
  Watchdog = Watchdog
  QueueCapacity = 1
  Preemptive = TRUE
  Faulty = TRUE
  OverlappingResets = FALSE
  MaxOperations = 3
INVARIANTS OvertakenTaskSilent AuthorityRespected StopsAreFinal
PROPERTIES CancelledNeverStarts EverythingEnds
CHECK_DEADLOCK FALSE
