SPECIFICATION FairSpec
CONSTANTS
  j1 = j1  j2 = j2  p1 = p1  p2 = p2
  Keys = {j1, j2}
  Stoppable = {j1}
  Unreliable = {j2}
  Processes = {p1, p2}
  MaxJobs = 2
INVARIANTS OneExecution CancelRecordHonest CancelReachesCallback
PROPERTIES VerdictFinal WaitsReturn
