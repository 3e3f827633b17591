SPECIFICATION FairSpec
CONSTANTS
  p1 = p1  p2 = p2  c1 = c1  c2 = c2  robot = robot  arm = arm
  Shutdown = Shutdown  NoResource = NoResource  NoOwner = NoOwner
  Processes = {p1, p2}
  Clients = {c1, c2}
  Resources = {robot, arm}
  Buses = {}
  Components <- RobotAndArm
  External = {}
  Uses <- TwoServices
  Stopping = {p1}
  Faulty = TRUE
INVARIANTS SingleOwner FaultKept
PROPERTIES NoBlindPrepare ClosesReturn
