SPECIFICATION DeploymentSpec
CONSTANTS
    p1 = p1  p2 = p2  a1 = a1  a2 = a2  c1 = c1  c2 = c2
    Pids = {p1, p2}
    NoPid = NoPid
    Agents = {a1, a2}
    NoAgent = NoAgent
    Commands = {c1, c2}
    MaxBirths = 3
    MaxCommands = 3
SYMMETRY Symmetry
INVARIANTS
    NothingForgotten
    StoppedMeansDown
PROPERTIES
    NoForeignSignal
CHECK_DEADLOCK FALSE
