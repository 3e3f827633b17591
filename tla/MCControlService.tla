-------------------------- MODULE MCControlService --------------------------
EXTENDS ControlService, TLC
CONSTANTS c1, c2
AllCalls == {"execute", "direct", "cancel", "acquire", "release", "estop", "reset", "observe"}
Symmetry == Permutations(Callers)
=============================================================================
