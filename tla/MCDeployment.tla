---------------------------- MODULE MCDeployment ---------------------------
(* A small instance of a deployment for TLC.                               *)
EXTENDS Deployment, TLC

CONSTANTS p1, p2, a1, a2, c1, c2

Symmetry == Permutations(Pids) \cup Permutations(Agents) \cup Permutations(Commands)
=============================================================================
