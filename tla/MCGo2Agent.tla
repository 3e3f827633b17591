----------------------------- MODULE MCGo2Agent ----------------------------
(* The agent with restarts: every state of one process, and of the next.   *)
EXTENDS Go2Agent
=============================================================================
