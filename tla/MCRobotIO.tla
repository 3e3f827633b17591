----------------------------- MODULE MCRobotIO -----------------------------
(* The scheduler of RobotIO for a few requests.                            *)
EXTENDS RobotIO

Call(o, b, e) == [op |-> o, budget |-> b, event |-> e]

\* The calls RobotAdapterCommandPort makes: execute for an action, observe, hold.
PortCalls == {Call("execute", "timeout", "clear"), Call("read", "timeout", "none"),
              Call("stop", "timeout", "none")}

\* The same, and callers that use deadlines or wait without bound.
AllCalls == PortCalls \cup
    {Call("execute", "deadline", "clear"), Call("execute", "past", "none"),
     Call("read", "none", "none")}
=============================================================================
