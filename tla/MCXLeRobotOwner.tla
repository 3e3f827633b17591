-------------------------- MODULE MCXLeRobotOwner --------------------------
EXTENDS XLeRobotOwner, TLC
CONSTANTS c1, c2
MCScopeChoices == {c1 :> "arms" @@ c2 :> "base", c1 :> "all" @@ c2 :> "base"}
MCMaxEnables == c1 :> 1 @@ c2 :> 2
MCMaxLate == c1 :> 0 @@ c2 :> 1
=============================================================================
