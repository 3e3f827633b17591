-------------------------- MODULE MCDeviceManager --------------------------
(* Small instances of the device manager for TLC.                          *)
EXTENDS DeviceManager

CONSTANTS p1, p2, c1, c2, robot, arm

\* a robot with two arms, one of which is the robot of another service
RobotAndArm == [r \in {robot, arm} |-> IF r = robot THEN {arm} ELSE {}]

\* two clients share the robot, a client of another process uses the arm
TwoServices == {<<p1, c1, robot>>, <<p1, c2, robot>>, <<p2, c1, arm>>}
=============================================================================
