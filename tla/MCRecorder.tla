----------------------------- MODULE MCRecorder ----------------------------
(* A recorder with queues of one, or a viewer with a queue of two, which a *)
(* replay can come second in.                                              *)
EXTENDS Recorder

QueueSizes == [s \in {"recorder", "viewer"} |-> IF s = "viewer" THEN 2 ELSE 1]
=============================================================================
