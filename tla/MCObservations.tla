-------------------------- MODULE MCObservations ---------------------------
(* One camera that may hang, one subscriber, two publishing threads.       *)
EXTENDS Observations

QueueSizes == [s \in Subscribers |-> 1]
=============================================================================
