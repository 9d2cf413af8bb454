-------------------------- MODULE MCLocalTaskQueue --------------------------
(* LocalTaskQueue on a small instance: at most MaxCalls calls of             *)
(* EnqueueTask, and MaxBreaks crashes and purges (bounds of the model), and  *)
(* then the queue is left to its consumers and to the sweep.                 *)
EXTENDS LocalTaskQueue

CONSTANTS MaxCalls, MaxBreaks
VARIABLES calls, breaks

SomeBeginEnqueue == \E e \in Enqueuers, q \in Queues, t \in Tasks : BeginEnqueue(e, q, t)

MCInit == Init /\ calls = 0 /\ breaks = 0
MCNext ==
  \/ /\ Paced(Step)
     /\ \/ ~SomeBeginEnqueue /\ calls' = calls
        \/ SomeBeginEnqueue /\ calls < MaxCalls /\ calls' = calls + 1
     /\ breaks' = breaks
  \/ /\ Crash \/ \E q \in Queues : PurgeQueue(q)
     /\ breaks < MaxBreaks /\ breaks' = breaks + 1
     /\ calls' = calls
MCSpec == MCInit /\ [][MCNext]_<<vars, calls, breaks>> /\ Fairness
=============================================================================
