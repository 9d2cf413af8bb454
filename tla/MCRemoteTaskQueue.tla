------------------------- MODULE MCRemoteTaskQueue -------------------------
(* RemoteTaskQueue with bounds on what would go on for ever: MaxCalls calls  *)
(* of EnqueueTask, MaxTroubles crashes, lost connections and purges.         *)
EXTENDS RemoteTaskQueue

CONSTANTS MaxCalls, MaxTroubles

(* What LRem leaves of a list is the list without the body, in its order.    *)
ASSUME WithoutKeepsOrder ==
  \A s \in SeqOf(Tasks, 4), t \in Tasks : Without(s, t) = SelectSeq(s, LAMBDA u : u # t)

VARIABLES calls, troubles

SomeBeginEnqueue == \E c \in Enqueuers, q \in Queues, t \in Tasks : BeginEnqueue(c, q, t)
SomeTrouble      == Trouble \/ \E q \in Queues : PurgeList(q)

MCInit == Init /\ calls = 0 /\ troubles = 0
MCNext ==
  \/ Step /\ ~SomeBeginEnqueue /\ UNCHANGED <<calls, troubles>>
  \/ PurgeProcessing /\ UNCHANGED <<calls, troubles>>
  \/ SomeBeginEnqueue /\ calls < MaxCalls /\ calls' = calls + 1 /\ UNCHANGED troubles
  \/ SomeTrouble /\ troubles < MaxTroubles /\ troubles' = troubles + 1 /\ UNCHANGED calls
MCSpec == MCInit /\ [][MCNext]_<<vars, calls, troubles>> /\ Fairness
=============================================================================
