----------------------------- MODULE MCServers -----------------------------
(* Servers with at most MaxRequests requests and MaxOutages changes of what  *)
(* machines answer (bounds of the model).                                    *)
EXTENDS Servers, TLC

CONSTANTS MaxRequests, MaxOutages
VARIABLES requests, outages

MCInit == Init /\ requests = 0 /\ outages = 0
MCNext ==
  \/ Proceed /\ UNCHANGED <<requests, outages>>
  \/ SomeBegin /\ requests < MaxRequests /\ requests' = requests + 1 /\ outages' = outages
  \/ SomeOutage /\ outages < MaxOutages /\ outages' = outages + 1 /\ requests' = requests
Symmetry == Permutations(Servers) \cup Permutations(Workers) \cup Permutations(Resolvers)
MCSpec == MCInit /\ [][MCNext]_<<vars, requests, outages>> /\ Fairness
=============================================================================
