------------------------- MODULE MCPersistentVolumes -------------------------
(* PersistentVolumes from a cluster with or without the volume, with at most *)
(* MaxRequests requests and MaxBindings changes of bindings (bounds of the   *)
(* model).                                                                   *)
EXTENDS PersistentVolumes

CONSTANTS MaxRequests, MaxBindings
VARIABLES requests, bindings

(* Servers are alike: one is online from the start. *)
MCInit == /\ Init /\ status[CHOOSE s \in Servers : TRUE] = "online"
          /\ requests = 0 /\ bindings = 0
MCNext ==
  \/ Proceed /\ UNCHANGED <<requests, bindings>>
  \/ SomeBegin /\ requests < MaxRequests /\ requests' = requests + 1 /\ bindings' = bindings
  \/ Bind /\ bindings < MaxBindings /\ bindings' = bindings + 1 /\ requests' = requests
MCSpec == MCInit /\ [][MCNext]_<<vars, requests, bindings>> /\ Fairness
=============================================================================
