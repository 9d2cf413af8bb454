----------------------------- MODULE TaskQueue -----------------------------
(***************************************************************************)
(* What a task queue promises to those who enqueue (the Client interface   *)
(* of task_queue/types.go): a task that was accepted stays where it will   *)
(* be found again until its function has succeeded or an operator purges   *)
(* it. A crash, a failed execution and a consumer that goes away take      *)
(* nothing. The promise is void for a task that met one of the windows of  *)
(* the implementation, which each implementation has to name.              *)
(***************************************************************************)
CONSTANT Items      (* a queue and a task body                             *)

VARIABLES
  kept,      (* will be found again, whatever happens to the processes     *)
  owed,      (* accepted, neither finished nor purged since                *)
  waived     (* met a window: nothing is promised any more                 *)

vars == <<kept, owed, waived>>

Init == kept = {} /\ owed = {} /\ waived = {}

(* Items are stored, or stored again after they were finished; some meet a *)
(* window, and only such an item may get lost.                             *)
Store(I) ==
  /\ waived' = waived \cup I
  /\ kept' \subseteq Items /\ kept \ kept' \subseteq waived'
  /\ UNCHANGED owed

(* EnqueueTask returns nil: only for an item that is stored, or was met by *)
(* a window between its storing and the return.                            *)
Accept(i) ==
  /\ i \in kept' \cup waived
  /\ kept' \in {kept, kept \cup {i}}
  /\ owed' = owed \cup {i}
  /\ UNCHANGED waived

(* Some items are done with; what is stored of them may go. Another copy   *)
(* of them that is on its way may meet a window.                           *)
Finish(I) ==
  /\ owed' = owed \ I
  /\ waived \subseteq waived' /\ waived' \subseteq waived \cup I
  /\ kept' \subseteq kept /\ kept \ kept' \subseteq I

Next == \/ \E i \in Items : Accept(i)
        \/ \E I \in SUBSET Items : Store(I) \/ Finish(I)

Spec == Init /\ [][Next]_vars

(* What the actions add up to. *)
Promise == owed \ waived \subseteq kept
=============================================================================
