-------------------------- MODULE MCConsoleSession --------------------------
(* ConsoleSession with one session at a time: requests share no more than    *)
(* their token, so that the goroutines of two sessions need no interleaving. *)
EXTENDS ConsoleSession

Busy(r) == \/ pc[r] \in {"dialled", "shell", "upgrade", "serving"}
           \/ closer[r] = "waits" /\ pc[r] # "notUpgraded"
           \/ \E g \in Threads : thread[r][g] \in {"select", "read", "write"}

MCNext == ConsoleNext /\ \A r, s \in Requests : Busy(r)' /\ Busy(s)' => r = s
MCSpec == ConsoleInit /\ [][MCNext]_consoleVars /\ ConsoleFairness
=============================================================================
