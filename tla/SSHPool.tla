------------------------------ MODULE SSHPool ------------------------------
(***************************************************************************)
(* The pool of ssh connections of ssh_toolkit/pool.go and the calls that   *)
(* use it: ExecCommandOverSSH (command.go) and NetConnOverSSH              *)
(* (net_conn.go). The pool is a map under one RWMutex; each entry has an   *)
(* RWMutex of its own, held while its connection is being dialled. What    *)
(* goroutines do between two lock operations or two answers of the host is *)
(* one step. The host and the network are modelled from their answers.     *)
(***************************************************************************)
EXTENDS Naturals, FiniteSets

CONSTANTS
  Hosts,       (* keys of the pool                                         *)
  Callers,     (* goroutines that run commands                             *)
  Entries,     (* *sshClient records; their number bounds the model        *)
  NoHost, NoEntry, Nobody

ASSUME NoHostAssumption == NoHost \notin Hosts
ASSUME NoEntryAssumption == NoEntry \notin Entries
ASSUME NobodyAssumption == Nobody \notin Callers

VARIABLES
  pool,        (* sshClientPool.clients                                    *)
  poolLock,    (* who holds sshClientPool.mutex for writing across steps   *)
  connection,  (* per entry, its client: "nil", "open", "closed" (here),   *)
               (* "dead" or "reset" (the host or the network ended it; the *)
               (* error of "reset" is not one that recreates a client)     *)
  entryLock,   (* per entry, who holds its mutex for writing               *)
  call,        (* per goroutine, the call it is in                         *)
  superseded   (* observation: entries that another goroutine's new entry  *)
               (* took the place of                                        *)

vars == <<pool, poolLock, connection, entryLock, call, superseded>>

NoCall == [pc |-> "idle", host |-> NoHost, entry |-> NoEntry, left |-> 0]
(* left: at "look" and "read" how many of the two look-ups are to be done,  *)
(* at "delete" and "close" how many of the calls of DeleteSSHClient.        *)
Calls  == {NoCall} \cup [pc : {"look", "read", "create", "dial", "client", "run", "delete", "close"},
                         host : Hosts, entry : Entries \cup {NoEntry}, left : 0..2]

PoolIsFree     == poolLock = Nobody
EntryIsFree(e) == entryLock[e] = Nobody

(* A record that nothing refers to, or a leaked one, which the model then   *)
(* forgets.                                                                 *)
Unused(e) == /\ \A h \in Hosts : pool[h] # e
             /\ \A c \in Callers : call[c].entry # e
             /\ connection[e] = "open" => e \in superseded

Goto(c, pc)  == call' = [call EXCEPT ![c].pc = pc]
Return(c)    == call' = [call EXCEPT ![c] = NoCall]
Deletes(c, n) == call' = [call EXCEPT ![c].pc = "delete", ![c].left = n, ![c].entry = NoEntry]

Init ==
  /\ pool = [h \in Hosts |-> NoEntry]
  /\ poolLock = Nobody
  /\ connection = [e \in Entries |-> "nil"]
  /\ entryLock = [e \in Entries |-> Nobody]
  /\ call = [c \in Callers |-> NoCall]
  /\ superseded = {}

-----------------------------------------------------------------------------
(* getSSHClient and newSSHClient *)

Begin(c, h) ==
  /\ call[c] = NoCall
  /\ call' = [call EXCEPT ![c] = [pc |-> "look", host |-> h, entry |-> NoEntry, left |-> 2]]
  /\ UNCHANGED <<pool, poolLock, connection, entryLock, superseded>>

(* Defect: a caller waits for another one to make the client.                *)
NoClientWaits(c) ==
  call' = [call EXCEPT ![c].pc = "look", ![c].entry = NoEntry]

(* No client: newSSHClient looks again, and then makes an entry.             *)
NoClient(c) ==
  call' = [call EXCEPT ![c] = [pc |-> IF @.left > 1 THEN "look" ELSE "create",
                               host |-> @.host, entry |-> NoEntry, left |-> @.left - 1]]

(* The look-up in the map, under the pool's read lock.                       *)
LookUp(c) ==
  /\ call[c].pc = "look"
  /\ PoolIsFree
  /\ IF pool[call[c].host] = NoEntry
     THEN NoClient(c)
     ELSE call' = [call EXCEPT ![c].pc = "read", ![c].entry = pool[call[c].host]]
  /\ UNCHANGED <<pool, poolLock, connection, entryLock, superseded>>

(* The client of the entry, under the entry's read lock.                     *)
ReadEntry(c) ==
  /\ call[c].pc = "read"
  /\ EntryIsFree(call[c].entry)
  /\ IF connection[call[c].entry] = "nil" THEN NoClient(c) ELSE Goto(c, "client")
  /\ UNCHANGED <<pool, poolLock, connection, entryLock, superseded>>

(* A new entry, whatever the map holds by now; its lock is kept for the dial.*)
CreateEntry(c) ==
  /\ call[c].pc = "create"
  /\ PoolIsFree
  /\ \E e \in Entries :
       /\ Unused(e)
       /\ superseded' = (superseded \ {e}) \cup ({pool[call[c].host]} \ {NoEntry})
       /\ pool' = [pool EXCEPT ![call[c].host] = e]
       /\ connection' = [connection EXCEPT ![e] = "nil"]
       /\ entryLock' = [entryLock EXCEPT ![e] = c]
       /\ call' = [call EXCEPT ![c].pc = "dial", ![c].entry = e]
  /\ UNCHANGED poolLock

DialSucceeds(c) ==
  /\ call[c].pc = "dial"
  /\ connection' = [connection EXCEPT ![call[c].entry] = "open"]
  /\ entryLock' = [entryLock EXCEPT ![call[c].entry] = Nobody]
  /\ Goto(c, "client")
  /\ UNCHANGED <<pool, poolLock, superseded>>

(* Defect: the entry is deleted with its lock held.                          *)
DialFailsLocked(c) ==
  /\ call[c].pc = "dial"
  /\ Deletes(c, 1)
  /\ UNCHANGED <<pool, poolLock, connection, entryLock, superseded>>

(* The entry of the host is deleted, whoever made it, and again by the       *)
(* caller when the error is one of a lost connection; one of the private key *)
(* is not.                                                                   *)
DialFails(c) ==
  /\ call[c].pc = "dial"
  /\ entryLock' = [entryLock EXCEPT ![call[c].entry] = Nobody]
  /\ \E n \in 1..2 : Deletes(c, n)
  /\ UNCHANGED <<pool, poolLock, connection, superseded>>

-----------------------------------------------------------------------------
(* ExecCommandOverSSH and NetConnOverSSH, with the client they got *)

IsOpen(c) == connection[call[c].entry] = "open"

(* Defect: a lost connection never deletes the client.                              *)
LostConnectionKept(c) ==
  /\ connection[call[c].entry] # "reset"
  /\ Return(c)

(* An error that is one of errorsWhenSSHClientNeedToBeRecreated.             *)
LostConnection(c) ==
  /\ connection[call[c].entry] # "reset"
  /\ Deletes(c, 1)

(* Any other error.                                                          *)
OtherError(c) ==
  /\ connection[call[c].entry] \in {"open", "reset"}
  /\ Return(c)

(* A session on the client, or a timeout.                                    *)
OpenSession(c) ==
  /\ call[c].pc = "client"
  /\ \/ IsOpen(c) /\ Goto(c, "run")
     \/ LostConnection(c)
     \/ OtherError(c)
  /\ UNCHANGED <<pool, poolLock, connection, entryLock, superseded>>

(* A connection through the client: it is returned, or its error.            *)
DialThrough(c) ==
  /\ call[c].pc = "client"
  /\ \/ IsOpen(c) /\ Return(c)
     \/ LostConnection(c)
     \/ OtherError(c)
  /\ UNCHANGED <<pool, poolLock, connection, entryLock, superseded>>

(* The command ends, and nothing, its error, what it wrote to stderr, or     *)
(* both look like a lost connection.                                         *)
Run(c) ==
  /\ call[c].pc = "run"
  /\ \/ Return(c)
     \/ \E n \in 1..2 : Deletes(c, n)
  /\ UNCHANGED <<pool, poolLock, connection, entryLock, superseded>>

-----------------------------------------------------------------------------
(* DeleteSSHClient *)

Deleted(c) == IF call[c].left > 1
              THEN [call EXCEPT ![c].pc = "delete", ![c].left = 1]
              ELSE [call EXCEPT ![c] = NoCall]

(* Defect: the entry's lock is not waited for.                               *)
DeleteWithoutEntryLock(c) ==
  /\ call[c].pc = "delete"
  /\ PoolIsFree
  /\ pool' = [pool EXCEPT ![call[c].host] = NoEntry]
  /\ connection' = [e \in Entries |-> IF e = pool[call[c].host] /\ connection[e] # "nil"
                                      THEN "closed" ELSE connection[e]]
  /\ call' = Deleted(c)
  /\ UNCHANGED <<poolLock, entryLock, superseded>>

(* The pool's lock is taken; with no entry there is nothing else to do.      *)
DeleteSSHClient(c) ==
  /\ call[c].pc = "delete"
  /\ PoolIsFree
  /\ IF pool[call[c].host] = NoEntry
     THEN call' = Deleted(c) /\ UNCHANGED poolLock
     ELSE Goto(c, "close") /\ poolLock' = c
  /\ UNCHANGED <<pool, connection, entryLock, superseded>>

(* With the pool's lock held the entry's lock is waited for: for as long as  *)
(* the entry is being dialled no call to any host gets further.              *)
CloseEntry(c) ==
  LET e == pool[call[c].host]
  IN  /\ call[c].pc = "close"
      /\ EntryIsFree(e)
      /\ connection' = [connection EXCEPT ![e] = IF @ = "nil" THEN @ ELSE "closed"]
      /\ pool' = [pool EXCEPT ![call[c].host] = NoEntry]
      /\ poolLock' = Nobody
      /\ call' = Deleted(c)
      /\ UNCHANGED <<entryLock, superseded>>

(* The host restarts, or the network is cut.                                 *)
ConnectionDies(e) ==
  /\ connection[e] = "open"
  /\ \E how \in {"dead", "reset"} : connection' = [connection EXCEPT ![e] = how]
  /\ UNCHANGED <<pool, poolLock, entryLock, call, superseded>>

Step(c) == \/ LookUp(c) \/ ReadEntry(c) \/ CreateEntry(c) \/ DialSucceeds(c) \/ DialFails(c)
           \/ OpenSession(c) \/ DialThrough(c) \/ Run(c) \/ DeleteSSHClient(c) \/ CloseEntry(c)

Next == \/ \E c \in Callers : Step(c) \/ \E h \in Hosts : Begin(c, h)
        \/ \E e \in Entries : ConnectionDies(e)

Spec == Init /\ [][Next]_vars

(* Locks are granted in the end, a dial and a session time out, and commands *)
(* end. The monitor of the servers tries every host again and again.         *)
Fairness ==
  /\ \A c \in Callers : SF_vars(Step(c))
  /\ \A h \in Hosts : SF_vars(\E c \in Callers : Begin(c, h))

FairSpec == Spec /\ Fairness

-----------------------------------------------------------------------------

(* A lock is held over several steps only for a dial, by the one who dials,  *)
(* and by a deletion that waits for an entry.                                *)
LockHolders ==
  /\ \A c \in Callers, e \in Entries :
       entryLock[e] = c <=> call[c].pc = "dial" /\ call[c].entry = e
  /\ \A c \in Callers : poolLock = c <=> call[c].pc = "close"

(* Every variable has its shape, the locks of pool.go their holders, and an  *)
(* entry is in the pool under one host.                                      *)
TypeOK ==
  /\ pool \in [Hosts -> Entries \cup {NoEntry}]
  /\ poolLock \in Callers \cup {Nobody}
  /\ connection \in [Entries -> {"nil", "open", "dead", "reset", "closed"}]
  /\ entryLock \in [Entries -> Callers \cup {Nobody}]
  /\ call \in [Callers -> Calls]
  /\ superseded \subseteq Entries
  /\ \A g, h \in Hosts : g # h /\ pool[g] = pool[h] => pool[g] = NoEntry
  /\ LockHolders

(* No leak: an open connection can be found in the pool, and so will be      *)
(* closed when it fails. DeleteSSHClient has to wait for a dial in progress  *)
(* for that. Only a connection that lost its place to the entry of another   *)
(* goroutine stays open for ever.                                            *)
OpenIsPooled ==
  \A e \in Entries \ superseded :
    connection[e] = "open" => \E h \in Hosts : pool[h] = e

(* No deadlock: every call returns, though DeleteSSHClient holds the pool's  *)
(* lock while it waits for an entry's.                                       *)
CallReturns == \A c \in Callers : call[c].pc # "idle" ~> call[c].pc = "idle"

(* A connection that died does not stay in the pool: the next error deletes  *)
(* it, and a later call dials again. A "reset" one stays, and every call to  *)
(* its host fails, until a command's own error happens to delete it.         *)
DeadIsReplaced ==
  \A h \in Hosts, e \in Entries :
    (pool[h] = e /\ connection[e] = "dead") ~> ~(pool[h] = e /\ connection[e] = "dead")
=============================================================================
