----------------------------- MODULE SSHProofs -----------------------------
(***************************************************************************)
(* The ssh connections. First TypeOK and OpenIsPooled of SSHPool for any   *)
(* number of hosts, callers and entries. Neither is inductive alone: a     *)
(* dial that succeeds opens the connection of an entry, which has to be in *)
(* the pool still or to have been superseded (Dialling), and it is there   *)
(* because whoever deletes an entry waits for its lock. Then the sessions  *)
(* of the console, which dial their own connections (ConsoleSession).      *)
(***************************************************************************)
EXTENDS SSHPool, ConsoleSession, TLAPS

(* What a call refers to at each of its points. *)
Referring ==
  \A c \in Callers :
    /\ call[c].pc \in {"read", "dial", "client", "run"} => call[c].entry \in Entries
    /\ call[c].pc # "idle" => call[c].host \in Hosts
    /\ call[c].pc = "close" => pool[call[c].host] \in Entries
    /\ call[c].pc \in {"look", "read"} => call[c].left \in 1..2

(* An entry that is dialled is in the pool, or was superseded. *)
Dialling ==
  \A c \in Callers :
    call[c].pc = "dial" => call[c].entry \in superseded \cup {pool[call[c].host]}

IInv == TypeOK /\ Referring /\ Dialling /\ OpenIsPooled

(* The initial states satisfy the inductive invariant. *)
LEMMA InitIInv == Init => IInv
  BY NoHostAssumption, NoEntryAssumption, NobodyAssumption
  DEF Init, IInv, TypeOK, LockHolders, Referring, Dialling, OpenIsPooled, NoCall, Calls

(* A step that changes only where one call is, and neither begins nor ends a *)
(* dial or a deletion.                                                       *)
LEMMA CallStep ==
  ASSUME IInv, NEW c \in Callers, NEW k \in Calls,
         call' = [call EXCEPT ![c] = k],
         UNCHANGED <<pool, poolLock, connection, entryLock, superseded>>,
         call[c].pc \notin {"dial", "close"}, k.pc \notin {"dial", "close"},
         k.pc \in {"read", "client", "run"} => k.entry \in Entries,
         k.pc # "idle" => k.host \in Hosts,
         k.pc \in {"look", "read"} => k.left \in 1..2
  PROVE  IInv'
  BY DEF IInv, TypeOK, LockHolders, Referring, Dialling, OpenIsPooled

(* What a call may become is a call. *)
LEMMA CallShapes ==
  ASSUME TypeOK, Referring, NEW c \in Callers, call[c].pc # "idle"
  PROVE  /\ call[c] \in [pc : {"look", "read", "create", "dial", "client", "run", "delete", "close"},
                         host : Hosts, entry : Entries \cup {NoEntry}, left : 0..2]
         /\ call[c].left \in 0..2 /\ call[c].host \in Hosts
  BY DEF TypeOK, Referring, Calls, NoCall

(* The look-ups change only the call. *)
LEMMA NoClientStep ==
  ASSUME IInv, NEW c \in Callers, call[c].pc \in {"look", "read"}, NoClient(c),
         UNCHANGED <<pool, poolLock, connection, entryLock, superseded>>
  PROVE  IInv'
<1> DEFINE k == [pc |-> IF call[c].left > 1 THEN "look" ELSE "create",
                 host |-> call[c].host, entry |-> NoEntry, left |-> call[c].left - 1]
<1>1. call[c].left \in 1..2 /\ call[c].host \in Hosts
  BY DEF IInv, Referring
<1>2. call[c].left - 1 \in 0..1 /\ (call[c].left > 1 => call[c].left - 1 = 1)
  BY <1>1
<1>3. k \in Calls /\ k.pc \in {"look", "create"} /\ k.host \in Hosts
      /\ (k.pc = "look" => k.left \in 1..2)
  BY <1>1, <1>2 DEF Calls
<1>4. call' = [call EXCEPT ![c] = k]
  BY DEF NoClient, IInv, TypeOK
<1> HIDE DEF k
<1> QED
  BY <1>3, <1>4, CallStep

(* So do the ways out of a call, and its way to DeleteSSHClient. *)
LEMMA ReturnStep ==
  ASSUME IInv, NEW c \in Callers, call[c].pc \notin {"dial", "close"}, Return(c),
         UNCHANGED <<pool, poolLock, connection, entryLock, superseded>>
  PROVE  IInv'
<1>1. NoCall \in Calls /\ NoCall.pc = "idle"
  BY DEF NoCall, Calls
<1> QED
  BY <1>1, CallStep DEF Return

LEMMA DeletesStep ==
  ASSUME IInv, NEW c \in Callers, call[c].pc \notin {"idle", "dial", "close"},
         NEW n \in 1..2, Deletes(c, n),
         UNCHANGED <<pool, poolLock, connection, entryLock, superseded>>
  PROVE  IInv'
<1> DEFINE k == [call[c] EXCEPT !.pc = "delete", !.left = n, !.entry = NoEntry]
<1>1. call[c] \in [pc : {"look", "read", "create", "dial", "client", "run", "delete", "close"},
                   host : Hosts, entry : Entries \cup {NoEntry}, left : 0..2]
  BY CallShapes DEF IInv
<1>2. n \in 0..2
  OBVIOUS
<1>3. k \in Calls /\ k.pc = "delete" /\ k.host \in Hosts
  BY <1>1, <1>2 DEF Calls
<1>4. call' = [call EXCEPT ![c] = k]
  BY DEF Deletes, IInv, TypeOK
<1> HIDE DEF k
<1> QED
  BY <1>3, <1>4, CallStep

LEMMA GotoStep ==
  ASSUME IInv, NEW c \in Callers, call[c].pc \in {"read", "client"},
         NEW to \in {"client", "run"}, Goto(c, to),
         UNCHANGED <<pool, poolLock, connection, entryLock, superseded>>
  PROVE  IInv'
<1> DEFINE k == [call[c] EXCEPT !.pc = to]
<1>1. call[c] \in [pc : {"look", "read", "create", "dial", "client", "run", "delete", "close"},
                   host : Hosts, entry : Entries \cup {NoEntry}, left : 0..2]
  BY CallShapes DEF IInv
<1>2. k \in Calls /\ k.pc = to /\ k.host \in Hosts /\ k.entry \in Entries
  BY <1>1 DEF Calls, IInv, Referring
<1>3. call' = [call EXCEPT ![c] = k]
  BY DEF Goto, IInv, TypeOK
<1> HIDE DEF k
<1> QED
  BY <1>2, <1>3, CallStep

(* What a new entry takes the place of is superseded. *)
LEMMA CreateStep ==
  ASSUME IInv, NEW c \in Callers, CreateEntry(c)
  PROVE  IInv'
<1>1. PICK e \in Entries :
        /\ Unused(e)
        /\ superseded' = (superseded \ {e}) \cup ({pool[call[c].host]} \ {NoEntry})
        /\ pool' = [pool EXCEPT ![call[c].host] = e]
        /\ connection' = [connection EXCEPT ![e] = "nil"]
        /\ entryLock' = [entryLock EXCEPT ![e] = c]
        /\ call' = [call EXCEPT ![c].pc = "dial", ![c].entry = e]
  BY DEF CreateEntry
<1> DEFINE h == call[c].host
           k == [call[c] EXCEPT !.pc = "dial", !.entry = e]
<1>2. call[c].pc = "create" /\ poolLock = Nobody /\ UNCHANGED poolLock
  BY DEF CreateEntry, PoolIsFree
<1>3. h \in Hosts
  BY <1>2 DEF IInv, Referring
<1>4. k \in Calls /\ k.pc = "dial" /\ k.entry = e /\ k.host = h
  BY <1>2, CallShapes DEF IInv, Calls
<1>5. call' = [call EXCEPT ![c] = k]
  BY <1>1 DEF IInv, TypeOK
<1> HIDE DEF k, h
<1>6. pool' = [pool EXCEPT ![h] = e] /\ superseded' = (superseded \ {e}) \cup ({pool[h]} \ {NoEntry})
  BY <1>1 DEF h
<1>7. entryLock[e] = Nobody
  BY <1>1, NobodyAssumption DEF Unused, IInv, TypeOK, LockHolders
<1>8. TypeOK'
  <2>1. LockHolders'
    BY <1>1, <1>2, <1>4, <1>5, <1>7, NobodyAssumption DEF LockHolders, IInv, TypeOK
  <2>2. \A g, i \in Hosts : g # i /\ pool'[g] = pool'[i] => pool'[g] = NoEntry
    BY <1>1, <1>3, <1>6 DEF IInv, TypeOK, Unused
  <2>3. pool' \in [Hosts -> Entries \cup {NoEntry}] /\ superseded' \subseteq Entries
    BY <1>3, <1>6 DEF IInv, TypeOK
  <2>4. connection' \in [Entries -> {"nil", "open", "dead", "reset", "closed"}]
    BY <1>1 DEF IInv, TypeOK
  <2>5. entryLock' \in [Entries -> Callers \cup {Nobody}]
    BY <1>1 DEF IInv, TypeOK
  <2>6. call' \in [Callers -> Calls] /\ poolLock' \in Callers \cup {Nobody}
    BY <1>2, <1>4, <1>5 DEF IInv, TypeOK
  <2> QED
    BY <2>1, <2>2, <2>3, <2>4, <2>5, <2>6 DEF TypeOK
<1>9. Referring'
  BY <1>1, <1>2, <1>3, <1>4, <1>5, <1>6, NobodyAssumption DEF Referring, IInv, TypeOK, LockHolders
<1>10. Dialling'
  BY <1>1, <1>3, <1>4, <1>5, <1>6, NoEntryAssumption
  DEF Dialling, IInv, TypeOK, Unused, Referring
<1>11. OpenIsPooled'
  BY <1>1, <1>3, <1>6, NoEntryAssumption DEF OpenIsPooled, IInv, TypeOK, Unused
<1> QED
  BY <1>8, <1>9, <1>10, <1>11 DEF IInv

LEMMA DialSucceedsStep ==
  ASSUME IInv, NEW c \in Callers, DialSucceeds(c)
  PROVE  IInv'
<1> DEFINE e == call[c].entry
           k == [call[c] EXCEPT !.pc = "client"]
<1>1. call[c].pc = "dial" /\ e \in Entries /\ call[c].host \in Hosts
  BY DEF DialSucceeds, IInv, Referring
<1>2. k \in Calls /\ k.pc = "client" /\ k.entry = e /\ k.host = call[c].host
  BY <1>1, CallShapes DEF IInv, Calls
<1>3. call' = [call EXCEPT ![c] = k]
  BY DEF DialSucceeds, Goto, IInv, TypeOK
<1>4. /\ connection' = [connection EXCEPT ![e] = "open"]
      /\ entryLock' = [entryLock EXCEPT ![e] = Nobody]
      /\ UNCHANGED <<pool, poolLock, superseded>>
  BY DEF DialSucceeds
<1>5. entryLock[e] = c /\ e \in superseded \cup {pool[call[c].host]}
  BY <1>1 DEF IInv, TypeOK, LockHolders, Dialling
<1> HIDE DEF k, e
<1>6. TypeOK'
  <2>1. \A d \in Callers, f \in Entries :
          entryLock'[f] = d <=> call'[d].pc = "dial" /\ call'[d].entry = f
    <3> TAKE d \in Callers, f \in Entries
    <3>1. CASE d = c
      BY <1>1, <1>2, <1>3, <1>4, <1>5, <3>1, NobodyAssumption DEF LockHolders, IInv, TypeOK, e
    <3>2. CASE d # c
      BY <1>1, <1>2, <1>3, <1>4, <1>5, <3>2, NobodyAssumption DEF LockHolders, IInv, TypeOK, e
    <3> QED
      BY <3>1, <3>2
  <2>2. \A d \in Callers : poolLock' = d <=> call'[d].pc = "close"
    BY <1>1, <1>2, <1>3, <1>4 DEF LockHolders, IInv, TypeOK
  <2> QED
    BY <1>1, <1>2, <1>3, <1>4, <2>1, <2>2 DEF IInv, TypeOK, LockHolders
<1>7. Referring' /\ Dialling'
  BY <1>1, <1>2, <1>3, <1>4 DEF Referring, Dialling, IInv, TypeOK
<1>8. OpenIsPooled'
  BY <1>1, <1>4, <1>5 DEF OpenIsPooled, IInv, TypeOK
<1> QED
  BY <1>6, <1>7, <1>8 DEF IInv

LEMMA DialFailsStep ==
  ASSUME IInv, NEW c \in Callers, DialFails(c)
  PROVE  IInv'
<1>1. PICK n \in 1..2 : Deletes(c, n)
  BY DEF DialFails
<1> DEFINE e == call[c].entry
           k == [call[c] EXCEPT !.pc = "delete", !.left = n, !.entry = NoEntry]
<1>2. call[c].pc = "dial" /\ e \in Entries /\ call[c].host \in Hosts
  BY DEF DialFails, IInv, Referring
<1>3. n \in 0..2
  OBVIOUS
<1>4. k \in Calls /\ k.pc = "delete" /\ k.entry = NoEntry /\ k.host \in Hosts
  BY <1>2, <1>3, CallShapes DEF IInv, Calls
<1>5. call' = [call EXCEPT ![c] = k]
  BY <1>1 DEF Deletes, IInv, TypeOK
<1>6. /\ entryLock' = [entryLock EXCEPT ![e] = Nobody]
      /\ UNCHANGED <<pool, poolLock, connection, superseded>>
  BY DEF DialFails
<1>7. entryLock[e] = c
  BY <1>2 DEF IInv, TypeOK, LockHolders
<1> HIDE DEF k
<1>8. \A d \in Callers, f \in Entries :
        entryLock'[f] = d <=> call'[d].pc = "dial" /\ call'[d].entry = f
  <2> TAKE d \in Callers, f \in Entries
  <2>1. CASE d = c
    BY <1>2, <1>4, <1>5, <1>6, <1>7, <2>1, NobodyAssumption DEF LockHolders, IInv, TypeOK
  <2>2. CASE d # c
    BY <1>2, <1>4, <1>5, <1>6, <1>7, <2>2, NobodyAssumption DEF LockHolders, IInv, TypeOK
  <2> QED
    BY <2>1, <2>2
<1>9. TypeOK'
  BY <1>2, <1>4, <1>5, <1>6, <1>8 DEF IInv, TypeOK, LockHolders
<1>10. Referring' /\ Dialling' /\ OpenIsPooled'
  BY <1>2, <1>4, <1>5, <1>6 DEF Referring, Dialling, OpenIsPooled, IInv, TypeOK
<1> QED
  BY <1>9, <1>10 DEF IInv

(* What a call becomes at the end of DeleteSSHClient. *)
LEMMA DeletedShape ==
  ASSUME IInv, NEW c \in Callers, call[c].pc \in {"delete", "close"}
  PROVE  \E k \in Calls : /\ Deleted(c) = [call EXCEPT ![c] = k]
                          /\ k.pc \in {"delete", "idle"}
                          /\ k.pc # "idle" => k.host \in Hosts
<1>1. CASE call[c].left > 1
  <2> DEFINE k == [call[c] EXCEPT !.pc = "delete", !.left = 1]
  <2>1. k \in Calls /\ k.pc = "delete" /\ k.host \in Hosts
    <3>1. 1 \in 0..2
      OBVIOUS
    <3>2. call[c] \in [pc : {"look", "read", "create", "dial", "client", "run", "delete", "close"},
                       host : Hosts, entry : Entries \cup {NoEntry}, left : 0..2]
      BY CallShapes DEF IInv
    <3>3. k \in [pc : {"look", "read", "create", "dial", "client", "run", "delete", "close"},
                 host : Hosts, entry : Entries \cup {NoEntry}, left : 0..2]
      BY <3>1, <3>2
    <3> QED
      BY <3>2, <3>3 DEF Calls
  <2>2. Deleted(c) = [call EXCEPT ![c] = k]
    BY <1>1 DEF Deleted, IInv, TypeOK
  <2> HIDE DEF k
  <2> QED
    BY <2>1, <2>2
<1>2. CASE ~(call[c].left > 1)
  <2>1. NoCall \in Calls /\ NoCall.pc = "idle"
    BY DEF NoCall, Calls
  <2> QED
    BY <1>2, <2>1 DEF Deleted
<1> QED
  BY <1>1, <1>2

LEMMA DeleteStep ==
  ASSUME IInv, NEW c \in Callers, DeleteSSHClient(c)
  PROVE  IInv'
<1>1. call[c].pc = "delete" /\ poolLock = Nobody /\ call[c].host \in Hosts
      /\ UNCHANGED <<pool, connection, entryLock, superseded>>
  BY DEF DeleteSSHClient, PoolIsFree, IInv, Referring
<1>2. CASE pool[call[c].host] = NoEntry
  <2>1. PICK k \in Calls : /\ Deleted(c) = [call EXCEPT ![c] = k]
                           /\ k.pc \in {"delete", "idle"}
                           /\ k.pc # "idle" => k.host \in Hosts
    BY <1>1, DeletedShape
  <2> QED
    BY <1>1, <1>2, <2>1, CallStep DEF DeleteSSHClient
<1>3. CASE pool[call[c].host] # NoEntry
  <2> DEFINE k == [call[c] EXCEPT !.pc = "close"]
  <2>1. k \in Calls /\ k.pc = "close" /\ k.host = call[c].host
    BY <1>1, CallShapes DEF IInv, Calls
  <2>2. call' = [call EXCEPT ![c] = k] /\ poolLock' = c
    BY <1>3 DEF DeleteSSHClient, Goto, IInv, TypeOK
  <2> HIDE DEF k
  <2>3. TypeOK'
    BY <1>1, <2>1, <2>2, NobodyAssumption DEF IInv, TypeOK, LockHolders
  <2>4. Referring' /\ Dialling' /\ OpenIsPooled'
    BY <1>1, <1>3, <2>1, <2>2 DEF Referring, Dialling, OpenIsPooled, IInv, TypeOK
  <2> QED
    BY <2>3, <2>4 DEF IInv
<1> QED
  BY <1>2, <1>3

(* The entry is not being dialled: its lock is free. *)
LEMMA CloseStep ==
  ASSUME IInv, NEW c \in Callers, CloseEntry(c)
  PROVE  IInv'
<1> DEFINE h == call[c].host
           e == pool[h]
<1>1. /\ call[c].pc = "close" /\ h \in Hosts /\ e \in Entries
      /\ entryLock[e] = Nobody /\ poolLock = c
  BY DEF CloseEntry, EntryIsFree, IInv, Referring, TypeOK, LockHolders
<1>2. PICK k \in Calls : /\ Deleted(c) = [call EXCEPT ![c] = k]
                         /\ k.pc \in {"delete", "idle"}
                         /\ k.pc # "idle" => k.host \in Hosts
  BY <1>1, DeletedShape
<1>3. call' = [call EXCEPT ![c] = k]
  BY <1>2 DEF CloseEntry
<1>4. /\ connection' = [connection EXCEPT ![e] = IF @ = "nil" THEN @ ELSE "closed"]
      /\ pool' = [pool EXCEPT ![h] = NoEntry]
      /\ poolLock' = Nobody
      /\ UNCHANGED <<entryLock, superseded>>
  BY DEF CloseEntry
<1> HIDE DEF e, h
<1>5. connection' \in [Entries -> {"nil", "open", "dead", "reset", "closed"}]
      /\ connection'[e] # "open"
  BY <1>1, <1>4 DEF IInv, TypeOK
<1>6. LockHolders'
  BY <1>1, <1>2, <1>3, <1>4, NobodyAssumption DEF IInv, TypeOK, LockHolders
<1>7. TypeOK'
  BY <1>1, <1>2, <1>3, <1>4, <1>5, <1>6 DEF IInv, TypeOK
<1>8. Referring'
  BY <1>1, <1>2, <1>3, <1>4 DEF IInv, TypeOK, LockHolders, Referring
<1>9. Dialling'
  BY <1>1, <1>2, <1>3, <1>4, NobodyAssumption
  DEF IInv, TypeOK, LockHolders, Referring, Dialling, e, h
<1>10. OpenIsPooled'
  BY <1>1, <1>4, <1>5 DEF IInv, TypeOK, OpenIsPooled, e
<1> QED
  BY <1>7, <1>8, <1>9, <1>10 DEF IInv

(* Every step of the pool keeps the inductive invariant. *)
LEMMA StepIInv == IInv /\ [Next]_vars => IInv'
<1> SUFFICES ASSUME IInv, [Next]_vars PROVE IInv'
  OBVIOUS
<1>1. ASSUME NEW c \in Callers, NEW h \in Hosts, Begin(c, h) PROVE IInv'
  <2> DEFINE k == [pc |-> "look", host |-> h, entry |-> NoEntry, left |-> 2]
  <2>1. k \in Calls
    BY DEF Calls
  <2>2. call[c].pc = "idle" /\ call' = [call EXCEPT ![c] = k]
        /\ UNCHANGED <<pool, poolLock, connection, entryLock, superseded>>
    BY <1>1 DEF Begin, NoCall
  <2>3. k.pc = "look" /\ k.host \in Hosts /\ k.left \in 1..2
    OBVIOUS
  <2> HIDE DEF k
  <2> QED
    BY <2>1, <2>2, <2>3, CallStep
<1>2. ASSUME NEW e \in Entries, ConnectionDies(e) PROVE IInv'
  BY <1>2 DEF ConnectionDies, IInv, TypeOK, LockHolders, Referring, Dialling, OpenIsPooled
<1>3. ASSUME NEW c \in Callers, Step(c) PROVE IInv'
  <2>1. CASE LookUp(c)
    <3>1. CASE pool[call[c].host] = NoEntry
      BY <2>1, <3>1, NoClientStep DEF LookUp
    <3>2. CASE pool[call[c].host] # NoEntry
      <4> DEFINE k == [call[c] EXCEPT !.pc = "read", !.entry = pool[call[c].host]]
      <4>1. call[c].host \in Hosts /\ pool[call[c].host] \in Entries /\ call[c].left \in 1..2
        BY <2>1, <3>2 DEF LookUp, IInv, TypeOK, Referring
      <4>2. k \in Calls /\ k.pc = "read" /\ k.host \in Hosts /\ k.entry \in Entries
            /\ k.left \in 1..2
        BY <2>1, <4>1, CallShapes DEF LookUp, IInv, Calls
      <4>3. call' = [call EXCEPT ![c] = k]
        BY <2>1, <3>2 DEF LookUp, IInv, TypeOK
      <4> HIDE DEF k
      <4> QED
        BY <2>1, <4>2, <4>3, CallStep DEF LookUp
    <3> QED
      BY <3>1, <3>2
  <2>2. CASE ReadEntry(c)
    BY <2>2, NoClientStep, GotoStep DEF ReadEntry
  <2>3. CASE CreateEntry(c)
    BY <2>3, CreateStep
  <2>4. CASE DialSucceeds(c)
    BY <2>4, DialSucceedsStep
  <2>5. CASE DialFails(c)
    BY <2>5, DialFailsStep
  <2>6. CASE OpenSession(c)
    BY <2>6, ReturnStep, DeletesStep, GotoStep DEF OpenSession, LostConnection, OtherError
  <2>7. CASE DialThrough(c)
    BY <2>7, ReturnStep, DeletesStep DEF DialThrough, LostConnection, OtherError
  <2>8. CASE Run(c)
    BY <2>8, ReturnStep, DeletesStep DEF Run
  <2>9. CASE DeleteSSHClient(c)
    BY <2>9, DeleteStep
  <2>10. CASE CloseEntry(c)
    BY <2>10, CloseStep
  <2> QED
    BY <1>3, <2>1, <2>2, <2>3, <2>4, <2>5, <2>6, <2>7, <2>8, <2>9, <2>10 DEF Step
<1>4. CASE UNCHANGED vars
  BY <1>4 DEF vars, IInv, TypeOK, LockHolders, Referring, Dialling, OpenIsPooled
<1> QED
  BY <1>1, <1>2, <1>3, <1>4 DEF Next

(* TypeOK: the locks of pool.go are held by those who dial and delete.       *)
THEOREM TypeCorrect == Spec => []TypeOK
<1>1. IInv => TypeOK
  BY DEF IInv
<1> QED
  BY InitIInv, StepIInv, <1>1, PTL DEF Spec

(* OpenIsPooled: no connection of getSSHClient is lost outside the pool, but *)
(* for the entries that newSSHClient superseded.                             *)
THEOREM NoLeak == Spec => []OpenIsPooled
<1>1. IInv => OpenIsPooled
  BY DEF IInv
<1> QED
  BY InitIInv, StepIInv, <1>1, PTL DEF Spec

-----------------------------------------------------------------------------
(***************************************************************************)
(* The console, whose connections are outside the pool. ConsoleTypeOK and  *)
(* UsedTokenIsDead of ConsoleSession for any number of tokens and          *)
(* requests. A used token is dead because nothing makes a token valid      *)
(* again: what was used stays deleted (Spent), and only a token that is    *)
(* valid when it is read lets a request in.                                *)
(***************************************************************************)

(* A token that was used is deleted. *)
Spent == \A t \in used : token[t] = "deleted"

(* A request that was let in came with a token. *)
HasToken == \A r \in Requests : pc[r] \in {"admitted", "expired"} => holds[r] \in Tokens

(* No goroutine closes the connection before there is a session. *)
NoCloserYet ==
  \A r \in Requests :
    pc[r] \in {"idle", "admitted", "expired", "connect", "dialled"} => closer[r] = "none"

ConsoleIInv == ConsoleTypeOK /\ Spent /\ HasToken /\ NoCloserYet

(* The initial states satisfy the inductive invariant. *)
LEMMA InitConsoleIInv == ConsoleInit => ConsoleIInv
  BY DEF ConsoleInit, ConsoleIInv, ConsoleTypeOK, Spent, HasToken, NoCloserYet, Handlers, Points

(* A token is made, or expires. *)
LEMMA TokensIInv ==
  ASSUME ConsoleIInv, NEW t \in Tokens,
         (\E kind \in {"server", "application"} : GenerateToken(t, kind)) \/ Expire(t)
  PROVE  ConsoleIInv'
<1> USE DEF ConsoleIInv, ConsoleTypeOK, Spent, HasToken, NoCloserYet, Handlers, session, peers
<1>1. ASSUME NEW kind \in {"server", "application"}, GenerateToken(t, kind) PROVE ConsoleIInv'
  BY <1>1 DEF GenerateToken
<1>2. CASE Expire(t)
  BY <1>2 DEF Expire
<1> HIDE DEF ConsoleIInv
<1>3. QED
  BY <1>1, <1>2

(* A request reads a token. *)
LEMMA FindIInv ==
  ASSUME ConsoleIInv, NEW r \in Requests, NEW t \in Tokens, FindConsoleToken(r, t)
  PROVE  ConsoleIInv'
  BY DEF ConsoleIInv, ConsoleTypeOK, Spent, HasToken, NoCloserYet, Handlers, rows, session, peers,
     FindConsoleToken

(* The token is deleted, or stays because the statement fails. *)
LEMMA DeleteIInv ==
  ASSUME ConsoleIInv, NEW r \in Requests, DeleteToken(r)
  PROVE  ConsoleIInv'
<1> USE DEF ConsoleIInv, session, peers
<1>1. holds[r] \in Tokens
  BY DEF DeleteToken, HasToken
<1>2. /\ token' \in [Tokens -> {"none", "valid", "expired", "deleted"}]
      /\ used' \subseteq Tokens
      /\ pc' \in [Requests -> Handlers]
  BY <1>1 DEF DeleteToken, ConsoleTypeOK, Handlers
<1>3. ConsoleTypeOK'
  BY <1>2 DEF DeleteToken, ConsoleTypeOK
<1>4. Spent'
  BY <1>1 DEF DeleteToken, ConsoleTypeOK, Spent
<1>5. HasToken' /\ NoCloserYet'
  BY DEF DeleteToken, ConsoleTypeOK, HasToken, NoCloserYet
<1>6. QED
  BY <1>3, <1>4, <1>5

(* The ssh connection is opened and closed, and the websocket is. *)
LEMMA ConnectionIInv ==
  ASSUME ConsoleIInv, NEW r \in Requests,
         \/ ConnectFails(r) \/ Dial(r) \/ NewSessionFails(r) \/ NewSession(r) \/ ShellFails(r)
         \/ ServerShell(r) \/ ContainerShell(r) \/ CloseClient(r)
         \/ UpgradeFails(r) \/ Upgrade(r) \/ HandlerReturns(r)
  PROVE  ConsoleIInv'
<1> USE DEF ConsoleIInv, ConsoleTypeOK, Spent, HasToken, NoCloserYet, Handlers, rows, session, peers
<1>1. CASE ConnectFails(r)
  BY <1>1 DEF ConnectFails
<1>2. CASE Dial(r)
  BY <1>2 DEF Dial
<1>3. CASE NewSessionFails(r)
  BY <1>3 DEF NewSessionFails
<1>4. CASE NewSession(r)
  BY <1>4 DEF NewSession
<1>5. CASE ShellFails(r)
  BY <1>5 DEF ShellFails
<1>6. ASSUME NEW kind, ShellStarts(r, kind) PROVE ConsoleIInv'
  BY <1>6 DEF ShellStarts
<1>7. CASE CloseClient(r)
  BY <1>7 DEF CloseClient
<1>8. CASE UpgradeFails(r)
  BY <1>8 DEF UpgradeFails
<1>9. CASE Upgrade(r)
  BY <1>9 DEF Upgrade, Points
<1>10. CASE HandlerReturns(r)
  BY <1>10 DEF HandlerReturns
<1>11. QED
  BY <1>1, <1>2, <1>3, <1>4, <1>5, <1>6, <1>7, <1>8, <1>9, <1>10 DEF ServerShell, ContainerShell

(* A goroutine that copies moves on, and cancels the context or not. *)
LEMMA MovesIInv ==
  ASSUME ConsoleIInv, NEW r \in Requests, NEW g \in Threads, NEW to \in Points,
         Goes(r, g, to) \/ Ends(r, g, to)
  PROVE  ConsoleIInv'
<1> USE DEF ConsoleIInv, rows, peers
<1>1. /\ thread' \in [Requests -> [Threads -> Points]]
      /\ canceled' \in [Requests -> BOOLEAN]
  <2>1. /\ thread' = [thread EXCEPT ![r] = [thread[r] EXCEPT ![g] = to]]
        /\ canceled' = canceled \/ canceled' = [canceled EXCEPT ![r] = TRUE]
    BY DEF Goes, Ends, Moves
  <2>2. [thread[r] EXCEPT ![g] = to] \in [Threads -> Points]
    BY DEF ConsoleTypeOK
  <2>3. thread' \in [Requests -> [Threads -> Points]]
    BY <2>1, <2>2 DEF ConsoleTypeOK
  <2>4. canceled' \in [Requests -> BOOLEAN]
    BY <2>1, Zenon DEF ConsoleTypeOK
  <2>5. QED
    BY <2>3, <2>4
<1>2. ConsoleTypeOK'
  BY <1>1 DEF ConsoleTypeOK, Goes, Ends, Moves
<1>3. Spent' /\ HasToken' /\ NoCloserYet'
  BY DEF Spent, HasToken, NoCloserYet, Goes, Ends, Moves
<1>4. QED
  BY <1>2, <1>3

LEMMA CopiesIInv ==
  ASSUME ConsoleIInv, NEW r \in Requests, NEW g \in Threads,
         Copies(r, g) \/ ShellOutput(r, g) \/ BrowserInput(r)
  PROVE  ConsoleIInv'
<1>1. \A to \in Points, h \in Threads : Goes(r, h, to) \/ Ends(r, h, to) => ConsoleIInv'
  BY MovesIInv
<1>2. /\ "stdout" \in Threads /\ "stderr" \in Threads /\ "stdin" \in Threads
      /\ {"select", "read", "write", "done"} \subseteq Points
  BY DEF Threads, Points
<1>3. CASE Select(r, g)
  BY <1>1, <1>2, <1>3 DEF Select
<1>4. CASE Send(r, g)
  BY <1>1, <1>2, <1>4 DEF Send
<1>5. CASE StdoutEnds(r) \/ StderrEnds(r)
  BY <1>1, <1>2, <1>5 DEF StdoutEnds, StderrEnds
<1>6. CASE BrowserEnds(r) \/ WriteToShell(r)
  BY <1>1, <1>2, <1>6 DEF BrowserEnds, WriteToShell
<1>7. CASE ShellOutput(r, g) \/ BrowserInput(r)
  BY <1>1, <1>2, <1>7 DEF ShellOutput, BrowserInput
<1>8. QED
  BY <1>3, <1>4, <1>5, <1>6, <1>7 DEF Copies

(* The browser and the shell go when they like. *)
LEMMA PeersIInv ==
  ASSUME ConsoleIInv, NEW r \in Requests, BrowserLeaves(r) \/ ShellExits(r)
  PROVE  ConsoleIInv'
<1> USE DEF ConsoleIInv, rows, session
<1>1. CASE BrowserLeaves(r)
  BY <1>1 DEF ConsoleTypeOK, Spent, HasToken, NoCloserYet, BrowserLeaves
<1>2. CASE ShellExits(r)
  BY <1>2 DEF ConsoleTypeOK, Spent, HasToken, NoCloserYet, ShellExits
<1>3. QED
  BY <1>1, <1>2

LEMMA NextConsoleIInv == ConsoleIInv /\ [ConsoleNext]_consoleVars => ConsoleIInv'
<1> SUFFICES ASSUME ConsoleIInv, [ConsoleNext]_consoleVars PROVE ConsoleIInv'
  OBVIOUS
<1>1. ASSUME NEW t \in Tokens,
             \/ GenerateConsoleTokenForServer(t) \/ GenerateConsoleTokenForApplication(t)
             \/ Expire(t)
      PROVE  ConsoleIInv'
  BY <1>1, TokensIInv DEF GenerateConsoleTokenForServer, GenerateConsoleTokenForApplication
<1>2. ASSUME NEW r \in Requests, Proceeds(r) \/ CloseClient(r) PROVE ConsoleIInv'
  BY <1>2, DeleteIInv, ConnectionIInv DEF Proceeds
<1>3. ASSUME NEW r \in Requests, Environment(r) PROVE ConsoleIInv'
  BY <1>3, FindIInv, CopiesIInv, PeersIInv DEF Environment, Threads
<1>4. ASSUME NEW r \in Requests, NEW g \in Threads, Copies(r, g) PROVE ConsoleIInv'
  BY <1>4, CopiesIInv
<1>5. CASE UNCHANGED consoleVars
  BY <1>5 DEF ConsoleIInv, ConsoleTypeOK, Spent, HasToken, NoCloserYet, consoleVars
<1>6. QED
  BY <1>1, <1>2, <1>3, <1>4, <1>5 DEF ConsoleNext

(* The variables of tokens, requests, connections and goroutines keep their   *)
(* shape, and the goroutine that closes a connection has closed it when it    *)
(* is done (ssh.go:40-45).                                                    *)
THEOREM ConsoleTypeCorrect == ConsoleSpec => []ConsoleTypeOK
<1>1. ConsoleIInv => ConsoleTypeOK
  BY DEF ConsoleIInv
<1>2. QED
  BY InitConsoleIInv, NextConsoleIInv, <1>1, PTL DEF ConsoleSpec

(* A step lets a request in only with a token that is valid, and a token that *)
(* was used is not.                                                           *)
LEMMA AdmittedIsValid ==
  ASSUME ConsoleIInv, [ConsoleNext]_consoleVars, NEW r \in Requests,
         pc[r] = "idle", pc'[r] = "admitted"
  PROVE  holds'[r] \notin used
<1>1. \E t \in Tokens : FindConsoleToken(r, t)
  <2>1. ASSUME NEW q \in Requests,
               \/ DeleteToken(q) \/ ConnectFails(q) \/ Dial(q) \/ NewSessionFails(q)
               \/ NewSession(q) \/ ShellFails(q) \/ (\E kind : ShellStarts(q, kind))
               \/ UpgradeFails(q) \/ Upgrade(q) \/ HandlerReturns(q)
        PROVE  pc[r] = pc'[r] \/ pc'[r] # "admitted"
    <3>1. PICK to : pc' = [pc EXCEPT ![q] = to] /\ to # "admitted"
      <4>1. CASE DeleteToken(q) \/ ConnectFails(q) \/ Dial(q)
        BY <4>1 DEF DeleteToken, ConnectFails, Dial
      <4>2. CASE NewSessionFails(q) \/ NewSession(q) \/ ShellFails(q)
        BY <4>2 DEF NewSessionFails, NewSession, ShellFails
      <4>3. CASE \E kind : ShellStarts(q, kind)
        BY <4>3 DEF ShellStarts
      <4>4. CASE UpgradeFails(q) \/ Upgrade(q) \/ HandlerReturns(q)
        BY <4>4 DEF UpgradeFails, Upgrade, HandlerReturns
      <4>5. QED
        BY <2>1, <4>1, <4>2, <4>3, <4>4
    <3>2. QED
      BY <3>1 DEF ConsoleIInv, ConsoleTypeOK
  <2>2. ASSUME NEW q \in Requests, NEW g \in Threads,
               \/ Copies(q, g) \/ ShellOutput(q, g) \/ BrowserInput(q) \/ BrowserLeaves(q)
               \/ ShellExits(q) \/ CloseClient(q)
        PROVE  pc' = pc
    BY <2>2 DEF Copies, Select, Send, StdoutEnds, StderrEnds, BrowserEnds, WriteToShell,
       ShellOutput, BrowserInput, BrowserLeaves, ShellExits, CloseClient, Goes, Ends, Moves
  <2>3. ASSUME NEW t \in Tokens,
               \/ GenerateConsoleTokenForServer(t) \/ GenerateConsoleTokenForApplication(t)
               \/ Expire(t)
        PROVE  pc' = pc
    BY <2>3 DEF GenerateConsoleTokenForServer, GenerateConsoleTokenForApplication,
       GenerateToken, Expire
  <2>4. ASSUME NEW q \in Requests, NEW t \in Tokens, FindConsoleToken(q, t)
        PROVE  q = r \/ pc'[r] = pc[r]
    BY <2>4 DEF ConsoleIInv, ConsoleTypeOK, FindConsoleToken
  <2>5. pc[r] # pc'[r]
    OBVIOUS
  <2>6. \E q \in Requests, t \in Tokens : FindConsoleToken(q, t)
    BY <2>1, <2>2, <2>3, <2>5 DEF ConsoleNext, Proceeds, Environment, ServerShell, ContainerShell,
       consoleVars, Threads
  <2>7. QED
    BY <2>4, <2>5, <2>6
<1>2. QED
  BY <1>1 DEF ConsoleIInv, ConsoleTypeOK, Spent, FindConsoleToken

(* However requests interleave, a token that let one in and was deleted for   *)
(* it lets in none that comes later (console_token.operations.go:58-74,       *)
(* server.go:157-169).                                                        *)
THEOREM UsedTokenStaysDead == ConsoleSpec => UsedTokenIsDead
<1>1. ConsoleIInv /\ [ConsoleNext]_consoleVars
        => [\A r \in Requests :
              pc[r] = "idle" /\ pc'[r] = "admitted" => holds'[r] \notin used]_consoleVars
  BY AdmittedIsValid
<1>2. QED
  BY InitConsoleIInv, NextConsoleIInv, <1>1, PTL DEF ConsoleSpec, UsedTokenIsDead
=============================================================================
