------------------------ MODULE LocalTaskQueueProofs ------------------------
(***************************************************************************)
(* Type correctness and durability of the in-process task queue, for every *)
(* set of queues, tasks, enqueuers and workers and every channel capacity. *)
(***************************************************************************)
EXTENDS LocalTaskQueue, TLAPS

USE SweeperAssumption, CapacityAssumption, NoTaskAssumption, NoQueueAssumption

-----------------------------------------------------------------------------

LEMMA InitTypeOK == Init => TypeOK
  BY DEF Init, TypeOK, NoRows, Callers, Calls, NoCall, Consumers, Waiting, Sweeps, NoSweep

(* A goroutine inside EnqueueTask has a queue and a task, and stays a call   *)
(* when only its step changes.                                               *)
LEMMA CallFields ==
  ASSUME TypeOK, NEW c \in Callers, call[c].pc # "idle"
  PROVE  /\ call[c].queue \in Queues
         /\ call[c].task \in Tasks
         /\ [call EXCEPT ![c] = NoCall] \in [Callers -> Calls]
         /\ [call EXCEPT ![c].pc = "full"] \in [Callers -> Calls]
         /\ [call EXCEPT ![c].pc = "send"] \in [Callers -> Calls]
<1>1. call \in [Callers -> Calls]
  BY DEF TypeOK
<1>2. call[c] \in [pc : {"create", "full", "send"}, queue : Queues, task : Tasks]
  BY <1>1 DEF Calls, NoCall
<1>3. /\ [call[c] EXCEPT !.pc = "full"] \in Calls
      /\ [call[c] EXCEPT !.pc = "send"] \in Calls
  BY <1>2 DEF Calls
<1>4. QED
  BY <1>1, <1>2, <1>3 DEF Calls

LEMMA CallStepTypeOK ==
  ASSUME TypeOK, NEW c \in Callers, CallStep(c)
  PROVE  TypeOK'
<1>0. call[c].pc # "idle"
  BY DEF CallStep, AddTaskToDb, AddTaskFails, RejectWhenFull, PassFullCheck, Send
<1>1. CASE AddTaskToDb(c)
  <2> DEFINE q == call[c].queue
             t == call[c].task
  <2>1. q \in Queues /\ t \in Tasks /\ call' \in [Callers -> Calls]
    BY <1>0, <1>1, CallFields DEF AddTaskToDb
  <2>2. rows' = [rows EXCEPT ![q][t] = @ + 1]
    BY <1>1 DEF AddTaskToDb
  <2>3. exposed' \subseteq exposed \cup {<<q, t>>}
    BY <1>1 DEF AddTaskToDb
  <2>4. rows' \in [Queues -> [Tasks -> Nat]] /\ exposed' \subseteq Queues \X Tasks
    <3> HIDE DEF q, t
    <3>1. rows' \in [Queues -> [Tasks -> Nat]]
      BY <2>1, <2>2 DEF TypeOK
    <3>2. <<q, t>> \in Queues \X Tasks
      BY <2>1
    <3>3. QED
      BY <2>3, <3>1, <3>2, Zenon DEF TypeOK
  <2>5. QED
    BY <1>1, <2>1, <2>4 DEF AddTaskToDb, TypeOK
<1>2. CASE AddTaskFails(c)
  <2>1. exposed' \subseteq Queues \X Tasks
    <3>1. exposed' \subseteq exposed \cup {<<call[c].queue, call[c].task>>}
      BY <1>2 DEF AddTaskFails
    <3>2. <<call[c].queue, call[c].task>> \in Queues \X Tasks
      BY <1>0, CallFields
    <3>3. QED
      BY <3>1, <3>2, Zenon DEF TypeOK
  <2>2. QED
    BY <1>0, <1>2, <2>1, CallFields DEF AddTaskFails, TypeOK, store
<1>3. CASE RejectWhenFull(c)
  BY <1>0, <1>3, CallFields DEF RejectWhenFull, TypeOK, store, watch
<1>4. CASE PassFullCheck(c)
  BY <1>0, <1>4, CallFields DEF PassFullCheck, TypeOK, store, watch
<1>5. CASE Send(c)
  <2> DEFINE q == call[c].queue
             t == call[c].task
  <2>1. q \in Queues /\ t \in Tasks /\ call' \in [Callers -> Calls]
    BY <1>0, <1>5, CallFields DEF Send
  <2>2. channel[q] \in Seq(Tasks) /\ Len(channel[q]) < MaxMessages
    BY <1>5, <2>1 DEF Send, TypeOK
  <2>3. /\ Append(channel[q], t) \in Seq(Tasks)
        /\ Len(Append(channel[q], t)) = Len(channel[q]) + 1
    BY <2>1, <2>2
  <2>4. channel' = [channel EXCEPT ![q] = Append(@, t)]
    BY <1>5 DEF Send
  <2>5. /\ channel' \in [Queues -> Seq(Tasks)]
        /\ \A r \in Queues : Len(channel'[r]) <= MaxMessages
    <3> HIDE DEF q, t
    <3> QED BY <2>1, <2>2, <2>3, <2>4 DEF TypeOK
  <2>6. owed' \subseteq Queues \X Tasks
    BY <1>5, <2>1 DEF Send, TypeOK
  <2>7. QED
    BY <1>5, <2>1, <2>5, <2>6 DEF Send, TypeOK, store
<1>6. QED
  BY <1>1, <1>2, <1>3, <1>4, <1>5 DEF CallStep

LEMMA BeginEnqueueTypeOK ==
  ASSUME TypeOK, NEW c \in Callers, NEW q \in Queues, NEW t \in Tasks,
         ExistsTaskInDb(c, q, t)
  PROVE  call' \in [Callers -> Calls]
  BY DEF ExistsTaskInDb, TypeOK, Calls

LEMMA WorkerStepTypeOK ==
  ASSUME TypeOK, NEW q \in Queues, NEW w \in Workers, WorkerStep(q, w)
  PROVE  TypeOK'
<1>0. worker[q][w] \in Consumers
  BY DEF TypeOK
<1>1. CASE Receive(q, w)
  <2>1. /\ Head(channel[q]) \in Tasks
        /\ Tail(channel[q]) \in Seq(Tasks)
        /\ Len(Tail(channel[q])) <= MaxMessages
    BY <1>1 DEF Receive, TypeOK
  <2>2. /\ channel' \in [Queues -> Seq(Tasks)]
        /\ \A r \in Queues : Len(channel'[r]) <= MaxMessages
    BY <1>1, <2>1 DEF Receive, TypeOK
  <2>3. worker' \in [Queues -> [Workers -> Consumers]]
    BY <1>1, <2>1 DEF Receive, TypeOK, Consumers
  <2>4. QED
    BY <1>1, <2>2, <2>3 DEF Receive, TypeOK, store, watch
<1>2. CASE RunSucceeds(q, w)
  <2>1. [worker[q][w] EXCEPT !.pc = "remove"] \in Consumers
    BY <1>0, <1>2 DEF RunSucceeds, Consumers, Waiting
  <2>2. worker' \in [Queues -> [Workers -> Consumers]]
    BY <1>2, <2>1 DEF RunSucceeds, TypeOK
  <2>3. QED
    BY <1>2, <2>2 DEF RunSucceeds, TypeOK, store, watch
<1>3. CASE RunFails(q, w)
  BY <1>3 DEF RunFails, TypeOK, Consumers, store, watch
<1>4. CASE RemoveTaskFromDb(q, w)
  <2>1. worker[q][w].task \in Tasks
    BY <1>0, <1>4 DEF RemoveTaskFromDb, Consumers, Waiting
  <2>2. exposed' \subseteq Queues \X Tasks
    BY <1>4, <2>1 DEF RemoveTaskFromDb, TypeOK
  <2>3. rows' \in [Queues -> [Tasks -> Nat]]
    BY <1>4, <2>1 DEF RemoveTaskFromDb, TypeOK
  <2>4. worker' \in [Queues -> [Workers -> Consumers]]
    BY <1>4 DEF RemoveTaskFromDb, TypeOK, Consumers
  <2>5. QED
    BY <1>4, <2>2, <2>3, <2>4 DEF RemoveTaskFromDb, TypeOK
<1>5. CASE RemoveFails(q, w)
  BY <1>5 DEF RemoveFails, TypeOK, Consumers, store, watch
<1>6. QED
  BY <1>1, <1>2, <1>3, <1>4, <1>5 DEF WorkerStep

LEMMA SweepStepTypeOK ==
  ASSUME TypeOK, SweepStep
  PROVE  TypeOK'
<1>0. sweep \in Sweeps /\ Sweeper \in Callers
  BY DEF TypeOK, Callers
<1>1. CASE SweepBegin
  BY <1>0, <1>1 DEF SweepBegin, TypeOK, Sweeps, store, watch
<1>2. CASE SweepDelete
  <2>1. rows' \in [Queues -> [Tasks -> Nat]]
    <3>1. NoRows \in [Tasks -> Nat]
      BY DEF NoRows
    <3>2. CASE rows' = [rows EXCEPT ![sweep.queue] = NoRows]
      BY <3>1, <3>2 DEF TypeOK
    <3>3. CASE rows' = rows
      BY <3>3 DEF TypeOK
    <3>4. QED
      BY <1>2, <3>2, <3>3 DEF SweepDelete
  <2>2. sweep' \in Sweeps
    BY <1>0, <1>2 DEF SweepDelete, Sweeps
  <2>3. QED
    BY <1>2, <2>1, <2>2 DEF SweepDelete, TypeOK, watch
<1>3. ASSUME NEW q \in Queues, SweepFind(q) \/ SweepFindFails(q)
      PROVE  TypeOK'
  <2>1. sweep' \in Sweeps
    <3>1. rows[q] \in [Tasks -> Nat] /\ sweep.left \in SUBSET Queues
      BY <1>0 DEF TypeOK, Sweeps
    <3>2. CASE SweepFind(q)
      BY <3>1, <3>2 DEF SweepFind, Sweeps
    <3>3. CASE SweepFindFails(q)
      BY <1>0, <3>3 DEF SweepFindFails, Sweeps
    <3>4. QED
      BY <1>3, <3>2, <3>3
  <2>2. QED
    BY <1>3, <2>1 DEF SweepFind, SweepFindFails, TypeOK, store, watch
<1>4. ASSUME NEW t \in Tasks, SweepEnqueue(t) \/ SweepSkips(t)
      PROVE  TypeOK'
  <2>1. sweep.hand[t] - 1 \in Nat
    BY <1>0, <1>4 DEF SweepEnqueue, SweepSkips, Sweeps, NoRows
  <2>2. sweep' = [sweep EXCEPT !.hand = [@ EXCEPT ![t] = sweep.hand[t] - 1]]
    BY <1>0, <1>4 DEF SweepEnqueue, SweepSkips, Sweeps, NoRows
  <2>3. sweep.queue \in Queues
    BY <1>0, <1>4 DEF SweepEnqueue, SweepSkips, Sweeps, NoRows
  <2>a. sweep' \in Sweeps
    BY <1>0, <2>1, <2>2, <2>3 DEF Sweeps
  <2>4. CASE SweepEnqueue(t)
    <3>2. call' \in [Callers -> Calls]
      BY <1>0, <2>3, <2>4, BeginEnqueueTypeOK DEF SweepEnqueue
    <3>3. QED
      BY <2>a, <2>4, <3>2 DEF SweepEnqueue, TypeOK, store, watch
  <2>5. CASE SweepSkips(t)
    BY <2>a, <2>3, <2>5 DEF SweepSkips, TypeOK, store
  <2>6. QED
    BY <1>4, <2>4, <2>5
<1>5. QED
  BY <1>1, <1>2, <1>3, <1>4 DEF SweepStep

LEMMA OperatorTypeOK ==
  ASSUME TypeOK, Crash \/ StartConsumers
                 \/ \E q \in Queues : RegisterFunction(q) \/ PurgeQueue(q)
  PROVE  TypeOK'
<1>1. CASE Crash
  <2>1. /\ channel' \in [Queues -> Seq(Tasks)]
        /\ \A q \in Queues : Len(channel'[q]) <= MaxMessages
    BY <1>1 DEF Crash
  <2>2. call' \in [Callers -> Calls] /\ sweep' \in Sweeps
    BY <1>1 DEF Crash, Calls, NoSweep, Sweeps
  <2>3. worker' \in [Queues -> [Workers -> Consumers]]
    BY <1>1 DEF Crash, Consumers
  <2>4. QED
    BY <1>1, <2>1, <2>2, <2>3 DEF Crash, TypeOK
<1>2. CASE StartConsumers
  BY <1>2 DEF StartConsumers, TypeOK
<1>3. ASSUME NEW q \in Queues, RegisterFunction(q)
      PROVE  TypeOK'
  BY <1>3 DEF RegisterFunction, TypeOK
<1>4. ASSUME NEW q \in Queues, PurgeQueue(q)
      PROVE  TypeOK'
  <2>1. rows' \in [Queues -> [Tasks -> Nat]]
    BY <1>4 DEF PurgeQueue, TypeOK, NoRows
  <2>2. exposed' \subseteq Queues \X Tasks /\ owed' \subseteq Queues \X Tasks
    BY <1>4 DEF PurgeQueue, TypeOK
  <2>3. QED
    BY <1>4, <2>1, <2>2 DEF PurgeQueue, TypeOK
<1>5. QED
  BY <1>1, <1>2, <1>3, <1>4

LEMMA NextTypeOK == TypeOK /\ [Next]_vars => TypeOK'
<1> SUFFICES ASSUME TypeOK, [Next]_vars PROVE TypeOK'
  OBVIOUS
<1>1. ASSUME NEW e \in Enqueuers, NEW q \in Queues, NEW t \in Tasks, BeginEnqueue(e, q, t)
      PROVE  TypeOK'
  <2>1. call' \in [Callers -> Calls]
    BY <1>1, BeginEnqueueTypeOK DEF BeginEnqueue, Callers
  <2>2. QED
    BY <1>1, <2>1 DEF BeginEnqueue, TypeOK, store, watch
<1>2. CASE UNCHANGED vars
  BY <1>2 DEF vars, TypeOK
<1>3. QED
  BY <1>1, <1>2, CallStepTypeOK, WorkerStepTypeOK, SweepStepTypeOK, OperatorTypeOK
     DEF Next, Step

(* In every reachable state the variables are well formed and no channel     *)
(* exceeds maxMessagesPerQueue, however many EnqueueTask calls pass the len  *)
(* check together.                                                           *)
THEOREM TypeCorrect == Spec => []TypeOK
  BY InitTypeOK, NextTypeOK, PTL DEF Spec

-----------------------------------------------------------------------------
(* Durability is not inductive by itself: a task is accepted by the last     *)
(* step of a call, so the call must already be backed when it gets there,    *)
(* and a sweep must have read whatever it deletes.                           *)

IInv == TypeOK /\ Durable /\ Backed

Covered(q, t) == sweep.pc = "delete" /\ sweep.queue = q /\ rows[q][t] > 0 => sweep.hand[t] > 0

LEMMA InitIInv == Init => IInv
  BY InitTypeOK DEF Init, IInv, Durable, Backed, InFlight, At, NoCall, NoSweep

(* Steps that take no row away and start or end no carrying. *)
LEMMA CallStepIInv ==
  ASSUME IInv, NEW c \in Callers, CallStep(c)
  PROVE  IInv'
<1>0. TypeOK /\ TypeOK'
  BY CallStepTypeOK DEF IInv
<1>1. SUFFICES ASSUME NEW q \in Queues, NEW t \in Tasks, <<q, t>> \notin exposed'
               PROVE  /\ <<q, t>> \in owed' => Stored(q, t)'
                      /\ InFlight(q, t)' => Stored(q, t)'
                      /\ Covered(q, t)'
  BY <1>0 DEF IInv, Durable, Backed, Stored, Covered
<1>2. exposed \subseteq exposed'
  BY DEF CallStep, AddTaskToDb, AddTaskFails, RejectWhenFull, PassFullCheck, Send, watch
<1>3. /\ <<q, t>> \in owed => Stored(q, t)
      /\ InFlight(q, t) => Stored(q, t)
      /\ Covered(q, t)
  BY <1>1, <1>2 DEF IInv, Durable, Backed, Stored, Covered
<1>4. call[c].pc # "idle" => call[c].queue \in Queues /\ call[c].task \in Tasks
  BY <1>0, CallFields
<1>5. rows[q][t] \in Nat /\ call \in [Callers -> Calls] /\ Sweeper \in Callers
  BY <1>0 DEF TypeOK, Callers
<1>6. CASE AddTaskToDb(c)
  <2>1. call' = [call EXCEPT ![c].pc = "full"] /\ UNCHANGED <<sweep, owed>>
    BY <1>6 DEF AddTaskToDb
  <2>2. CASE call[c].queue = q /\ call[c].task = t
    <3>1. rows'[q][t] > 0
      BY <1>0, <1>5, <1>6, <2>2 DEF AddTaskToDb, TypeOK
    <3>2. Covered(q, t)'
      BY <1>1, <1>6, <2>1, <2>2, <1>0 DEF AddTaskToDb, Covered, TypeOK, Sweeps, NoRows
    <3>3. QED
      BY <3>1, <3>2 DEF Stored
  <2>3. CASE ~(call[c].queue = q /\ call[c].task = t)
    <3>1. rows'[q][t] = rows[q][t]
      BY <1>0, <1>4, <1>6, <2>3 DEF AddTaskToDb, TypeOK
    <3>2. Held(q, t)' <=> Held(q, t)
      BY <1>5, <2>1, <2>3 DEF Held, At
    <3>3. InFlight(q, t)' => InFlight(q, t)
      BY <1>5, <2>1, <2>3 DEF InFlight, At
    <3>4. QED
      BY <1>3, <2>1, <3>1, <3>2, <3>3 DEF Stored, Covered
  <2>4. QED
    BY <2>2, <2>3
<1>7. CASE AddTaskFails(c)
  <2>1. call' = [call EXCEPT ![c] = NoCall] /\ UNCHANGED <<rows, sweep, owed>>
    BY <1>7 DEF AddTaskFails, store
  <2>2. Held(q, t) => Held(q, t)'
    BY <1>1, <1>5, <1>7, <2>1 DEF AddTaskFails, Held, At
  <2>3. InFlight(q, t)' => InFlight(q, t)
    BY <1>5, <2>1 DEF InFlight, At, NoCall
  <2>4. QED
    BY <1>3, <2>1, <2>2, <2>3 DEF Stored, Covered
<1>8. CASE RejectWhenFull(c) \/ PassFullCheck(c) \/ Send(c)
  <2>1. /\ call[c].pc \in {"full", "send"}
        /\ \/ call' = [call EXCEPT ![c] = NoCall]
           \/ call' = [call EXCEPT ![c].pc = "send"]
        /\ UNCHANGED <<rows, sweep>>
    BY <1>8 DEF RejectWhenFull, PassFullCheck, Send, store
  <2>2. Held(q, t) => Held(q, t)'
    BY <1>5, <2>1 DEF Held, At
  <2>3. InFlight(q, t)' => InFlight(q, t)
    <3>1. CASE call' = [call EXCEPT ![c] = NoCall]
      BY <1>5, <3>1 DEF InFlight, At, NoCall
    <3>2. CASE call' = [call EXCEPT ![c].pc = "send"]
      <4>1. ASSUME NEW d \in Callers, At(d, {"full", "send"}, q, t)'
            PROVE  At(d, {"full", "send"}, q, t)
        BY <1>5, <2>1, <3>2, <4>1 DEF At
      <4>2. QED
        BY <4>1 DEF InFlight
    <3>3. QED
      BY <2>1, <3>1, <3>2
  <2>4. <<q, t>> \in owed' => <<q, t>> \in owed \/ InFlight(q, t)
    BY <1>8 DEF RejectWhenFull, PassFullCheck, Send, watch, InFlight, At
  <2>5. QED
    BY <1>3, <2>1, <2>2, <2>3, <2>4 DEF Stored, Covered
<1>9. QED
  BY <1>6, <1>7, <1>8 DEF CallStep

LEMMA WorkerStepIInv ==
  ASSUME IInv, NEW r \in Queues, NEW w \in Workers, WorkerStep(r, w)
  PROVE  IInv'
<1>0. TypeOK /\ TypeOK'
  BY WorkerStepTypeOK DEF IInv
<1>1. SUFFICES ASSUME NEW q \in Queues, NEW t \in Tasks, <<q, t>> \notin exposed'
               PROVE  /\ <<q, t>> \in owed' => Stored(q, t)'
                      /\ InFlight(q, t)' => Stored(q, t)'
                      /\ Covered(q, t)'
  BY <1>0 DEF IInv, Durable, Backed, Stored, Covered
<1>2. /\ exposed \subseteq exposed'
      /\ owed' \subseteq owed
      /\ UNCHANGED <<call, sweep>>
  BY DEF WorkerStep, Receive, RunSucceeds, RunFails, RemoveTaskFromDb, RemoveFails, watch
<1>3. /\ <<q, t>> \in owed => Stored(q, t)
      /\ InFlight(q, t) => Stored(q, t)
      /\ Covered(q, t)
  BY <1>1, <1>2 DEF IInv, Durable, Backed, Stored, Covered
<1>4. (Held(q, t)' <=> Held(q, t)) /\ (InFlight(q, t)' <=> InFlight(q, t))
  BY <1>2 DEF Held, InFlight, At
<1>5. CASE UNCHANGED rows
  BY <1>2, <1>3, <1>4, <1>5 DEF Stored, Covered
<1>6. CASE RemoveTaskFromDb(r, w)
  <2>1. CASE r = q /\ worker[r][w].task = t
    <3>1. ~InFlight(q, t) /\ <<q, t>> \notin owed'
      BY <1>1, <1>6, <2>1 DEF RemoveTaskFromDb
    <3>2. rows'[q][t] = 0
      BY <1>0, <1>6, <2>1 DEF RemoveTaskFromDb, TypeOK
    <3>3. QED
      BY <1>4, <3>1, <3>2 DEF Covered
  <2>2. CASE ~(r = q /\ worker[r][w].task = t)
    <3>1. rows'[q][t] = rows[q][t]
      BY <1>0, <1>6, <2>2 DEF RemoveTaskFromDb, TypeOK
    <3>2. QED
      BY <1>2, <1>3, <1>4, <3>1 DEF Stored, Covered
  <2>3. QED
    BY <2>1, <2>2
<1>7. QED
  BY <1>5, <1>6 DEF WorkerStep, Receive, RunSucceeds, RunFails, RemoveFails, store

LEMMA SweepStepIInv ==
  ASSUME IInv, SweepStep
  PROVE  IInv'
<1>0. TypeOK /\ TypeOK' /\ sweep \in Sweeps /\ Sweeper \in Callers
  BY SweepStepTypeOK DEF IInv, TypeOK, Callers
<1>1. SUFFICES ASSUME NEW q \in Queues, NEW t \in Tasks, <<q, t>> \notin exposed'
               PROVE  /\ <<q, t>> \in owed' => Stored(q, t)'
                      /\ InFlight(q, t)' => Stored(q, t)'
                      /\ Covered(q, t)'
  BY <1>0 DEF IInv, Durable, Backed, Stored, Covered
<1>2. exposed \subseteq exposed' /\ owed' = owed
  BY DEF SweepStep, SweepBegin, SweepFind, SweepFindFails, SweepDelete, SweepEnqueue,
         SweepSkips, watch
<1>3. /\ <<q, t>> \in owed => Stored(q, t)
      /\ InFlight(q, t) => Stored(q, t)
      /\ Covered(q, t)
  BY <1>1, <1>2 DEF IInv, Durable, Backed, Stored, Covered
<1>4. rows[q] \in [Tasks -> Nat] /\ call \in [Callers -> Calls]
  BY <1>0 DEF TypeOK
<1>5. ASSUME SweepBegin \/ \E r \in Queues : SweepFindFails(r)
      PROVE  /\ UNCHANGED <<rows, call>>
             /\ sweep'.pc = sweep.pc /\ sweep'.queue = sweep.queue /\ sweep'.hand = sweep.hand
  BY <1>0, <1>5 DEF SweepBegin, SweepFindFails, store, Sweeps
<1>6. CASE SweepBegin \/ \E r \in Queues : SweepFindFails(r)
  BY <1>2, <1>3, <1>5, <1>6 DEF Stored, Covered, Held, InFlight, At
<1>7. ASSUME NEW r \in Queues, SweepFind(r)
      PROVE  /\ <<q, t>> \in owed' => Stored(q, t)'
             /\ InFlight(q, t)' => Stored(q, t)'
             /\ Covered(q, t)'
  <2>1. ~Held(q, t)
    BY <1>7 DEF SweepFind, SweepIdle, Held, At, NoCall, NoRows
  <2>2. UNCHANGED <<rows, call>> /\ sweep'.queue = r /\ sweep'.hand = rows[r]
    BY <1>7 DEF SweepFind, store
  <2>3. (InFlight(q, t)' <=> InFlight(q, t)) /\ Covered(q, t)'
    BY <2>2 DEF InFlight, At, Covered
  <2>4. QED
    BY <1>2, <1>3, <2>1, <2>2, <2>3 DEF Stored
<1>8. CASE SweepDelete
  <2>1. /\ sweep.pc = "delete" /\ sweep.queue \in Queues
        /\ sweep'.pc = "ready" /\ sweep'.queue = sweep.queue /\ sweep'.hand = sweep.hand
        /\ UNCHANGED call
    BY <1>0, <1>8 DEF SweepDelete, Sweeps
  <2>2. InFlight(q, t)' <=> InFlight(q, t)
    BY <2>1 DEF InFlight, At
  <2>3. ~Held(q, t) /\ Covered(q, t)'
    BY <2>1 DEF Held, Covered
  <2>4. rows[q][t] > 0 => Stored(q, t)'
    <3>1. CASE sweep.queue = q
      BY <1>3, <2>1, <3>1 DEF Stored, Held, Covered
    <3>2. CASE sweep.queue # q
      BY <1>0, <1>8, <3>2 DEF SweepDelete, Stored, TypeOK
    <3>3. QED
      BY <3>1, <3>2
  <2>5. QED
    BY <1>2, <1>3, <2>2, <2>3, <2>4 DEF Stored
<1>9. ASSUME NEW u \in Tasks, SweepEnqueue(u) \/ SweepSkips(u)
      PROVE  /\ <<q, t>> \in owed' => Stored(q, t)'
             /\ InFlight(q, t)' => Stored(q, t)'
             /\ Covered(q, t)'
  <2>1. /\ sweep.pc = "ready" /\ sweep'.pc = "ready" /\ sweep'.queue = sweep.queue
        /\ call[Sweeper] = NoCall /\ UNCHANGED rows
        /\ sweep'.hand = [sweep.hand EXCEPT ![u] = @ - 1]
    BY <1>0, <1>9 DEF SweepEnqueue, SweepSkips, ExistsTaskInDb, store, Sweeps
  <2>2. Covered(q, t)'
    BY <2>1 DEF Covered
  <2>3. sweep.hand \in [Tasks -> Nat]
    BY <1>0 DEF Sweeps, NoRows
  <2>4. CASE sweep.queue = q /\ u = t
    <3>1. SweepEnqueue(t)
      BY <1>1, <1>9, <2>4 DEF SweepSkips
    <3>2. Stored(q, t)'
      BY <1>0, <1>4, <2>1, <2>4, <3>1 DEF SweepEnqueue, ExistsTaskInDb, Stored, Held, At
    <3>3. QED
      BY <2>2, <3>2
  <2>5. CASE ~(sweep.queue = q /\ u = t)
    <3>1. Held(q, t) => Held(q, t)'
      BY <2>1, <2>3, <2>5 DEF Held, At, NoCall
    <3>2. InFlight(q, t)' => InFlight(q, t)
      BY <1>4, <1>9, <2>1, <2>5 DEF SweepEnqueue, SweepSkips, ExistsTaskInDb, InFlight, At
    <3>3. QED
      BY <1>2, <1>3, <2>1, <2>2, <3>1, <3>2 DEF Stored
  <2>6. QED
    BY <2>4, <2>5
<1>10. QED
  BY <1>6, <1>7, <1>8, <1>9 DEF SweepStep

LEMMA CrashIInv ==
  ASSUME IInv, Crash
  PROVE  IInv'
<1>0. TypeOK /\ TypeOK'
  BY OperatorTypeOK DEF IInv
<1>1. SUFFICES ASSUME NEW q \in Queues, NEW t \in Tasks, <<q, t>> \notin exposed'
               PROVE  /\ <<q, t>> \in owed' => Stored(q, t)'
                      /\ ~InFlight(q, t)'
                      /\ Covered(q, t)'
  BY <1>0 DEF IInv, Durable, Backed, Stored, Covered
<1>2. <<q, t>> \notin exposed /\ ~Held(q, t) /\ owed' = owed /\ rows' = rows
  BY <1>1 DEF Crash
<1>3. <<q, t>> \in owed => rows[q][t] > 0
  BY <1>2 DEF IInv, Durable
<1>4. ~InFlight(q, t)' /\ Covered(q, t)'
  BY DEF Crash, InFlight, At, NoCall, Covered, NoSweep
<1>5. QED
  BY <1>2, <1>3, <1>4 DEF Stored

LEMMA PurgeIInv ==
  ASSUME IInv, NEW r \in Queues, PurgeQueue(r)
  PROVE  IInv'
<1>0. TypeOK /\ TypeOK'
  BY OperatorTypeOK DEF IInv
<1>1. SUFFICES ASSUME NEW q \in Queues, NEW t \in Tasks, <<q, t>> \notin exposed'
               PROVE  /\ <<q, t>> \in owed' => Stored(q, t)'
                      /\ InFlight(q, t)' => Stored(q, t)'
                      /\ Covered(q, t)'
  BY <1>0 DEF IInv, Durable, Backed, Stored, Covered
<1>2. /\ <<q, t>> \notin exposed /\ UNCHANGED <<call, sweep>>
      /\ (Held(q, t)' <=> Held(q, t)) /\ (InFlight(q, t)' <=> InFlight(q, t))
  BY <1>1 DEF PurgeQueue, Held, InFlight, At
<1>3. CASE r = q
  <2>1. ~InFlight(q, t) /\ <<q, t>> \notin owed'
    BY <1>1, <1>3 DEF PurgeQueue
  <2>2. rows'[q][t] = 0
    BY <1>0, <1>3 DEF PurgeQueue, TypeOK, NoRows
  <2>3. QED
    BY <1>2, <2>1, <2>2 DEF Covered
<1>4. CASE r # q
  <2>1. rows'[q][t] = rows[q][t] /\ (<<q, t>> \in owed' => <<q, t>> \in owed)
    BY <1>0, <1>4 DEF PurgeQueue, TypeOK
  <2>2. QED
    BY <1>2, <2>1 DEF IInv, Durable, Backed, Stored, Covered
<1>5. QED
  BY <1>3, <1>4

LEMMA NextIInv == IInv /\ [Next]_vars => IInv'
<1> SUFFICES ASSUME IInv, [Next]_vars PROVE IInv'
  OBVIOUS
<1>0. TypeOK /\ TypeOK'
  BY NextTypeOK DEF IInv
<1>1. ASSUME NEW e \in Enqueuers, NEW r \in Queues, NEW u \in Tasks, BeginEnqueue(e, r, u)
      PROVE  IInv'
  <2>1. /\ call[e] = NoCall /\ e # Sweeper /\ call \in [Callers -> Calls]
        /\ UNCHANGED <<rows, sweep, owed, exposed>>
        /\ call' = [call EXCEPT ![e] = [pc |-> IF rows[r][u] > 0 THEN "full" ELSE "create",
                                       queue |-> r, task |-> u]]
    BY <1>0, <1>1 DEF BeginEnqueue, ExistsTaskInDb, store, watch, TypeOK
  <2>2. ASSUME NEW q \in Queues, NEW t \in Tasks
        PROVE  /\ Held(q, t)' <=> Held(q, t)
               /\ InFlight(q, t)' => InFlight(q, t) \/ rows[q][t] > 0
    BY <1>1, <2>1 DEF Held, InFlight, At, Callers
  <2>3. QED
    BY <1>0, <2>1, <2>2 DEF IInv, Durable, Backed
<1>2. ASSUME \/ UNCHANGED vars \/ StartConsumers
             \/ \E r \in Queues : RegisterFunction(r)
      PROVE  UNCHANGED <<rows, call, sweep, owed, exposed>>
  BY <1>2 DEF vars, StartConsumers, RegisterFunction
<1>3. ASSUME UNCHANGED <<rows, call, sweep, owed, exposed>>
      PROVE  IInv'
  BY <1>0, <1>3 DEF IInv, Durable, Backed, Held, InFlight, At
<1>4. QED
  BY <1>1, <1>2, <1>3, CallStepIInv, WorkerStepIInv, SweepStepIInv, CrashIInv, PurgeIInv
     DEF Next, Step

(* No interleaving of enqueuers, consumers, sweeps, purges and crashes makes *)
(* an accepted task lose its row before it is finished, outside the windows  *)
(* that exposed records (EnqueueTask's database row before the channel send, *)
(* and the sweep's EnqueueTask for all it deleted).                          *)
THEOREM DurableTasks == Spec => []Durable
<1>1. IInv => Durable
  BY DEF IInv
<1>2. QED
  BY <1>1, InitIInv, NextIInv, PTL DEF Spec

(* The backing of every call in flight, which durability rests on. *)
THEOREM BackedCalls == Spec => []Backed
<1>1. IInv => Backed
  BY DEF IInv
<1>2. QED
  BY <1>1, InitIInv, NextIInv, PTL DEF Spec

-----------------------------------------------------------------------------
(* The in-process queue implements TaskQueue: what is not exposed stays      *)
(* stored through every step that is not the end of it.                      *)

LEMMA CallStepStores ==
  ASSUME TypeOK, NEW c \in Callers, CallStep(c),
         NEW q \in Queues, NEW t \in Tasks, <<q, t>> \notin exposed', Stored(q, t)
  PROVE  Stored(q, t)'
<1>1. call[c].pc # "idle" => call[c].queue \in Queues /\ call[c].task \in Tasks
  BY CallFields
<1>2. rows[q][t] \in Nat /\ call \in [Callers -> Calls] /\ Sweeper \in Callers
  BY DEF TypeOK, Callers
<1>3. CASE AddTaskToDb(c)
  <2>1. call' = [call EXCEPT ![c].pc = "full"] /\ UNCHANGED sweep
    BY <1>3 DEF AddTaskToDb
  <2>2. CASE call[c].queue = q /\ call[c].task = t
    BY <1>2, <1>3, <2>2 DEF AddTaskToDb, TypeOK, Stored
  <2>3. CASE ~(call[c].queue = q /\ call[c].task = t)
    <3>1. rows'[q][t] = rows[q][t]
      BY <1>1, <1>3, <2>3 DEF AddTaskToDb, TypeOK
    <3>2. Held(q, t) => Held(q, t)'
      BY <1>2, <2>1, <2>3 DEF Held, At
    <3>3. QED
      BY <3>1, <3>2 DEF Stored
  <2>4. QED
    BY <2>2, <2>3
<1>4. CASE AddTaskFails(c)
  <2>1. Held(q, t) => Held(q, t)'
    BY <1>2, <1>4 DEF AddTaskFails, Held, At
  <2>2. QED
    BY <1>4, <2>1 DEF AddTaskFails, Stored, store
<1>5. CASE RejectWhenFull(c) \/ PassFullCheck(c) \/ Send(c)
  <2>1. /\ call[c].pc \in {"full", "send"}
        /\ \/ call' = [call EXCEPT ![c] = NoCall]
           \/ call' = [call EXCEPT ![c].pc = "send"]
        /\ UNCHANGED <<rows, sweep>>
    BY <1>5 DEF RejectWhenFull, PassFullCheck, Send, store
  <2>2. Held(q, t) => Held(q, t)'
    BY <1>2, <2>1 DEF Held, At
  <2>3. QED
    BY <2>1, <2>2 DEF Stored
<1>6. QED
  BY <1>3, <1>4, <1>5 DEF CallStep

LEMMA SweepStepStores ==
  ASSUME IInv, SweepStep,
         NEW q \in Queues, NEW t \in Tasks, <<q, t>> \notin exposed', Stored(q, t)
  PROVE  Stored(q, t)'
<1>1. TypeOK /\ sweep \in Sweeps /\ Sweeper \in Callers
  BY DEF IInv, TypeOK, Callers
<1>2. rows[q] \in [Tasks -> Nat] /\ call \in [Callers -> Calls]
  BY <1>1 DEF TypeOK
<1>3. Covered(q, t)
  <2>1. exposed \subseteq exposed'
    BY DEF SweepStep, SweepBegin, SweepFind, SweepFindFails, SweepDelete, SweepEnqueue,
           SweepSkips, watch
  <2>2. QED
    BY <2>1 DEF IInv, Backed, Covered
<1>4. CASE SweepBegin \/ \E r \in Queues : SweepFindFails(r)
  <2>1. /\ UNCHANGED <<rows, call>>
        /\ sweep'.pc = sweep.pc /\ sweep'.queue = sweep.queue /\ sweep'.hand = sweep.hand
    BY <1>1, <1>4 DEF SweepBegin, SweepFindFails, store, Sweeps
  <2>2. QED
    BY <2>1 DEF Stored, Held, At
<1>5. ASSUME NEW r \in Queues, SweepFind(r)
      PROVE  Stored(q, t)'
  <2>1. ~Held(q, t) /\ rows' = rows
    BY <1>5 DEF SweepFind, SweepIdle, Held, At, NoCall, NoRows, store
  <2>2. QED
    BY <2>1 DEF Stored
<1>6. CASE SweepDelete
  <2>1. /\ sweep.pc = "delete" /\ sweep.queue \in Queues
        /\ sweep'.pc = "ready" /\ sweep'.queue = sweep.queue /\ sweep'.hand = sweep.hand
    BY <1>1, <1>6 DEF SweepDelete, Sweeps
  <2>2. rows[q][t] > 0
    BY <2>1 DEF Stored, Held
  <2>3. CASE sweep.queue = q
    BY <1>3, <2>1, <2>2, <2>3 DEF Stored, Held, Covered
  <2>4. CASE sweep.queue # q
    BY <1>1, <1>6, <2>2, <2>4 DEF SweepDelete, Stored, TypeOK
  <2>5. QED
    BY <2>3, <2>4
<1>7. ASSUME NEW u \in Tasks, SweepEnqueue(u) \/ SweepSkips(u)
      PROVE  Stored(q, t)'
  <2>1. /\ sweep.pc = "ready" /\ sweep'.pc = "ready" /\ sweep'.queue = sweep.queue
        /\ call[Sweeper] = NoCall /\ UNCHANGED rows
        /\ sweep'.hand = [sweep.hand EXCEPT ![u] = @ - 1]
    BY <1>1, <1>7 DEF SweepEnqueue, SweepSkips, ExistsTaskInDb, store, Sweeps
  <2>2. sweep.hand \in [Tasks -> Nat]
    BY <1>1 DEF Sweeps, NoRows
  <2>3. CASE sweep.queue = q /\ u = t
    <3>1. SweepEnqueue(t)
      BY <1>7, <2>3 DEF SweepSkips
    <3>2. QED
      BY <1>1, <1>2, <2>1, <2>3, <3>1 DEF SweepEnqueue, ExistsTaskInDb, Stored, Held, At
  <2>4. CASE ~(sweep.queue = q /\ u = t)
    BY <2>1, <2>2, <2>4 DEF Stored, Held, At, NoCall
  <2>5. QED
    BY <2>3, <2>4
<1>8. QED
  BY <1>4, <1>5, <1>6, <1>7 DEF SweepStep

(* A step that loses nothing but what is exposed is a step of TaskQueue. *)
LEMMA StoreStep ==
  ASSUME TypeOK', exposed \subseteq exposed', owed' = owed,
         \A q \in Queues, t \in Tasks :
           <<q, t>> \notin exposed' /\ Stored(q, t) => Stored(q, t)'
  PROVE  TQ!Next
<1> DEFINE I == exposed' \ exposed
<1>1. I \in SUBSET (Queues \X Tasks) /\ exposed' = exposed \cup I
  BY DEF TypeOK
<1>2. Kept \ Kept' \subseteq exposed' /\ Kept' \subseteq Queues \X Tasks
  BY DEF Kept
<1>3. TQ!Store(I)
  BY <1>1, <1>2 DEF TQ!Store
<1>4. QED
  BY <1>1, <1>3 DEF TQ!Next

(* A step that ends the items I of one queue. *)
LEMMA FinishStep ==
  ASSUME NEW I \in SUBSET (Queues \X Tasks),
         owed' = owed \ I, exposed \subseteq exposed', exposed' \subseteq exposed \cup I,
         \A q \in Queues, t \in Tasks :
           /\ Stored(q, t)' => Stored(q, t)
           /\ <<q, t>> \notin I => (Stored(q, t) => Stored(q, t)')
  PROVE  TQ!Next
<1>1. Kept' \subseteq Kept /\ Kept \ Kept' \subseteq I
  BY DEF Kept
<1>2. TQ!Finish(I)
  BY <1>1 DEF TQ!Finish
<1>3. QED
  BY <1>2 DEF TQ!Next

LEMMA SendAccepts ==
  ASSUME IInv, NEW c \in Callers, Send(c)
  PROVE  TQ!Next
<1> DEFINE q == call[c].queue
           t == call[c].task
<1>1. q \in Queues /\ t \in Tasks
  BY CallFields DEF Send, IInv
<1>2. TypeOK /\ call \in [Callers -> Calls] /\ Sweeper \in Callers
  BY DEF IInv, TypeOK, Callers
<1>3. /\ call[c].pc = "send" /\ owed' = owed \cup {<<q, t>>}
      /\ call' = [call EXCEPT ![c] = NoCall] /\ UNCHANGED <<rows, sweep, exposed>>
  BY DEF Send, store
<1>4. ASSUME NEW r \in Queues, NEW u \in Tasks
      PROVE  Stored(r, u)' <=> Stored(r, u)
  BY <1>2, <1>3 DEF Stored, Held, At, NoCall
<1>5. Kept' = Kept
  BY <1>4 DEF Kept
<1>6. InFlight(q, t)
  BY <1>3 DEF InFlight, At
<1>7. <<q, t>> \in Kept \cup exposed
  BY <1>1, <1>6 DEF IInv, Backed, Kept, Stored
<1>8. TQ!Accept(<<q, t>>)
  BY <1>3, <1>5, <1>7 DEF TQ!Accept
<1>9. QED
  BY <1>1, <1>8 DEF TQ!Next

LEMMA StepImplements == IInv /\ [Next]_vars => [TQ!Next]_(TQ!vars)
<1> SUFFICES ASSUME IInv, [Next]_vars PROVE [TQ!Next]_(TQ!vars)
  OBVIOUS
<1>0. TypeOK /\ TypeOK'
  BY NextTypeOK DEF IInv
<1>1. CASE UNCHANGED vars
  <2>1. UNCHANGED <<owed, exposed, rows, sweep, call>>
    BY <1>1 DEF vars
  <2>2. Kept' = Kept
    BY <2>1 DEF Kept, Stored, Held, At
  <2>3. QED
    BY <2>1, <2>2 DEF TQ!vars
<1>2. ASSUME NEW e \in Enqueuers, NEW r \in Queues, NEW u \in Tasks, BeginEnqueue(e, r, u)
      PROVE  TQ!Next
  <2>1. /\ call[e] = NoCall /\ e # Sweeper /\ e \in Callers /\ call \in [Callers -> Calls]
        /\ UNCHANGED <<rows, sweep, owed, exposed>>
        /\ call' = [call EXCEPT ![e] = [pc |-> IF rows[r][u] > 0 THEN "full" ELSE "create",
                                       queue |-> r, task |-> u]]
    BY <1>0, <1>2 DEF BeginEnqueue, ExistsTaskInDb, store, watch, TypeOK, Callers
  <2>2. ASSUME NEW q \in Queues, NEW t \in Tasks, Stored(q, t)
        PROVE  Stored(q, t)'
    BY <2>1, <2>2 DEF Stored, Held, At, Callers
  <2>3. QED
    BY <1>0, <2>1, <2>2, StoreStep
<1>3. ASSUME NEW c \in Callers, CallStep(c)
      PROVE  TQ!Next
  <2>1. CASE Send(c)
    BY <2>1, SendAccepts
  <2>2. CASE ~Send(c)
    <3>1. exposed \subseteq exposed' /\ owed' = owed
      BY <1>3, <2>2 DEF CallStep, AddTaskToDb, AddTaskFails, RejectWhenFull, PassFullCheck, watch
    <3>2. QED
      BY <1>0, <1>3, <3>1, CallStepStores, StoreStep
  <2>3. QED
    BY <2>1, <2>2
<1>4. ASSUME NEW r \in Queues, NEW w \in Workers, WorkerStep(r, w)
      PROVE  TQ!Next
  <2>1. UNCHANGED <<call, sweep>> /\ exposed \subseteq exposed'
    BY <1>4 DEF WorkerStep, Receive, RunSucceeds, RunFails, RemoveTaskFromDb, RemoveFails, watch
  <2>2. CASE RemoveTaskFromDb(r, w)
    <3> DEFINE u == worker[r][w].task
               I == {<<r, u>>}
    <3>1. worker[r][w] \in Consumers /\ worker[r][w].pc = "remove"
      BY <1>0, <2>2 DEF TypeOK, RemoveTaskFromDb
    <3>2. u \in Tasks
      BY <3>1 DEF Consumers, Waiting
    <3>3. owed' = owed \ I /\ exposed' \subseteq exposed \cup I
      BY <2>2 DEF RemoveTaskFromDb
    <3>4. ASSUME NEW q \in Queues, NEW t \in Tasks
          PROVE  /\ Stored(q, t)' => Stored(q, t)
                 /\ <<q, t>> \notin I => (Stored(q, t) => Stored(q, t)')
      <4>1. Held(q, t)' <=> Held(q, t)
        BY <2>1 DEF Held, At
      <4>2. rows[q][t] \in Nat /\ rows'[q][t] = IF q = r /\ t = u THEN 0 ELSE rows[q][t]
        BY <1>0, <2>2 DEF RemoveTaskFromDb, TypeOK
      <4>3. QED
        BY <4>1, <4>2 DEF Stored
    <3>5. I \in SUBSET (Queues \X Tasks)
      BY <3>2
    <3>6. QED
      <4> HIDE DEF I
      <4> QED BY <2>1, <3>3, <3>4, <3>5, FinishStep
  <2>3. CASE ~RemoveTaskFromDb(r, w)
    <3>1. UNCHANGED <<rows, owed>>
      BY <1>4, <2>3 DEF WorkerStep, Receive, RunSucceeds, RunFails, RemoveFails, store, watch
    <3>2. ASSUME NEW q \in Queues, NEW t \in Tasks, Stored(q, t)
          PROVE  Stored(q, t)'
      BY <2>1, <3>1, <3>2 DEF Stored, Held, At
    <3>3. QED
      BY <1>0, <2>1, <3>1, <3>2, StoreStep
  <2>4. QED
    BY <2>2, <2>3
<1>5. CASE SweepStep
  <2>1. exposed \subseteq exposed' /\ owed' = owed
    BY <1>5 DEF SweepStep, SweepBegin, SweepFind, SweepFindFails, SweepDelete, SweepEnqueue,
                SweepSkips, watch
  <2>2. QED
    BY <1>0, <1>5, <2>1, SweepStepStores, StoreStep
<1>6. CASE Crash
  <2>1. exposed \subseteq exposed' /\ owed' = owed
    BY <1>6 DEF Crash
  <2>2. ASSUME NEW q \in Queues, NEW t \in Tasks, <<q, t>> \notin exposed', Stored(q, t)
        PROVE  Stored(q, t)'
    BY <1>6, <2>2 DEF Crash, Stored
  <2>3. QED
    BY <1>0, <2>1, <2>2, StoreStep
<1>7. ASSUME NEW r \in Queues, PurgeQueue(r)
      PROVE  TQ!Next
  <2> DEFINE I == {r} \X Tasks
  <2>1. /\ owed' = owed \ I /\ exposed \subseteq exposed' /\ exposed' \subseteq exposed \cup I
        /\ UNCHANGED <<call, sweep>>
    BY <1>7 DEF PurgeQueue
  <2>2. ASSUME NEW q \in Queues, NEW t \in Tasks
        PROVE  /\ Stored(q, t)' => Stored(q, t)
               /\ <<q, t>> \notin I => (Stored(q, t) => Stored(q, t)')
    <3>1. Held(q, t)' <=> Held(q, t)
      BY <2>1 DEF Held, At
    <3>2. rows[q][t] \in Nat /\ rows'[q][t] = IF q = r THEN 0 ELSE rows[q][t]
      BY <1>0, <1>7 DEF PurgeQueue, TypeOK, NoRows
    <3>3. QED
      BY <3>1, <3>2 DEF Stored
  <2>3. QED
    BY <2>1, <2>2, FinishStep
<1>8. ASSUME StartConsumers \/ \E r \in Queues : RegisterFunction(r)
      PROVE  TQ!Next
  <2>1. UNCHANGED <<rows, call, sweep, owed, exposed>>
    BY <1>8 DEF StartConsumers, RegisterFunction
  <2>2. ASSUME NEW q \in Queues, NEW t \in Tasks, Stored(q, t)
        PROVE  Stored(q, t)'
    BY <2>1, <2>2 DEF Stored, Held, At
  <2>3. QED
    BY <1>0, <2>1, <2>2, StoreStep
<1>9. QED
  BY <1>1, <1>2, <1>3, <1>4, <1>5, <1>6, <1>7, <1>8 DEF Next, Step

(* The in-process queue implements the abstract task queue with the rows and *)
(* what the sweep carries as its store: EnqueueTask, the consumers, the      *)
(* sweep, a crash and a purge do nothing that TaskQueue does not allow.      *)
THEOREM Implements == Spec => ImplementsTaskQueue
<1>1. Init => TQ!Init
  <2> SUFFICES ASSUME Init PROVE TQ!Init
    OBVIOUS
  <2>1. ASSUME NEW q \in Queues, NEW t \in Tasks PROVE ~Stored(q, t)
    BY DEF Init, Stored, Held, At, NoRows, NoSweep, NoCall, Callers
  <2>2. QED
    BY <2>1 DEF Init, Kept, TQ!Init
<1>2. QED
  BY <1>1, InitIInv, NextIInv, StepImplements, PTL DEF Spec, ImplementsTaskQueue, TQ!Spec
=============================================================================
