--------------------------- MODULE LocalTaskQueue ---------------------------
(***************************************************************************)
(* The in-process task queue of task_queue/local_task_queue.go and its     *)
(* database copy, task_queue/local_task_queue_persist.go.                  *)
(*                                                                         *)
(* A queue is a buffered Go channel served by NoOfWorkersPerQueue          *)
(* goroutines. Every task is also a row of the enqueued_tasks table, so    *)
(* that a restart, or the hourly sweep of the cron job, can enqueue again  *)
(* what was not finished. No transaction and no lock covers the two: each  *)
(* database statement and each channel operation is a step of its own      *)
(* here, and the steps of all goroutines interleave.                       *)
(***************************************************************************)
EXTENDS Naturals, Sequences

CONSTANTS
  Queues,       (* queue names                                             *)
  Tasks,        (* task bodies: two equal arguments are the same task      *)
  Enqueuers,    (* goroutines that call EnqueueTask                        *)
  Workers,      (* consumer goroutines of each queue                       *)
  Sweeper,      (* the cron goroutine that runs the sweep                  *)
  MaxMessages,  (* maxMessagesPerQueue, the capacity of a channel          *)
  NoTask,
  NoQueue

ASSUME SweeperAssumption == Sweeper \notin Enqueuers
ASSUME CapacityAssumption == MaxMessages \in Nat \ {0}
ASSUME NoTaskAssumption == NoTask \notin Tasks
ASSUME NoQueueAssumption == NoQueue \notin Queues

VARIABLES
  rows,        (* enqueued_tasks: how many rows each queue has per body    *)
  channel,     (* queueToChannelMapping: the buffered channels             *)
  registered,  (* the keys of queueToFunctionMapping                       *)
  consuming,   (* queues whose consumers have been started                 *)
  call,        (* per goroutine, the EnqueueTask call it is in             *)
  worker,      (* per queue and worker, what the consumer is doing         *)
  sweep,       (* progress of EnqueueProcessingQueueExpiredTask            *)
  (* Observation only; no action reads them. *)
  owed,        (* accepted by EnqueueTask, not acknowledged since          *)
  exposed      (* met one of the windows listed at Durable                 *)

store == <<rows, registered, consuming>>
watch == <<owed, exposed>>
vars  == <<rows, channel, registered, consuming, call, worker, sweep, owed, exposed>>

Callers   == Enqueuers \cup {Sweeper}
NoCall    == [pc |-> "idle", queue |-> NoQueue, task |-> NoTask]
Calls     == {NoCall} \cup [pc : {"create", "full", "send"}, queue : Queues, task : Tasks]
Waiting   == [pc |-> "wait", task |-> NoTask]
Consumers == {Waiting} \cup [pc : {"run", "remove"}, task : Tasks]
NoRows    == [t \in Tasks |-> 0]
NoSweep   == [pc |-> "ready", queue |-> NoQueue, left |-> {}, hand |-> NoRows]
Sweeps    == [pc : {"ready"}, queue : {NoQueue}, left : SUBSET Queues, hand : {NoRows}]
             \cup [pc : {"ready", "delete"}, queue : Queues,
                   left : SUBSET Queues, hand : [Tasks -> Nat]]

(* Goroutine c is at one of the given steps of EnqueueTask(q, t). *)
At(c, steps, q, t) == call[c].pc \in steps /\ call[c].queue = q /\ call[c].task = t

(* The sweep has read and deleted the row of t and not yet put it back. *)
Held(q, t) == /\ sweep.pc = "ready"
              /\ \/ sweep.queue = q /\ sweep.hand[t] > 0
                 \/ At(Sweeper, {"create"}, q, t)

(* An EnqueueTask call that relies on a row it has seen or created. *)
InFlight(q, t) == \E c \in Callers : At(c, {"full", "send"}, q, t)

-----------------------------------------------------------------------------

Init ==
  /\ rows = [q \in Queues |-> NoRows]
  /\ channel = [q \in Queues |-> <<>>]
  /\ registered = {}
  /\ consuming = {}
  /\ call = [c \in Callers |-> NoCall]
  /\ worker = [q \in Queues |-> [w \in Workers |-> Waiting]]
  /\ sweep = NoSweep
  /\ owed = {}
  /\ exposed = {}

(* RegisterFunction: an error, and no change, when the queue has a function. *)
RegisterFunction(q) ==
  /\ q \notin registered
  /\ registered' = registered \cup {q}
  /\ channel' = [channel EXCEPT ![q] = <<>>]
  /\ UNCHANGED <<rows, consuming, call, worker, sweep, owed, exposed>>

(* StartConsumers, called once per process: consumers for the queues known by now. *)
StartConsumers ==
  /\ consuming = {}
  /\ consuming' = registered
  /\ UNCHANGED <<rows, channel, registered, call, worker, sweep, owed, exposed>>

-----------------------------------------------------------------------------
(* EnqueueTask, the steps of one call *)

(* Defect: the existence query forgets the hash, any row of the queue counts. *)
ExistsAnyInDb(c, q, t) ==
  /\ call[c] = NoCall
  /\ q \in registered
  /\ call' = [call EXCEPT ![c] = [pc |-> IF rows[q] # NoRows THEN "full" ELSE "create",
                                 queue |-> q, task |-> t]]

(* getFunction, then existsTaskInDb: a body that has a row is not inserted again. *)
ExistsTaskInDb(c, q, t) ==
  /\ call[c] = NoCall
  /\ q \in registered
  /\ call' = [call EXCEPT ![c] =
                [pc |-> IF rows[q][t] > 0 THEN "full" ELSE "create", queue |-> q, task |-> t]]

BeginEnqueue(e, q, t) ==
  /\ e \in Enqueuers
  /\ ExistsTaskInDb(e, q, t)
  /\ UNCHANGED <<store, channel, worker, sweep, watch>>

(* db.Create. The insert is exposed when a sweep has read this queue's rows  *)
(* without this one and is about to delete them all.                         *)
AddTaskToDb(c) ==
  LET q == call[c].queue
      t == call[c].task
  IN  /\ call[c].pc = "create"
      /\ rows' = [rows EXCEPT ![q][t] = @ + 1]
      /\ call' = [call EXCEPT ![c].pc = "full"]
      /\ exposed' = exposed \cup
           (IF sweep.pc = "delete" /\ sweep.queue = q /\ sweep.hand[t] = 0
            THEN {<<q, t>>} ELSE {})
      /\ UNCHANGED <<channel, registered, consuming, worker, sweep, owed>>

(* db.Create fails: EnqueueTask returns the error. A sweep only logs it, so  *)
(* the task it had taken out of the table is in no place any more.           *)
AddTaskFails(c) ==
  /\ call[c].pc = "create"
  /\ call' = [call EXCEPT ![c] = NoCall]
  /\ exposed' = exposed \cup
       (IF c = Sweeper THEN {<<call[c].queue, call[c].task>>} ELSE {})
  /\ UNCHANGED <<store, channel, worker, sweep, owed>>

(* len(channel) == maxMessagesPerQueue: "queue is full", and the row stays. *)
RejectWhenFull(c) ==
  /\ call[c].pc = "full"
  /\ Len(channel[call[c].queue]) = MaxMessages
  /\ call' = [call EXCEPT ![c] = NoCall]
  /\ UNCHANGED <<store, channel, worker, sweep, watch>>

PassFullCheck(c) ==
  /\ call[c].pc = "full"
  /\ Len(channel[call[c].queue]) # MaxMessages
  /\ call' = [call EXCEPT ![c].pc = "send"]
  /\ UNCHANGED <<store, channel, worker, sweep, watch>>

(* Defect: the send does not block. *)
SendWithoutRoom(c) ==
  LET q == call[c].queue
      t == call[c].task
  IN  /\ call[c].pc = "send"
      /\ channel' = [channel EXCEPT ![q] = Append(@, t)]
      /\ call' = [call EXCEPT ![c] = NoCall]
      /\ owed' = owed \cup {<<q, t>>}
      /\ UNCHANGED <<store, worker, sweep, exposed>>

(* The channel send blocks while the buffer is full; then EnqueueTask returns nil. *)
Send(c) ==
  LET q == call[c].queue
      t == call[c].task
  IN  /\ call[c].pc = "send"
      /\ Len(channel[q]) < MaxMessages
      /\ channel' = [channel EXCEPT ![q] = Append(@, t)]
      /\ call' = [call EXCEPT ![c] = NoCall]
      /\ owed' = owed \cup {<<q, t>>}
      /\ UNCHANGED <<store, worker, sweep, exposed>>

CallStep(c) == \/ AddTaskToDb(c) \/ AddTaskFails(c)
               \/ RejectWhenFull(c) \/ PassFullCheck(c) \/ Send(c)

-----------------------------------------------------------------------------
(* listenForTasks, the loop of one consumer *)

Receive(q, w) ==
  /\ q \in consuming
  /\ worker[q][w] = Waiting
  /\ channel[q] # <<>>
  /\ worker' = [worker EXCEPT ![q][w] = [pc |-> "run", task |-> Head(channel[q])]]
  /\ channel' = [channel EXCEPT ![q] = Tail(@)]
  /\ UNCHANGED <<store, call, sweep, watch>>

RunSucceeds(q, w) ==
  /\ worker[q][w].pc = "run"
  /\ worker' = [worker EXCEPT ![q][w].pc = "remove"]
  /\ UNCHANGED <<store, channel, call, sweep, watch>>

(* Defect: the row is removed although the function failed. *)
RunFailsAndRemoves(q, w) ==
  /\ worker[q][w].pc = "run"
  /\ rows' = [rows EXCEPT ![q][worker[q][w].task] = 0]
  /\ worker' = [worker EXCEPT ![q][w] = Waiting]
  /\ UNCHANGED <<registered, consuming, channel, call, sweep, watch>>

(* invokeFunction returned an error: it is logged, the task waits in its row. *)
RunFails(q, w) ==
  /\ worker[q][w].pc = "run"
  /\ worker' = [worker EXCEPT ![q][w] = Waiting]
  /\ UNCHANGED <<store, channel, call, sweep, watch>>

(* removeTaskFromDb deletes every row with the body's hash, whoever added it. *)
RemoveTaskFromDb(q, w) ==
  LET t == worker[q][w].task
  IN  /\ worker[q][w].pc = "remove"
      /\ rows' = [rows EXCEPT ![q][t] = 0]
      /\ worker' = [worker EXCEPT ![q][w] = Waiting]
      /\ owed' = owed \ {<<q, t>>}
      /\ exposed' = exposed \cup (IF InFlight(q, t) THEN {<<q, t>>} ELSE {})
      /\ UNCHANGED <<channel, registered, consuming, call, sweep>>

RemoveFails(q, w) ==
  /\ worker[q][w].pc = "remove"
  /\ worker' = [worker EXCEPT ![q][w] = Waiting]
  /\ UNCHANGED <<store, channel, call, sweep, watch>>

WorkerStep(q, w) == \/ Receive(q, w) \/ RunSucceeds(q, w) \/ RunFails(q, w)
                    \/ RemoveTaskFromDb(q, w) \/ RemoveFails(q, w)

-----------------------------------------------------------------------------
(* EnqueueProcessingQueueExpiredTask: at start-up and every hour *)

SweepIdle == sweep.pc = "ready" /\ sweep.hand = NoRows /\ call[Sweeper] = NoCall

SweepBegin ==
  /\ SweepIdle
  /\ sweep.left = {}
  /\ sweep' = [sweep EXCEPT !.left = registered]
  /\ UNCHANGED <<store, channel, call, worker, watch>>

(* getTasksFromDb reads the rows of the next queue of the map, in any order. *)
SweepFind(q) ==
  /\ SweepIdle
  /\ q \in sweep.left
  /\ sweep' = [pc |-> "delete", queue |-> q, left |-> sweep.left \ {q}, hand |-> rows[q]]
  /\ UNCHANGED <<store, channel, call, worker, watch>>

SweepFindFails(q) ==
  /\ SweepIdle
  /\ q \in sweep.left
  /\ sweep' = [sweep EXCEPT !.left = @ \ {q}]
  /\ UNCHANGED <<store, channel, call, worker, watch>>

(* ... and then deletes all rows of that queue; its error is ignored. *)
SweepDelete ==
  /\ sweep.pc = "delete"
  /\ \/ rows' = [rows EXCEPT ![sweep.queue] = NoRows]
     \/ UNCHANGED rows
  /\ sweep' = [sweep EXCEPT !.pc = "ready"]
  /\ UNCHANGED <<channel, registered, consuming, call, worker, watch>>

(* EnqueueTask for each task read, one after the other, in any order. *)
SweepEnqueue(t) ==
  /\ sweep.pc = "ready"
  /\ sweep.hand[t] > 0
  /\ ExistsTaskInDb(Sweeper, sweep.queue, t)
  /\ sweep' = [sweep EXCEPT !.hand[t] = @ - 1]
  /\ UNCHANGED <<store, channel, worker, watch>>

(* The body does not unmarshal, or the existence query fails: logged, next task. *)
SweepSkips(t) ==
  /\ sweep.pc = "ready"
  /\ sweep.hand[t] > 0
  /\ call[Sweeper] = NoCall
  /\ sweep' = [sweep EXCEPT !.hand[t] = @ - 1]
  /\ exposed' = exposed \cup {<<sweep.queue, t>>}
  /\ UNCHANGED <<store, channel, call, worker, owed>>

SweepStep == \/ SweepBegin \/ SweepDelete
             \/ \E q \in Queues : SweepFind(q) \/ SweepFindFails(q)
             \/ \E t \in Tasks : SweepEnqueue(t) \/ SweepSkips(t)

-----------------------------------------------------------------------------

(* PurgeQueue, run by the operator from the command line, deletes rows only. *)
PurgeQueue(q) ==
  /\ rows' = [rows EXCEPT ![q] = NoRows]
  /\ owed' = owed \ ({q} \X Tasks)
  /\ exposed' = exposed \cup {<<q, t>> : t \in {u \in Tasks : InFlight(q, u)}}
  /\ UNCHANGED <<channel, registered, consuming, call, worker, sweep>>

(* The process dies and starts again: only the table survives. What a sweep  *)
(* held at that moment is exposed.                                           *)
Crash ==
  /\ channel' = [q \in Queues |-> <<>>]
  /\ registered' = {}
  /\ consuming' = {}
  /\ call' = [c \in Callers |-> NoCall]
  /\ worker' = [q \in Queues |-> [w \in Workers |-> Waiting]]
  /\ sweep' = NoSweep
  /\ exposed' = exposed \cup {p \in Queues \X Tasks : Held(p[1], p[2])}
  /\ UNCHANGED <<rows, owed>>

Step == \/ \E q \in Queues : RegisterFunction(q)
        \/ StartConsumers
        \/ \E e \in Enqueuers, q \in Queues, t \in Tasks : BeginEnqueue(e, q, t)
        \/ \E c \in Callers : CallStep(c)
        \/ \E q \in Queues, w \in Workers : WorkerStep(q, w)
        \/ SweepStep

Next == Step \/ Crash \/ \E q \in Queues : PurgeQueue(q)

Spec == Init /\ [][Next]_vars

-----------------------------------------------------------------------------

(* The sweeps are an hour apart: one starts only when the consumers have     *)
(* drained what the one before put back.                                     *)
Drained == \A q \in Queues : channel[q] = <<>> /\ \A w \in Workers : worker[q][w] = Waiting
Paced(A) == A /\ (SweepBegin => Drained)

(* Goroutines that can run do run, the cron goroutine never stops sweeping   *)
(* and a process that starts again starts its consumers. Whatever keeps      *)
(* being tried with one task (its handler, each database statement about it) *)
(* does not fail every time.                                                 *)
Of(q, w, t, A) == worker[q][w].task = t /\ A
Fairness ==
  /\ \A q \in Queues : WF_vars(RegisterFunction(q)) /\ SF_vars(SweepFind(q))
  /\ WF_vars(StartConsumers)
  /\ \A c \in Callers : WF_vars(CallStep(c))
  /\ \A t \in Tasks : SF_vars(call[Sweeper].task = t /\ AddTaskToDb(Sweeper))
  /\ \A q \in Queues, w \in Workers :
       /\ WF_vars(WorkerStep(q, w))
       /\ \A t \in Tasks : /\ SF_vars(Of(q, w, t, RunSucceeds(q, w)))
                           /\ SF_vars(Of(q, w, t, RemoveTaskFromDb(q, w)))
  /\ WF_vars(Paced(SweepStep))

-----------------------------------------------------------------------------

(* Every variable has its shape, and no channel holds more than it can       *)
(* (EnqueueTask's len check and the blocking send).                          *)
TypeOK ==
  /\ rows \in [Queues -> [Tasks -> Nat]]
  /\ channel \in [Queues -> Seq(Tasks)]
  /\ \A q \in Queues : Len(channel[q]) <= MaxMessages
  /\ registered \subseteq Queues
  /\ consuming \subseteq Queues
  /\ call \in [Callers -> Calls]
  /\ worker \in [Queues -> [Workers -> Consumers]]
  /\ sweep \in Sweeps
  /\ owed \subseteq Queues \X Tasks
  /\ exposed \subseteq Queues \X Tasks

(* Durability: a task EnqueueTask accepted keeps its row until a consumer    *)
(* has finished it, whatever runs concurrently and whenever the process      *)
(* dies, except while the sweep carries it between its delete and its own    *)
(* EnqueueTask. The tasks left out met a window of the code: inserted        *)
(* between the sweep's read and delete, enqueued again while a consumer or   *)
(* an operator removes the row the call relied on, or carried by a sweep     *)
(* that crashed or could not put it back.                                    *)
Durable ==
  \A q \in Queues, t \in Tasks :
    <<q, t>> \in owed \ exposed => rows[q][t] > 0 \/ Held(q, t)

(* What durability rests on: a call past its database step has a row, or the *)
(* sweep carries it; and what a sweep is about to delete, it has read.       *)
Backed ==
  \A q \in Queues, t \in Tasks :
    <<q, t>> \notin exposed =>
      /\ InFlight(q, t) => rows[q][t] > 0 \/ Held(q, t)
      /\ sweep.pc = "delete" /\ sweep.queue = q /\ rows[q][t] > 0 => sweep.hand[t] > 0

(* What is found again: a row, or what the sweep carries.                    *)
Stored(q, t) == rows[q][t] > 0 \/ Held(q, t)
Kept == {p \in Queues \X Tasks : Stored(p[1], p[2])}

TQ == INSTANCE TaskQueue WITH Items <- Queues \X Tasks, kept <- Kept, waived <- exposed

(* The in-process queue keeps the promise of a task queue: EnqueueTask       *)
(* returns nil for what has a row, and only a consumer that has finished it, *)
(* or a purge, takes the row away for good.                                  *)
ImplementsTaskQueue == TQ!Spec

(* Completion: once EnqueueTask is no longer called and the process stays    *)
(* up, an accepted task is finished, or it met a window: a full channel, a   *)
(* failed execution and a crash are all made good by a later sweep. (When    *)
(* sweeps may follow each other at once, a task can be put back and rejected *)
(* by every one of them, behind a task that each of them revives.)           *)
AcceptedIsFinished ==
  \A q \in Queues, t \in Tasks :
    <<q, t>> \in owed ~> (<<q, t>> \notin owed \/ <<q, t>> \in exposed)
=============================================================================
