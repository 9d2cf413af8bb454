-------------------------- MODULE RemoteTaskQueue --------------------------
(***************************************************************************)
(* The task queue of task_queue/remote_task_queue.go, whose messages live  *)
(* in Redis lists or in the queues of an AMQP broker. Each command sent to *)
(* Redis or to the broker is a step; the steps of all goroutines of the    *)
(* process interleave. Redis and the broker are not under src/: they are   *)
(* modelled from the commands used here, and keep what they acknowledged.  *)
(***************************************************************************)
EXTENDS Naturals, FiniteSets, Sequences, SequencesExt

CONSTANTS
  Queues,      (* queue names                                              *)
  Tasks,       (* task bodies: two equal arguments are the same task       *)
  Enqueuers,   (* goroutines that call EnqueueTask                         *)
  Workers,     (* consumer goroutines of each queue                        *)
  AmqpWorker,  (* the one of them that an AMQP broker serves: all consumers *)
               (* of a queue share a tag, which a broker accepts once      *)
  MaxLength,   (* bound of the model on the messages of one queue          *)
  NoTask,
  NoQueue

ASSUME AmqpWorkerAssumption == AmqpWorker \in Workers
ASSUME MaxLengthAssumption == MaxLength \in Nat \ {0}
ASSUME NoTaskAssumption == NoTask \notin Tasks
ASSUME NoQueueAssumption == NoQueue \notin Queues

VARIABLES
  queueType,   (* "redis" or "amqp", fixed when the client is made         *)
  list,        (* per queue, the messages ready for delivery; Head is next *)
  processing,  (* redis: the "_processing" list, newest first;             *)
               (* amqp: delivered and not acknowledged, newest first       *)
  registered,  (* the keys of queueToFunctionMapping                       *)
  started,     (* StartConsumers has been called                           *)
  consuming,   (* queues whose consumers receive                           *)
  link,        (* the AMQP connection and the channel of the client        *)
  leaked,      (* a read lock of the mapping was never released            *)
  purge,       (* the queue whose Redis lists an operator is deleting      *)
  call,        (* per goroutine, the EnqueueTask call it is in             *)
  worker,      (* per queue and worker, what the consumer is doing         *)
  (* Observation only; no action reads them. *)
  owed,        (* accepted by EnqueueTask, not finished since              *)
  waived       (* met one of the windows listed at Kept                    *)

setup  == <<queueType, registered, started, leaked, purge>>
broker == <<list, processing>>
watch  == <<owed, waived>>
vars   == <<queueType, list, processing, registered, started, consuming, link, leaked, purge,
            call, worker, owed, waived>>

QueueTypes == {"redis", "amqp"}
NoCall     == [pc |-> "idle", queue |-> NoQueue, task |-> NoTask]
Calls      == {NoCall} \cup [pc : {"connect", "channel", "push"}, queue : Queues, task : Tasks]
(* begun: accepted before this run began, so that its success finishes it.  *)
(* live: the delivery can still be acknowledged.                            *)
Waiting    == [pc |-> "wait", task |-> NoTask, begun |-> FALSE, live |-> FALSE]
Consumers  == {Waiting} \cup [pc : {"run", "done", "failed", "push"}, task : Tasks,
                              begun : BOOLEAN, live : BOOLEAN]
Fresh      == [connection |-> FALSE, channel |-> FALSE]

(* A failed task between the consumer's LRem and its LPush. *)
Held(q, t) == \E w \in Workers : worker[q][w].pc = "push" /\ worker[q][w].task = t

(* Another consumer is running an equal body. *)
RunElsewhere(q, w, t) == \E v \in Workers \ {w} : /\ worker[q][v].pc \in {"run", "done", "failed"}
                                                 /\ worker[q][v].task = t

-----------------------------------------------------------------------------

Init ==
  /\ queueType \in QueueTypes
  /\ list = [q \in Queues |-> <<>>]
  /\ processing = [q \in Queues |-> <<>>]
  /\ registered = {}
  /\ started = FALSE
  /\ consuming = {}
  /\ link = Fresh
  /\ leaked = FALSE
  /\ purge = NoQueue
  /\ call = [c \in Enqueuers |-> NoCall]
  /\ worker = [q \in Queues |-> [w \in Workers |-> Waiting]]
  /\ owed = {}
  /\ waived = {}

(* RegisterFunction: the write lock, the connection, the declaration of the  *)
(* queue. It returns an error, which ends the process, when one fails.       *)
RegisterFunction(q) ==
  /\ q \notin registered
  /\ ~leaked
  /\ queueType = "amqp" /\ link.connection => link.channel
  /\ registered' = registered \cup {q}
  /\ link' = IF queueType = "amqp" THEN [connection |-> TRUE, channel |-> TRUE] ELSE link
  /\ UNCHANGED <<queueType, broker, started, consuming, leaked, purge, call, worker, watch>>

(* Defect: consumers of all queues, before their functions are registered.   *)
StartConsumersEarly ==
  /\ ~started
  /\ started' = TRUE
  /\ consuming' = Queues
  /\ UNCHANGED <<queueType, registered, broker, link, leaked, purge, call, worker, watch>>

(* StartConsumers, once all queues are registered (worker/init.go).          *)
StartConsumers ==
  /\ ~started
  /\ registered = Queues
  /\ queueType = "amqp" => link.connection /\ link.channel
  /\ started' = TRUE
  /\ consuming' = registered
  /\ UNCHANGED <<queueType, registered, broker, link, leaked, purge, call, worker, watch>>

-----------------------------------------------------------------------------
(* EnqueueTask, the steps of one call *)

Return(c) == call' = [call EXCEPT ![c] = NoCall]

(* An unregistered queue: the error is returned with the read lock held. *)
EnqueueUnregistered(c, q) ==
  /\ call[c] = NoCall
  /\ q \notin registered
  /\ leaked' = TRUE
  /\ UNCHANGED <<queueType, registered, broker, started, consuming, link, purge, call, worker,
                 watch>>

BeginEnqueue(c, q, t) ==
  /\ call[c] = NoCall
  /\ q \in registered
  /\ call' = [call EXCEPT ![c] =
                [pc |-> IF queueType = "redis" THEN "push" ELSE "connect",
                 queue |-> q, task |-> t]]
  /\ UNCHANGED <<setup, broker, consuming, link, worker, watch>>

(* establishConnection returns early when the connection is open, whatever   *)
(* became of its channel; otherwise it dials.                                *)
AlreadyConnected(c) ==
  /\ call[c].pc = "connect"
  /\ link.connection
  /\ call' = [call EXCEPT ![c].pc = "push"]
  /\ UNCHANGED <<setup, broker, consuming, link, worker, watch>>

Dial(c) ==
  /\ call[c].pc = "connect"
  /\ ~link.connection
  /\ \/ /\ link' = [link EXCEPT !.connection = TRUE]
        /\ call' = [call EXCEPT ![c].pc = "channel"]
     \/ UNCHANGED link /\ Return(c)
  /\ UNCHANGED <<setup, broker, consuming, worker, watch>>

(* ... and opens a channel; when that fails the connection stays set.        *)
OpenChannel(c) ==
  /\ call[c].pc = "channel"
  /\ \/ /\ link.connection
        /\ link' = [link EXCEPT !.channel = TRUE]
        /\ call' = [call EXCEPT ![c].pc = "push"]
     \/ UNCHANGED link /\ Return(c)
  /\ UNCHANGED <<setup, broker, consuming, worker, watch>>

(* What counts for MaxLength: the copies of messages, those included that a  *)
(* failed run may add.                                                       *)
Copies(q) == Len(list[q]) + Len(processing[q])
             + Cardinality({w \in Workers : worker[q][w].pc \in {"failed", "push"}})

(* Where a new message goes: RPush adds at the end that BLMove takes from.   *)
Pushed(q, t) == IF queueType = "redis" THEN <<t>> \o list[q] ELSE Append(list[q], t)

(* What is accepted while a consumer runs an equal body is not done by it.   *)
Overtaken(q, t) == [worker EXCEPT ![q] = [w \in Workers |->
                      IF @[w].task = t THEN [@[w] EXCEPT !.begun = FALSE] ELSE @[w]]]

Reachable == queueType = "redis" \/ (link.connection /\ link.channel)

(* RPush, or a publish the broker confirms: EnqueueTask returns nil.         *)
Push(c) ==
  LET q == call[c].queue
      t == call[c].task
  IN  /\ call[c].pc = "push"
      /\ Reachable
      /\ Copies(q) < MaxLength
      /\ list' = [list EXCEPT ![q] = Pushed(q, t)]
      /\ Return(c)
      /\ worker' = Overtaken(q, t)
      /\ owed' = owed \cup {<<q, t>>}
      /\ UNCHANGED <<setup, processing, consuming, link, waived>>

(* An error is returned, whether or not the message arrived.                 *)
PushFails(c) ==
  LET q == call[c].queue
      t == call[c].task
  IN  /\ call[c].pc = "push"
      /\ \/ UNCHANGED list
         \/ /\ Reachable /\ Copies(q) < MaxLength
            /\ list' = [list EXCEPT ![q] = Pushed(q, t)]
      /\ Return(c)
      /\ UNCHANGED <<setup, processing, consuming, link, worker, watch>>

CallStep(c) == \/ AlreadyConnected(c) \/ Dial(c) \/ OpenChannel(c)
               \/ Push(c) \/ PushFails(c)
-----------------------------------------------------------------------------
(* The loop of one consumer: listenForTasksUsingRQ, listenForTasksUsingAMQP *)

(* BLMove, or a delivery. *)
Receive(q, w) ==
  /\ q \in consuming
  /\ queueType = "amqp" => w = AmqpWorker
  /\ worker[q][w] = Waiting
  /\ list[q] # <<>>
  /\ worker' = [worker EXCEPT ![q][w] =
                  [pc |-> "run", task |-> Head(list[q]), begun |-> TRUE, live |-> TRUE]]
  /\ list' = [list EXCEPT ![q] = Tail(@)]
  /\ processing' = [processing EXCEPT ![q] = <<Head(list[q])>> \o @]
  /\ UNCHANGED <<setup, consuming, link, call, watch>>

Run(q, w, outcome) ==
  /\ worker[q][w].pc = "run"
  /\ worker' = [worker EXCEPT ![q][w].pc = outcome]
  /\ UNCHANGED <<setup, broker, consuming, link, call, watch>>

RunSucceeds(q, w) == Run(q, w, "done")
RunFails(q, w)    == Run(q, w, "failed") /\ Copies(q) < MaxLength

(* The run succeeded: what was accepted before it began is finished.         *)
Finished(q, w) == IF worker[q][w].pc = "done" /\ worker[q][w].begun
                  THEN {<<q, worker[q][w].task>>} ELSE {}

(* Defect: a failed task is treated like a finished one.                     *)
RemoveWhateverTheOutcome(q, w) ==
  /\ queueType = "redis"
  /\ worker[q][w].pc \in {"done", "failed"}
  /\ owed' = owed \ Finished(q, w)
  /\ processing' = [processing EXCEPT ![q] = RemoveFirst(@, worker[q][w].task)]
  /\ worker' = [worker EXCEPT ![q][w] = Waiting]
  /\ UNCHANGED <<setup, list, consuming, link, call, waived>>

(* What is left of a list when all messages equal to t are taken out of it.  *)
Without(s, t) ==
  LET stay    == {i \in DOMAIN s : s[i] # t}
      rank(i) == Cardinality({j \in stay : j <= i})
  IN  [n \in 1..Cardinality(stay) |-> s[CHOOSE i \in stay : rank(i) = n]]

(* LRem with count 0, before the outcome is looked at: every equal body goes *)
(* from the processing list, that of another consumer included. The error of *)
(* the command is ignored. A failed task is then in no list.                 *)
RemoveFromProcessing(q, w) ==
  LET t == worker[q][w].task
  IN  /\ queueType = "redis"
      /\ worker[q][w].pc \in {"done", "failed"}
      /\ owed' = owed \ Finished(q, w)
      /\ \/ /\ processing' = [processing EXCEPT ![q] = Without(@, t)]
            /\ waived' = waived \cup (IF RunElsewhere(q, w, t) THEN {<<q, t>>} \cap owed'
                                      ELSE {})
         \/ UNCHANGED <<processing, waived>>
      /\ worker' = IF worker[q][w].pc = "done"
                   THEN [worker EXCEPT ![q][w] = Waiting]
                   ELSE [worker EXCEPT ![q][w].pc = "push"]
      /\ UNCHANGED <<setup, list, consuming, link, call>>

(* LPush of a failed task, to be taken after all others.                     *)
PushBack(q, w) ==
  LET t == worker[q][w].task
  IN  /\ worker[q][w].pc = "push"
      /\ list' = [list EXCEPT ![q] = Append(@, t)]
      /\ worker' = [worker EXCEPT ![q][w] = Waiting]
      /\ UNCHANGED <<setup, processing, consuming, link, call, watch>>

PushBackFails(q, w) ==
  /\ worker[q][w].pc = "push"
  /\ worker' = [worker EXCEPT ![q][w] = Waiting]
  /\ waived' = waived \cup {<<q, worker[q][w].task>>}
  /\ UNCHANGED <<setup, broker, consuming, link, call, owed>>

(* Ack, or Nack with requeue: the broker puts the message back where it was. *)
(* On a delivery of a closed channel both fail, and the error is logged.     *)
Acknowledge(q, w) ==
  LET t == worker[q][w].task
  IN  /\ queueType = "amqp"
      /\ worker[q][w].pc \in {"done", "failed"}
      /\ owed' = owed \ Finished(q, w)
      /\ worker' = [worker EXCEPT ![q][w] = Waiting]
      /\ IF worker[q][w].live
         THEN /\ processing' = [processing EXCEPT ![q] = RemoveFirst(@, t)]
              /\ list' = IF worker[q][w].pc = "failed"
                         THEN [list EXCEPT ![q] = <<t>> \o @] ELSE list
         ELSE UNCHANGED broker
      /\ UNCHANGED <<setup, consuming, link, call, waived>>

WorkerStep(q, w) == \/ Receive(q, w) \/ RunSucceeds(q, w) \/ RunFails(q, w)
                    \/ RemoveFromProcessing(q, w) \/ PushBack(q, w) \/ PushBackFails(q, w)
                    \/ Acknowledge(q, w)

-----------------------------------------------------------------------------

(* Defect: the two lists of LMove are swapped.                               *)
SweepMovesBackwards(q) ==
  /\ queueType = "redis"
  /\ q \in registered
  /\ list[q] # <<>>
  /\ list' = [list EXCEPT ![q] = Tail(@)]
  /\ processing' = [processing EXCEPT ![q] = <<Head(list[q])>> \o @]
  /\ UNCHANGED <<setup, consuming, link, call, worker, watch>>

(* EnqueueProcessingQueueExpiredTask moves one message of each queue, the    *)
(* oldest that is being processed, whether or not a consumer runs it.        *)
SweepMove(q) ==
  /\ queueType = "redis"
  /\ q \in registered
  /\ processing[q] # <<>>
  /\ processing' = [processing EXCEPT ![q] = Front(@)]
  /\ list' = [list EXCEPT ![q] = Append(@, Last(processing[q]))]
  /\ UNCHANGED <<setup, consuming, link, call, worker, watch>>

(* PurgeQueue, by the operator's command line: two commands with Redis; the  *)
(* messages that a broker has delivered stay.                                *)
PurgeList(q) ==
  /\ purge = NoQueue
  /\ list' = [list EXCEPT ![q] = <<>>]
  /\ purge' = IF queueType = "redis" THEN q ELSE NoQueue
  /\ owed' = owed \ ({q} \X ToSet(list[q]))
  /\ UNCHANGED <<queueType, registered, started, leaked, processing, consuming, link, call,
                 worker, waived>>

PurgeProcessing ==
  /\ purge # NoQueue
  /\ \/ /\ processing' = [processing EXCEPT ![purge] = <<>>]
        /\ owed' = owed \ ({purge} \X ToSet(processing[purge]))
     \/ UNCHANGED <<processing, owed>>
  /\ purge' = NoQueue
  /\ UNCHANGED <<queueType, registered, started, leaked, list, consuming, link, call, worker,
                 waived>>

(* What the broker does with deliveries whose channel is gone. *)
Redelivered == [q \in Queues |-> Reverse(processing[q]) \o list[q]]

(* The connection, or only its channel, is closed by the broker (a delivery  *)
(* that is not acknowledged in time closes the channel). The consumers' loop *)
(* ends with its channel, and nothing starts it again.                       *)
ConnectionLost ==
  /\ queueType = "amqp"
  /\ link.connection /\ link.channel
  /\ link' \in {Fresh, [link EXCEPT !.channel = FALSE]}
  /\ list' = Redelivered
  /\ processing' = [q \in Queues |-> <<>>]
  /\ consuming' = {}
  /\ worker' = [q \in Queues |-> [w \in Workers |->
                  [worker[q][w] EXCEPT !.live = FALSE]]]
  /\ UNCHANGED <<setup, call, watch>>

(* The process dies and starts again; Redis and the broker go on.            *)
Crash ==
  /\ registered' = {}
  /\ started' = FALSE
  /\ consuming' = {}
  /\ link' = Fresh
  /\ leaked' = FALSE
  /\ call' = [c \in Enqueuers |-> NoCall]
  /\ worker' = [q \in Queues |-> [w \in Workers |-> Waiting]]
  /\ IF queueType = "amqp"
     THEN list' = Redelivered /\ processing' = [q \in Queues |-> <<>>]
     ELSE UNCHANGED broker
  /\ waived' = waived \cup {p \in Queues \X Tasks : Held(p[1], p[2])}
  /\ UNCHANGED <<queueType, purge, owed>>

Step == \/ \E q \in Queues : RegisterFunction(q) \/ SweepMove(q)
        \/ StartConsumers
        \/ \E c \in Enqueuers, q \in Queues : EnqueueUnregistered(c, q)
        \/ \E c \in Enqueuers, q \in Queues, t \in Tasks : BeginEnqueue(c, q, t)
        \/ \E c \in Enqueuers : CallStep(c)
        \/ \E q \in Queues, w \in Workers : WorkerStep(q, w)

Trouble == ConnectionLost \/ Crash

Next == Step \/ Trouble \/ PurgeProcessing \/ \E q \in Queues : PurgeList(q)

Spec == Init /\ [][Next]_vars

(* Goroutines that can run do run, the cron goroutine sweeps for ever, and   *)
(* no task fails every time it is tried.                                     *)
Of(q, w, t, A) == worker[q][w].task = t /\ A
Fairness ==
  /\ \A c \in Enqueuers : WF_vars(CallStep(c))
  /\ \A q \in Queues :
       /\ WF_vars(RegisterFunction(q))
       /\ SF_vars(SweepMove(q))
       /\ \A w \in Workers :
            /\ WF_vars(WorkerStep(q, w))
            /\ \A t \in Tasks : SF_vars(Of(q, w, t, RunSucceeds(q, w)))
  /\ WF_vars(StartConsumers)

-----------------------------------------------------------------------------

(* Every variable has its shape. *)
TypeOK ==
  /\ queueType \in QueueTypes
  /\ list \in [Queues -> Seq(Tasks)] /\ processing \in [Queues -> Seq(Tasks)]
  /\ registered \subseteq Queues /\ consuming \subseteq registered
  /\ started \in BOOLEAN /\ leaked \in BOOLEAN
  /\ link \in [connection : BOOLEAN, channel : BOOLEAN]
  /\ purge \in Queues \cup {NoQueue}
  /\ call \in [Enqueuers -> Calls]
  /\ worker \in [Queues -> [Workers -> Consumers]]
  /\ owed \subseteq Queues \X Tasks
  /\ waived \subseteq Queues \X Tasks

(* Where a task is found again: a list of Redis, a queue of the broker, or   *)
(* the consumer that is about to push it back. What is waived met one of     *)
(* these windows: its body was removed from the processing list by a         *)
(* consumer with an equal body, or its consumer died, or got an error, when  *)
(* it pushed it back.                                                        *)
Stored(q, t) == Contains(list[q], t) \/ Contains(processing[q], t) \/ Held(q, t)
Kept == {p \in Queues \X Tasks : Stored(p[1], p[2])}

TQ == INSTANCE TaskQueue WITH Items <- Queues \X Tasks, kept <- Kept

(* The remote queue keeps the promise of a task queue: EnqueueTask returns   *)
(* nil for what is stored, and only a successful run or a purge takes it.    *)
ImplementsTaskQueue == TQ!Spec

(* Completion: what EnqueueTask accepted is run to success in the end, or it *)
(* met a window. A broker that closed the channel strands the queue: nothing *)
(* consumes again before the process is restarted.                           *)
AcceptedIsFinished ==
  \A q \in Queues, t \in Tasks :
    <<q, t>> \in owed ~>
                        \/ <<q, t>> \notin owed \/ <<q, t>> \in waived
                        \/ (queueType = "amqp" /\ q \notin consuming)
                        \/ leaked
=============================================================================
