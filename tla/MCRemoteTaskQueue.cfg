CONSTANTS
  Queues = {q1}
  Tasks = {t1, t2}
  Enqueuers = {e1}
  Workers = {w1, w2}
  AmqpWorker = w1
  MaxLength = 3
  NoTask = NoTask
  NoQueue = NoQueue
  MaxCalls = 2
  MaxTroubles = 1
SPECIFICATION MCSpec
INVARIANTS TypeOK
PROPERTIES ImplementsTaskQueue 
CHECK_DEADLOCK FALSE
