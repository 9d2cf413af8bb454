CONSTANTS
  Queues = {q1}
  Tasks = {t1, t2}
  Enqueuers = {e1, e2}
  Workers = {w1}
  Sweeper = sweeper
  MaxMessages = 1
  NoTask = NoTask
  NoQueue = NoQueue
  MaxCalls = 2
  MaxBreaks = 1
SPECIFICATION MCSpec
INVARIANTS TypeOK Durable
PROPERTIES AcceptedIsFinished ImplementsTaskQueue
