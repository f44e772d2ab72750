CONSTANTS
  Workers = {w1, w2}
  Pushers = {p1, p2}
  Timed = {p2}
  Owner = owner
  Tasks = {x1, x2, x3}
  Queues = {q1}
  Limits = {0}
  NoTask = NoTask
  NoQueue = NoQueue
SPECIFICATION FairSpec
PROPERTY QueuedTaskRuns
CHECK_DEADLOCK FALSE
