CONSTANTS
  Workers = {w1, w2}
  Pushers = {p1}
  Timed = {}
  Owner = owner
  Tasks = {x1, x2}
  Queues = {q1}
  Limits = {1}
  NoTask = NoTask
  NoQueue = NoQueue
SPECIFICATION FairSpec
PROPERTY DestructorReturns
CHECK_DEADLOCK FALSE
