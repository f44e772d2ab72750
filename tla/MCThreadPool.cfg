CONSTANTS
  Workers = {w1, w2}
  Pushers = {p1, p2, p3}
  Timed = {p3}
  Owner = owner
  Tasks = {x1, x2, x3, x4}
  Queues = {q1, q2}
  Limits = {0, 1}
  NoTask = NoTask
  NoQueue = NoQueue
SPECIFICATION Spec
INVARIANTS TasksAreServed NoStrandedPusher
PROPERTY ImplementsService
SYMMETRY Symmetry
CHECK_DEADLOCK FALSE
