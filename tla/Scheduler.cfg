\* Two experts, two workers, two tasks of two priorities.
CONSTANTS
  a = a
  b = b
  w1 = w1
  w2 = w2
  NoExpert = NoExpert
  Expert = {a, b}
  Priority = {1, 2}
  Worker = {w1, w2}
  MaxTasks = 2
SPECIFICATION FairSpec
INVARIANTS
  TypeOK
  OneTaskPerExpert
  RunsBounded
  NoOvertaking
  CallbackOnce
PROPERTIES
  TasksLeaveQueue
  CloseEndsWorkers
