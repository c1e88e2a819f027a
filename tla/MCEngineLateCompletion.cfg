SPECIFICATION Spec
CONSTANTS
  Empty = Empty
  w1 = w1
  w2 = w2
  Workers <- TwoWorkers
  TaskQueues <- AnyQueue
  Names <- AllNames
  Namespaces <- SomeSpaces
  Keys <- NoKeys
  Definitions <- Chain
  LeaseTTL = 1
  MaxAttempts = 2
  MaxWorkflows = 1
  MaxTime = 4
  MaxRepeats = 1
SYMMETRY WorkerSymmetry
PROPERTY LateCompletionRecorded
