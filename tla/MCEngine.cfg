SPECIFICATION Spec
CONSTANTS
  Empty = Empty
  w1 = w1
  w2 = w2
  Workers <- TwoWorkers
  TaskQueues <- TwoQueues
  Names <- AllNames
  Namespaces <- SomeSpaces
  Keys <- NoKeys
  Definitions <- ChainOrJoin
  LeaseTTL = 2
  MaxAttempts = 2
  MaxWorkflows = 1
  MaxTime = 3
  MaxRepeats = 1
SYMMETRY WorkerSymmetry
INVARIANTS
  TypeOK FencedAttempts LeaseHolderIsLatestClaim DependenciesFirst
  WorkflowStatusExplained HistoryExplainsStatus CompletionClosesHistory
PROPERTIES
  OnlyLatestClaimAccepted LeaseLasts ImplementsLifecycle
