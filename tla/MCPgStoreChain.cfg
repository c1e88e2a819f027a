SPECIFICATION Spec
CONSTANTS
  p1 = p1
  p2 = p2
  w1 = w1
  w2 = w2
  NoOwner = NoOwner
  Sessions <- TwoSessions
  Workers <- TwoWorkers
  Workflows <- OneWorkflow
  Plan <- Chain
  Serves <- AnyQueue
  LeaseTTL = 1000
  MaxTime = 2
  MaxEvents = 5
  MaxAborts = 0
SYMMETRY BothSymmetries
INVARIANTS
  TypeOK WorkflowStatusExplained CancelStopsUnstarted
  HistoryExplainsStatus CompletionClosesHistory LeaseHolderIsLatestClaim
PROPERTIES
  OneTransitionAtATime ImplementsLifecycle
