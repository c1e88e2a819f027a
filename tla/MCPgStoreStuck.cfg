SPECIFICATION Spec
CONSTANTS
  p1 = p1
  p2 = p2
  w1 = w1
  w2 = w2
  NoOwner = NoOwner
  Sessions <- TwoSessions
  Workers <- OneWorker
  Workflows <- OneWorkflow
  Plan <- Parallel
  Serves <- AnyQueue
  LeaseTTL = 1000
  MaxTime = 1
  MaxEvents = 6
  MaxAborts = 0
SYMMETRY SessionSymmetry
INVARIANTS
  NoStuckWorkflow
