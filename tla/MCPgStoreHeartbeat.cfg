SPECIFICATION Spec
CONSTANTS
  p1 = p1
  p2 = p2
  w1 = w1
  w2 = w2
  NoOwner = NoOwner
  Sessions <- TwoSessions
  Workers <- OneWorker
  Workflows <- OneWorkflow
  Plan <- Single
  Serves <- AnyQueue
  LeaseTTL = 2000
  MaxTime = 3
  MaxEvents = 6
  MaxAborts = 0
SYMMETRY SessionSymmetry
PROPERTIES
  HeartbeatExtends
