SPECIFICATION ApiSpec
CONSTANTS
  Empty = Empty
  NoOwner = NoOwner
  t1 = t1
  t2 = t2
  c1 = c1
  d1 = d1
  test = test
  op = op
  w1 = w1
  w2 = w2
  w3 = w3
  Workers <- OneWorker
  MayMissClose = TRUE
  WorkflowIds <- OneWorkflow
  Names <- AllNames
  Definitions <- Orders
  LeaseTTL = 1
  MaxTime = 2
  Testers <- TwoTesters
  WorkerFlag <- SharedFlag
  Holding <- OnlyT1
  Clients <- OneClient
  Drivers <- None
  Operator = op
  Submissions <- SameOrder
  FreshKeys <- DriverKeys
  Denied <- None
  MaxRequests <- FewRequests
  MaxFailures = 1
INVARIANTS
  ConflictMeansNotTaken AcknowledgedStands PrintedWasHeld
PROPERTIES
  ConflictIsFinal
