SPECIFICATION ApiSpec
CONSTANTS
  Empty = Empty
  NoOwner = NoOwner
  t1 = t1
  t2 = t2
  c1 = c1
  d1 = d1
  test = test
  op = op
  w1 = w1
  w2 = w2
  w3 = w3
  Workers <- OneWorker
  MayMissClose = TRUE
  WorkflowIds <- SomeFlows
  Names <- AllNames
  Definitions <- Catalogue
  LeaseTTL = 1
  MaxTime = 1
  Testers <- OnlyT1
  WorkerFlag <- SharedFlag
  Holding <- OnlyT1
  Clients <- TwoClients
  Drivers <- OneDriver
  Operator = op
  Submissions <- AnyOrder
  FreshKeys <- DriverKeys
  Denied <- OnlyT1
  MaxRequests <- StartRequests
  MaxFailures = 1
SYMMETRY Interchangeable
INVARIANTS
  StartsAgree
