SPECIFICATION FairSpec
CONSTANTS
  p1 = p1
  p2 = p2
  demo = demo
  NoOwner = NoOwner
  Workers <- SharedID
  MayMissClose = TRUE
  Processes <- TwoProcesses
  WorkerID <- AllDemo
  Handled <- PartlyHandled
  Concurrency = 2
  Plan <- ChainAndCycle
  MaxFaults = 1
INVARIANTS
  SlotsAccountedFor CompletedWasExecuted RerunsAreFenced
PROPERTIES
  ReachableSettles AcyclicWorkIsDone ShutdownEnds
