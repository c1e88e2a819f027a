SPECIFICATION ReadSpec
CONSTANTS
  p1 = p1
  p2 = p2
  w1 = w1
  w2 = w2
  NoOwner = NoOwner
  Sessions <- OneSession
  Workers <- OneWorker
  Workflows <- OneWorkflow
  Plan <- Chain
  Serves <- AnyQueue
  LeaseTTL = 1000
  MaxTime = 2
  MaxEvents = 5
  MaxAborts = 1
INVARIANTS
  HistoryReachesRows AnswerAgrees DetailFollowsList
