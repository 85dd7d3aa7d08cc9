SPECIFICATION FairSpec
CONSTANTS
  j1 = j1
  j2 = j2
  w1 = w1
  w2 = w2
  p1 = p1
  p2 = p2
  Jobs = {j1, j2}
  JobTypes <- OneType
  TypeOf <- TwoOfOneType
  Instances = {p1, p2}
  Workers = {w1, w2}
  Home <- HomeTwo
  Serves <- ServeOne
  MaxRetries = 2
  FaultSets = {{"push", "zadd", "dlq", "reply", "crash", "status"}, {"rollback", "status", "slow"}, {"slow"}}
INVARIANTS
  TypeOK
  OneCopy
  AttemptsCountRuns
  FinalRowsTrue
  NoLostJob
  RunningHasWorker
PROPERTIES
  FinalRowsStay
  Settles
  ImplementsJobLife
CHECK_DEADLOCK FALSE
