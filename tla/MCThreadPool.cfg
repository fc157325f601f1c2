\* Two workers, two producers, a queue of one, with fairness.
SPECIFICATION FairSpec
CONSTANTS
  w1 = w1
  w2 = w2
  p1 = p1
  p2 = p2
  p3 = p3
  Workers <- TwoWorkers
  Producers <- TwoProducers
  Calls = 2
  MaxQueue = 1
INVARIANT TypeOK
INVARIANT JobsConserved
INVARIANT NoLostWakeup
PROPERTY IdleMeansDone
PROPERTY AcceptedRuns
PROPERTY CallsReturn
CHECK_DEADLOCK FALSE
