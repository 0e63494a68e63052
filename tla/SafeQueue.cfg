SPECIFICATION FairSpec
CONSTANTS
  p1 = p1  p2 = p2
  k1 = k1  k2 = k2  k3 = k3
  Producer <- Producers
  Consumer <- Consumers
  MaxPushes = 3
INVARIANTS TakenInOrder EveryElementAnnounced
PROPERTIES TimedCallReturns
CHECK_DEADLOCK FALSE
