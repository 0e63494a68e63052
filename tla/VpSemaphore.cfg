SPECIFICATION FairSpec
CONSTANTS
  w1 = w1  w2 = w2  w3 = w3  s1 = s1  s2 = s2
  Waiter <- ThreeWaiters
  Signaler <- TwoSignalers
  MaxCount = 3
INVARIANTS NoLostWakeup
PROPERTIES ImplementsSemaphore
