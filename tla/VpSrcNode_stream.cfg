SPECIFICATION FairSpec
CONSTANTS
  c1 = c1
  nullptr = nullptr
  MaxFrames = 3
  Frame <- Indexes
  Control <- OneControl
INVARIANTS ProcessedBeforeLeaving SourceOrder StopTakesEffect GateNoLostWakeup
PROPERTIES FrameForwarded DestructorReturnsInTime
CHECK_DEADLOCK FALSE
