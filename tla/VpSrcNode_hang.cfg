SPECIFICATION FairSpec
CONSTANTS
  c1 = c1
  nullptr = nullptr
  MaxFrames = 1
  Frame <- Indexes
  Control <- OneControl
PROPERTIES DestructorReturns
CHECK_DEADLOCK FALSE
