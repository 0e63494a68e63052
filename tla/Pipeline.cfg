SPECIFICATION PipelineSpec
CONSTANTS
  c1 = c1
  nullptr = nullptr
  MaxFrames = 2
  Frame <- Indexes
  Control <- OneControl
INVARIANTS MidHookOrder EndToEndOrder DestroyedUncalled
CHECK_DEADLOCK FALSE
