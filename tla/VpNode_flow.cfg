SPECIFICATION FairSpec
CONSTANTS
  u1 = u1  u2 = u2  f1 = f1  f2 = f2  f3 = f3  c1 = c1
  nullptr = nullptr
  Upstream <- TwoUpstreams
  Frame <- ThreeFrames
  Control <- OneControl
  frame_meta_handle_batch = 2
  Consumed <- NoControl
  Pended <- OneControl
INVARIANTS FrontNeverEmpty WaitAndPopNeverBlocks PopRemovesPushed DeadFlagLast LeavingAfterHandled
PROPERTIES ImplementsChannel DeinitReturns CompleteBatchForwarded
