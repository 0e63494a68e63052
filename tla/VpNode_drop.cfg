SPECIFICATION Spec
CONSTANTS
  u1 = u1  u2 = u2  f1 = f1  f2 = f2  f3 = f3  c1 = c1
  nullptr = nullptr
  Upstream <- OneUpstream
  Frame <- TwoFrames
  Control <- OneControl
  frame_meta_handle_batch = 2
  Consumed <- OneControl
  Pended <- NoControl
INVARIANTS FrameFifo
