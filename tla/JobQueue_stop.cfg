SPECIFICATION Spec
CONSTANTS
  p1 = p1  p2 = p2  c1 = c1  c2 = c2  j1 = j1  j2 = j2  j3 = j3  j4 = j4  j5 = j5  j6 = j6
  Producer <- TwoProducers
  Consumer <- TwoConsumers
  Job <- SixJobs
  Batch <- OneTwoThree
  FetchSize <- OneOrTwo
  max_size_ = 3
  warn_size_ = 2
INVARIANTS StopHandlesAll
