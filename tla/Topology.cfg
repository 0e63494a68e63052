SPECIFICATION FairSpec
CONSTANTS
  s = s  a = a  b = b  dispatch = dispatch  speak = speak  f1 = f1  c1 = c1
  Node <- Nodes
  Src <- SrcNodes
  Des <- NoNodes
  Pusher <- Pushers
  PusherNode <- PushersOf
  Meta <- Metas
  MetasOf <- Pushes
  AttachLists <- Lists
  MaxLinks = 3
INVARIANTS SameOrder LinksAgree RecursionIsolates
PROPERTIES DetachedGetsNothing PushReachesAll CallsReturn
