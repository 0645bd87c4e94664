SPECIFICATION FairSpec
CONSTANTS
  x1 = x1  x2 = x2  x3 = x3  in = in  out = out  c1 = c1  c2 = c2  e1 = e1
  NoTransfer = NoTransfer  NoDest = NoDest
  Transfer = {x1, x2}
  Dest = {in, out}
  InputDest = {in}
  DestOf <- AllIn
  Timeout <- MCTimeout
  Client = {c1, c2}
  EventLoop = {}
  Sync = {x1, x2}
  Spurious = {}
  PollTime = 5
  Horizon = 1
  Forever = 20
PROPERTIES TimeoutsFire CancellationsComplete WaitersReturn TransfersComplete
CHECK_DEADLOCK FALSE
