SPECIFICATION Spec
CONSTANTS
  x1 = x1  x2 = x2  x3 = x3  in = in  out = out  c1 = c1  c2 = c2  e1 = e1
  NoTransfer = NoTransfer  NoDest = NoDest
  Transfer = {x1, x2, x3}
  Dest = {in, out}
  InputDest = {in}
  DestOf <- AllIn
  Timeout <- MCTimeout
  Client = {c1}
  EventLoop = {e1}
  Sync = {x1}
  Spurious = {e1}
  PollTime = 1
  Horizon = 1
  Forever = 20
INVARIANTS CancelIsFinal OneCallPerInput NoStrandedInput FifoAnswers
CHECK_DEADLOCK FALSE
