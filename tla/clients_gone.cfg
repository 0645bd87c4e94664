SPECIFICATION FairSpec
CONSTANTS
  NoHandler = NoHandler
  NoCtx = NoCtx
  NoCard = NoCard
  Handler = {h1}
  Request = {r1, r2}
  Ctx = {x1}
  Card = {k1, k2}
  FallbackPolicy = {{h1}}
  CancelOverlaps = {}
  CoreMayRevoke = TRUE
INVARIANTS NoLeakedHandle
PROPERTIES CancelUnblocks DeletedIsReleased ShutDownEnds
CHECK_DEADLOCK FALSE
