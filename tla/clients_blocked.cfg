SPECIFICATION FairSpec
CONSTANTS
  NoHandler = NoHandler
  NoCtx = NoCtx
  NoCard = NoCard
  Handler = {h1}
  Request = {r1, r2}
  Ctx = {x1}
  Card = {}
  FallbackPolicy = {{h1}}
  CancelOverlaps = {"status"}
  CoreMayRevoke = FALSE
PROPERTIES DeletedIsNotBlocked
CHECK_DEADLOCK FALSE
