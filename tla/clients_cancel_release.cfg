SPECIFICATION Spec
CONSTANTS
  NoHandler = NoHandler
  NoCtx = NoCtx
  NoCard = NoCard
  Handler = {h1}
  Request = {r1, r2}
  Ctx = {x1}
  Card = {}
  FallbackPolicy = {{h1}}
  CancelOverlaps = {"status", "release"}
  CoreMayRevoke = FALSE
INVARIANTS NoCheckFailure
CHECK_DEADLOCK FALSE
