SPECIFICATION Spec
CONSTANTS
  NoHandler = NoHandler
  NoCtx = NoCtx
  NoCard = NoCard
  Handler = {h1, h2}
  Request = {r1, r2}
  Ctx = {x1, x2}
  Card = {k1}
  FallbackPolicy = {}
  CancelOverlaps = {"status"}
  CoreMayRevoke = FALSE
INVARIANTS TypeOK NoCheckFailure Isolation NoLeakedContext
PROPERTIES OnlyOwnerReleases OnlyOwnerInterrupts
CHECK_DEADLOCK FALSE
SYMMETRY HandlerSymmetry
