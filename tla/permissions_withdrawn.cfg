SPECIFICATION Spec
CONSTANTS
  Connections = {n1, n2}
  Origins = {o1}
  NullOrigin = NullOrigin
  NoConnection = NoConnection
  MaxPolicies = 2
PROPERTIES CriteriaHold
CHECK_DEADLOCK FALSE
