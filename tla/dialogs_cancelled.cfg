SPECIFICATION Spec
CONSTANTS
 MaxDialogs = 2
 WindowIds = {prompt}
 NoWindowId = NoWindowId
INVARIANT RejectedByUser
CHECK_DEADLOCK FALSE
