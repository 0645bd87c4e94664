SPECIFICATION Spec
CONSTANTS
  MaxMessages = 2
  Requests = {r1, r2, r3}
  Contexts = {x1, x2}
  Handles = {h1}
  Nothing = Nothing
  Pages = {"/_generated_background_page.html", "/window.html"}
  Capacity = 3
  MaxLogs = 5
  Window = 2
  MaxTime = 4
  MaxReloads = 3
  Objects = {b1, b2}
  MaxItems = 2
  MaxDialogs = 2
  WindowIds = {prompt}
  NoWindowId = NoWindowId
  MaxChanges = 2
  MaxSent = 2
  SCardContexts = {x1, x2}
  NoContext = NoContext
  Readers = {reader}
  MaxTests = 3
  Connections = {n1, n2}
  ClientOrigins = {o1}
  NullOrigin = NullOrigin
  NoConnection = NoConnection
  MaxPolicies = 2
  Sessions = {s1, s2}
  MaxRequests = 1
  Nobody = Nobody
INVARIANTS SettledForReason SocketsFaithful MessagesInOrder NoHandleLost DumpsFaithful NoReloadLoop AnswerIsOwn WindowCurrent
PROPERTIES LoadingEnds RequestsReported
CHECK_DEADLOCK FALSE
