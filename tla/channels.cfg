SPECIFICATION PartSpec
CONSTANTS
  Timeout = 5
  Interval = 2
  Delay = 1
  MaxPages = 2
  Calls = {c1, c2}
  Bye = Bye
  Junk = Junk
  Create = Create
  Delete = Delete
  Jobs = {j1, j2, j3}
INVARIANTS LiveEndsKept JobsInOrder NoJobStranded
PROPERTIES PongEstablishes DepartedNoticed CallsImplemented CallsSettle
CHECK_DEADLOCK FALSE
