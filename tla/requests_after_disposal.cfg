SPECIFICATION Spec
CONSTANTS
  Calls = {c1, c2}
  Bye = Bye
  Junk = Junk
  Create = Create
  Delete = Delete
INVARIANT ChecksHold
CHECK_DEADLOCK FALSE
