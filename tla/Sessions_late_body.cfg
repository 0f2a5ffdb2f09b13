\* No fault at all: the user signs out while the body of a renewal's answer is read.
SPECIFICATION Spec
CONSTANTS
  Users = {ann, bob}
  Calls = {c1}
  Handlers = {h1, h2}
  None = none
  MaxTokens = 4
  MaxFaults = 0
  MaxBoth = 4
CHECK_DEADLOCK FALSE
INVARIANT
  SessionIsTheSignedInUsers
