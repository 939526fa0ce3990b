SPECIFICATION Spec
CONSTANTS
  Conn = {c1, c2}
  Prompt = {p1}
  Canceller = {}
  Free = Free
  NoTask = NoTask
  Requests = {"recover"}
  Impatient = FALSE
  Faults = FALSE
  MaxRequests = 1
  MaxTimeouts = 0
INVARIANT
  LiveIsNotDead
CHECK_DEADLOCK FALSE
