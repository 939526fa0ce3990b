SPECIFICATION Spec
CONSTANTS
  Conn = {c1}
  Prompt = {p1}
  Canceller = {}
  Free = Free
  NoTask = NoTask
  Requests = {}
  Impatient = FALSE
  Faults = FALSE
  MaxRequests = 0
  MaxTimeouts = 1
INVARIANT
  TimeoutMarked
CHECK_DEADLOCK FALSE
