SPECIFICATION FairSpec
CONSTANTS
  Conn = {c1, c2}
  Prompt = {p1, p2}
  Canceller = {}
  Free = Free
  NoTask = NoTask
  Requests = {"resume"}
  Impatient = FALSE
  Faults = FALSE
  MaxRequests = 1
  MaxTimeouts = 0

  
PROPERTIES
  LockPassesOn
  
CHECK_DEADLOCK FALSE
