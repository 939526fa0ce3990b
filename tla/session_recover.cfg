SPECIFICATION FairSpec
CONSTANTS
  Conn = {c1}
  Prompt = {p1}
  Canceller = {}
  Free = Free
  NoTask = NoTask
  Requests = {"recover"}
  Impatient = FALSE
  Faults = FALSE
  MaxRequests = 1
  MaxTimeouts = 0
PROPERTY
  RecoverExits
CHECK_DEADLOCK FALSE
