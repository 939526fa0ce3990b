SPECIFICATION Spec
CONSTANTS
  Conn = {c1}
  Prompt = {p1, p2}
  Canceller = {}
  Free = Free
  NoTask = NoTask
  Requests = {}
  Impatient = FALSE
  Faults = FALSE
  MaxRequests = 0
  MaxTimeouts = 0
INVARIANT
  PromptRecorded
CHECK_DEADLOCK FALSE
