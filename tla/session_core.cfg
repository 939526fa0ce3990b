SPECIFICATION Spec
CONSTANTS
  Conn = {c1, c2}
  Prompt = {p1, p2, p3}
  Canceller = {k1}
  Free = Free
  NoTask = NoTask
  Requests = {"recover", "resume", "close"}
  Impatient = TRUE
  Faults = TRUE
  MaxRequests = 1
  MaxTimeouts = 1
SYMMETRY Symmetry
INVARIANTS
  TypeOK
  ActiveIsLive
  RecordedBeforeRun
CHECK_DEADLOCK FALSE
