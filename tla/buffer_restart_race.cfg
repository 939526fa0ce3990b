SPECIFICATION Spec
CONSTANTS
  Msg = {m1, m2}
  Marker = {}
  Remover = {}
  Deleter = {}
  Reader = {}
  After = {0}
  Kinds = {"text"}
  MaxHistory = 2
  ResyncGap = 100
  MaxCalls = 2
  MaxBufs = 2
  MaxCrashes = 0
SYMMETRY Symmetry
INVARIANTS
  NothingLost
CHECK_DEADLOCK FALSE
