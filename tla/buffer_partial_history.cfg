SPECIFICATION Spec
CONSTANTS
  Msg = {m1, m2, m3}
  Marker = {}
  Remover = {}
  Deleter = {}
  Reader = {q1}
  After = {0, 1}
  Kinds = {"text"}
  MaxHistory = 3
  ResyncGap = 100
  MaxCalls = 2
  MaxBufs = 1
  MaxCrashes = 1
SYMMETRY Symmetry
INVARIANTS
  HistoryComplete
CHECK_DEADLOCK FALSE
