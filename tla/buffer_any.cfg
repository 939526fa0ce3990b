SPECIFICATION Spec
CONSTANTS
  Msg = {m1, m2, m3, m4}
  Marker = {}
  Remover = {r1}
  Deleter = {d1}
  Reader = {}
  After = {0}
  Kinds = {"file", "stream"}
  MaxHistory = 2
  ResyncGap = 100
  MaxCalls = 3
  MaxBufs = 2
  MaxCrashes = 1
SYMMETRY Symmetry
INVARIANTS
  TypeOK
  Agreement
CHECK_DEADLOCK FALSE
