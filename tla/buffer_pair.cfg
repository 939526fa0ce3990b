SPECIFICATION Spec
CONSTANTS
  Msg = {m1, m2, m3, m4}
  Marker = {k1}
  Remover = {r1}
  Deleter = {d1}
  Reader = {q1}
  After = {0, 1}
  Kinds = {"text", "file", "ask", "cancelled"}
  MaxHistory = 2
  ResyncGap = 100
  MaxCalls = 2
  MaxBufs = 1
  MaxCrashes = 1
ACTION_CONSTRAINT OneParty
SYMMETRY Symmetry
INVARIANTS
  NothingLost
  ReplayOrder
  CounterAhead
  FreshHistoryComplete
  StatusAgrees
  DoneIsTerminal
PROPERTIES
  ImplementsLog
  IndexStable
CHECK_DEADLOCK FALSE
