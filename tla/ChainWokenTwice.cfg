SPECIFICATION Spec
CONSTANTS
  Procs = {p1, p2, p3}
  NoSession = NoSession
  MaxRequests = 1
  Emitted = {}
  MaxEmitted = 0
  Faults = {}
  MaxFaults = 0
SYMMETRY Symmetry
INVARIANT
  WokenOnce
CHECK_DEADLOCK FALSE
