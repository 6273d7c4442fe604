SPECIFICATION Spec
CONSTANTS
  Nodes = {n1, n2}
  MaxCalls = 2
  Workers = {w1, w2}
  Targets = {{n1}, {n1, n2}, Whole}
  Whole = Whole
  None = None
  MaxTroubles = 1
INVARIANTS TestbedsTypeOK AsAsked NeverStuck JobsKept
PROPERTIES EveryCallEnds
CHECK_DEADLOCK FALSE
