SPECIFICATION CondFairSpec
CONSTANTS
  Gs = {g1, g2, g3}
  NoG = NoG
INVARIANTS SignalsMatched
PROPERTIES SignalReturns
CHECK_DEADLOCK FALSE
