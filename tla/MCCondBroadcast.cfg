SPECIFICATION CondSpec
CONSTANTS
  Gs = {g1, g2, g3}
  NoG = NoG
INVARIANTS BroadcastWakesAll
CHECK_DEADLOCK FALSE
