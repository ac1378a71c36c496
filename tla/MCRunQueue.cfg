SPECIFICATION Spec
CONSTANTS
  p1 = p1
  p2 = p2
  g1 = g1
  g2 = g2
  g3 = g3
  g4 = g4
  g5 = g5
  g6 = g6
  Ps = {p1, p2}
  Gs = {g1, g2, g3, g4, g5, g6}
  NoG = NoG
  Size = 4
  Wrap = 32
  Preload <- Busy
  MaxPuts <- BusyPuts
  MaxGlob = 2
INVARIANTS OnePlace NoOverflow NoSelfDeadlock
