SPECIFICATION Spec
CONSTANTS
  g1 = g1
  g2 = g2
  g3 = g3
  Gs = {g1, g2, g3}
  NoG = NoG
  Chans = {1, 2}
  Cap <- Caps
  MayCall <- Calls
  MaxVals = 3
INVARIANTS ExactlyOnce NeverThrows NobodyForgotten NoLockCircle
PROPERTIES FifoBuffer FastPathHonest
CHECK_DEADLOCK FALSE
