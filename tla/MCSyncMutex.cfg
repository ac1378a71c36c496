SPECIFICATION FairSpec
CONSTANTS
  Gs = {g1, g2, g3}
  NoG = NoG
INVARIANTS MutualExclusion NoLostWakeup
PROPERTIES Refinement AllServed
