SPECIFICATION FairSpec
CONSTANTS
  Threads = {m1, m2, m3, m4}
  NoOwner = NoOwner
  ActiveSpin = 1
INVARIANTS MutualExclusion NoLostWakeup
PROPERTIES Refinement AllServed
