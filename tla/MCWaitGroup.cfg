SPECIFICATION WGFairSpec
CONSTANTS
  Gs = {g1, g2, g3, g4}
  NoG = NoG
PROPERTIES WaitSawZero AllReleased
