SPECIFICATION FairSpec
CONSTANTS
  Gs = {g1, g2, g3, g4}
  NoG = NoG
  rwmutexMaxReaders = 8
INVARIANTS WriterAlone Drained NoMissedWakeup OneWaker
PROPERTIES WriterServed AllServed
