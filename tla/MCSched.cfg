SPECIFICATION Spec
CONSTANTS
  Ms = {m1, m2, m3}
  Sysmon = sysmon
  NP = 2
  NG = 2
  Size = 2
SYMMETRY Symmetry
INVARIANTS NeverThrows OneOwner StopReaches NoStranded WorkConserving
CHECK_DEADLOCK FALSE
