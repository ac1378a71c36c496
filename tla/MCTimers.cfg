SPECIFICATION Spec
CONSTANTS
  Timer = {t1, t2, t3}
  Delays = {0, 1, 2}
  Periods = {0, 2}
  Arity = 4
  MaxLate = 2
  MaxHeap = 10
  Whens = {0, 1, 2}
INVARIANTS NoOversleep WakeOnce HeapOrdered
PROPERTIES DueFires
