SPECIFICATION Spec
CONSTANTS
  Callers = {c1}
  Deadlines <- MCDeadlines
  Users <- MCUsers
  MaxSeq = 4
CHECK_DEADLOCK FALSE
INVARIANTS NeverThrows NoForgottenWaiter
PROPERTIES TimeoutHonest CloseCompletes
