SPECIFICATION Spec
CONSTANTS
  Waiters = {w1}
INVARIANTS TerminatedBeforeDelete
CHECK_DEADLOCK FALSE
