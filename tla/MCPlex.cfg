CONSTANTS
  A = A
  B = B
  None = None
  End = {A, B}
  Cap = 3
  MaxSent <- MostlyA
  Idle <- Half
SPECIFICATION Spec
INVARIANTS TypeOK NoLostWake NoLostUnlock
PROPERTIES ImplementsClosablePipe
CHECK_DEADLOCK FALSE
