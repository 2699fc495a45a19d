CONSTANTS
  A = A
  B = B
  None = None
  End = {A, B}
  Cap = 2
  MaxSent <- OnlyA
  Idle <- Nobody
SPECIFICATION FairSpec
PROPERTIES AcceptedIsRead CloseIsSeen
CHECK_DEADLOCK FALSE
