CONSTANTS
  Stream = {s1, s2}
  DEFAULT_CREDIT = 3
  max_num_streams = 2
  max_connection_receive_window = 10
  U32_MAX = 6
  USIZE_MAX = 10
SPECIFICATION Spec
INVARIANTS TypeOK CreditConserved NeverAccused ControllerInvariants NoOverflow ConnectionWindowBound
PROPERTIES ImplementsBoundedPipe
CHECK_DEADLOCK FALSE
