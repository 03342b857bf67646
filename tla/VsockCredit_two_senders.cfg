SPECIFICATION Spec
CONSTANTS
  t1 = t1
  t2 = t2
  Senders <- TwoSenders
  buf_alloc = 2
  RxBuffers = 4
  Modulus = 8
  First = 6
  MaxBytes = 4
INVARIANTS
  NothingLost
CHECK_DEADLOCK FALSE
