SPECIFICATION FairSpec
CONSTANTS
  t1 = t1
  t2 = t2
  Senders <- OneSender
  buf_alloc = 2
  RxBuffers = 2
  Modulus = 8
  First = 6
  MaxBytes = 4
PROPERTIES
  EverythingArrives
CHECK_DEADLOCK FALSE
