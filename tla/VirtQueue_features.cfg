SPECIFICATION FairSpec
CONSTANTS
  SIZE = 2
  IndexModulus = 4
  Requests <- MCRequests
  Buffers <- MCBuffers
  inputs <- ShortInputs
  outputs <- ShortOutputs
  indirect = TRUE
  event_idx = TRUE
  sleeping = TRUE
  None = None
  ListAddr = ListAddr
  r1 = r1
  r2 = r2
  r3 = r3
  b1 = b1
  b2 = b2
  b3 = b3
  b4 = b4
INVARIANTS
  NoPanic
  DeviceSeesRequest
  SharedExactly
  NoLostNotification
  NoLostInterrupt
PROPERTIES
  ImplementsAbstractQueue
