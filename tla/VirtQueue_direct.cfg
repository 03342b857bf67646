SPECIFICATION Spec
CONSTANTS
  SIZE = 4
  IndexModulus = 8
  Requests <- MCRequests
  Buffers <- MCBuffers
  inputs <- LongInputs
  outputs <- LongOutputs
  indirect = FALSE
  event_idx = FALSE
  sleeping = FALSE
  None = None
  ListAddr = ListAddr
  r1 = r1
  r2 = r2
  r3 = r3
  b1 = b1
  b2 = b2
  b3 = b3
  b4 = b4
SYMMETRY Exchange
CONSTRAINT Bounded
INVARIANTS
  UnshareMatchesShare
  FreeListLinked
  DescriptorsAccounted
