SPECIFICATION PairSpec
CONSTANTS
  SIZE = 2
  IndexModulus = 4
  Requests <- MCRequests
  Buffers <- MCBuffers
  inputs <- MixedInputs
  outputs <- MixedOutputs
  indirect = FALSE
  event_idx = FALSE
  sleeping = FALSE
  Calls <- BothCalls
  MaxMapFailures = 1
  None = None
  ListAddr = ListAddr
  r1 = r1
  r2 = r2
  r3 = r3
  r4 = r4
  b1 = b1
  b2 = b2
  b3 = b3
  b4 = b4
  b5 = b5
  b6 = b6
INVARIANTS
  DeviceHandlesRequest
  AccessesAreMapped
  MappingsKept
  DriverChainsAccepted
  OnlyUnsuitableWithheld
CHECK_DEADLOCK FALSE
