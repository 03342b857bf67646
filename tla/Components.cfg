SPECIFICATION FairSpec
CONSTANTS
  SIZE = 3
  BufferSize = 2
  Modulus = 4
  RequestSlots = 8
  MaxRequests = 2
  MaxShort = 1
  MaxPeriods = 4
  MaxLeft = 1
  MaxRefusals = 2
  Areas = {1, 2, 3}
  DisplaySizes = {1, 2}
  RingCapacity = 3
  RingBytes = {0, 1}
  MaxSlice = 4
  Buses = {"legacy", "modern", "pci", "hyp"}
  Lifetimes = 2
  Generations = 3
  Values = 3
  ConfigSpaces = {1, 6, 10, 12}
  None = None
INVARIANT OwnedBuffersKept
INVARIANT EventsInOrder
INVARIANT NextBytes
INVARIANT BuffersUnderTheirTokens
INVARIANT EachRequestItsAnswer
INVARIANT EveryPeriodPlayed
INVARIANT BackingOwned
INVARIANT QueuesAsLaidOut
INVARIANT MemoryOutlivesDevice
INVARIANT InitialisedInOrder
INVARIANT AnswersConsistent
INVARIANT NoCauseLost
INVARIANT BarsAndRegions
PROPERTY BuffersCirculate
PROPERTY AllBytesArrive
PROPERTY CallsReturn
PROPERTY FirstInFirstOut
