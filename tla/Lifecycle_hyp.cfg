SPECIFICATION Spec
CONSTANTS
  Buses = {"hyp"}
  Lifetimes = 1
INVARIANT MemoryOutlivesDevice
