-------------------------------- MODULE Drivers --------------------------------
(***************************************************************************)
(* The drivers whose buffers stay in a queue, each over an AbstractQueue   *)
(* of its own, and the ring buffer of a connection: a behaviour of this    *)
(* module is a behaviour of one of them, which `kind` names.               *)
(***************************************************************************)
EXTENDS Integers, Sequences

CONSTANTS
  SIZE,           \* of the queues whose buffers circulate
  BufferSize,     \* bytes of the console's receive buffer
  Modulus,        \* events and bytes are numbered up to this
  MaxShort,       \* bounds the packets without a whole header
  RingCapacity, RingBytes, MaxSlice,
  None

\* The const parameters SIZE and CAPACITY and PAGE_SIZE are positive, and None is neither a
\* token nor a buffer.
ASSUME DriverAssumption ==
  /\ SIZE \in Nat \ {0} /\ BufferSize \in Nat \ {0} /\ Modulus \in Nat \ {0}
  /\ RingCapacity \in Nat \ {0} /\ RingBytes # {}
  /\ None \notin Nat /\ None # "queue_buf_rx"

VARIABLES
  kind,
  queue,
  driver,                \* the fields of the driver
  buffers, pc, token     \* those of OwningQueue

own == <<buffers, pc, token>>
vars == <<kind, queue, driver, buffers, pc, token>>

Owning == INSTANCE OwningQueue
Input == INSTANCE Input
Console == INSTANCE Console WITH QUEUE_SIZE <- 2, PAGE_SIZE <- BufferSize
Net == INSTANCE Net WITH QUEUE_SIZE <- SIZE
Ring == INSTANCE RingBuffer WITH Capacity <- RingCapacity, Bytes <- RingBytes, MaxLen <- MaxSlice

NotOwning == buffers = None /\ pc = None /\ token = None

DriverInit ==
  \/ kind = "owning" /\ Owning!Init /\ driver = None
  \/ kind = "input" /\ Input!Init /\ NotOwning
  \/ kind = "console" /\ Console!Init /\ NotOwning
  \/ kind = "net" /\ Net!Init /\ NotOwning
  \/ kind = "ring" /\ Ring!Init /\ NotOwning /\ queue = None

DriverNext ==
  /\ UNCHANGED kind
  /\ \/ kind = "owning" /\ Owning!Next /\ UNCHANGED driver
     \/ kind = "input" /\ Input!Next /\ UNCHANGED own
     \/ kind = "console" /\ Console!Next /\ UNCHANGED own
     \/ kind = "net" /\ Net!Next /\ UNCHANGED own
     \/ kind = "ring" /\ Ring!Next /\ UNCHANGED own /\ UNCHANGED queue

DriverSpec == DriverInit /\ [][DriverNext]_vars

-----------------------------------------------------------------------------
\* The properties of the drivers, each of the behaviours of its own driver.

\* OwningQueue: a buffer keeps its token, and poll never loses one (owning.rs,
\* new, pop and add_buffer_to_queue).
OwnedBuffersKept == kind = "owning" => Owning!ConsistentTokens /\ Owning!AllBuffersInQueue

\* VirtIOInput: events come in their order, none is lost (input.rs,
\* pop_pending_event).
EventsInOrder == kind = "input" => Input!EventsInOrder

\* VirtIOConsole: no byte is lost or overwritten before recv or consume has
\* taken it, and what a call returns begins with the first one not yet taken
\* (console.rs, finish_receive, poll_retrieve and recv; embedded_io.rs).
NextBytes == kind = "console" => Console!NextBytes

\* VirtIONet: buffers are stored under the token the device has them under,
\* and none is lost (net/dev.rs, receive and recycle_rx_buffer).
BuffersUnderTheirTokens == kind = "net" => Net!BuffersUnderTheirTokens

\* RingBuffer: bytes come out in the order in which they went in, across the
\* end of the buffer, and add refuses exactly what does not fit
\* (connectionmanager.rs, add and drain).
FirstInFirstOut == [][kind = "ring" => Ring!FirstInFirstOut]_vars
=============================================================================
