------------------------------- MODULE Components -------------------------------
(***************************************************************************)
(* The device drivers and what they are built on: a behaviour of this      *)
(* module is a behaviour of a driver (of Drivers, of a driver with blocking*)
(* requests, of the sound or the GPU driver), of a transport from the      *)
(* discovery of the device to the end of the driver, or of the             *)
(* configuration space, and `kind` says of which.                          *)
(***************************************************************************)
EXTENDS Drivers

CONSTANTS
  RequestSlots,   \* size of a queue for requests
  MaxRequests,
  MaxPeriods, MaxLeft, MaxRefusals,
  Areas, DisplaySizes,
  Buses, Lifetimes, Generations, Values, ConfigSpaces

Requests == INSTANCE Requests WITH SIZE <- RequestSlots
Sound == INSTANCE Sound WITH QUEUE_SIZE <- SIZE
Gpu == INSTANCE Gpu WITH Sizes <- DisplaySizes
Lifecycle == INSTANCE Lifecycle
Config == INSTANCE ConfigSpace WITH Spaces <- ConfigSpaces

\* Device functions on a PCI bus: BARs of all kinds, allocated and not, and
\* lists of capabilities that are complete, that repeat a kind, or that lack
\* one, linked in either direction and ended properly or not.
Slot(type, size) == [kind |-> type, size |-> size]
Hardware(a, b, c) == [i \in 0 .. 2 |-> <<a, b, c>>[i + 1]]
Cap(type, len, bar, offset, length) ==
  [vendor |-> TRUE, kind |-> type, len |-> len, bar |-> bar, offset |-> offset, length |-> length,
   multiplier |-> 2]

List(caps, order, last) == [caps |-> caps, order |-> order, last |-> last]
Complete(a, b, o) ==
  <<[Cap("common", 16, 0, 0, 16) EXCEPT !.vendor = FALSE], Cap("common", 16, a, 0, 16),
    Cap("notify", 16, a, 0, 8), Cap("notify", 20, b, 16, 16), Cap("isr", 16, a, o, 8),
    Cap("common", 16, b, 8, 8), Cap("device", 16, b, o, 4)>>

PciFunctions ==
  [vendor : {"VIRTIO_VENDOR_ID"}, present : {{<<0, 0>>}},
   hw : {Hardware(Slot("mem64", 64), Slot("top", 1), Slot("mem32", 16)),
         Hardware(Slot("io", 8), Slot("mem64", 32), Slot("top", 1)),
         Hardware(Slot("mem32", 32), Slot("unused", 1), Slot("mem32", 64)),
         Hardware(Slot("mem32", 128), Slot("reserved", 16), Slot("mem64", 16))},
   list : {List(Complete(a, b, o), <<1, 2, 3, 4, 5, 6, 7>>, 0) : a \in {0, 1}, b \in {0, 2}, o \in {1, 24, 60}}
          \cup {List(Complete(0, 2, 24), <<6, 7, 5, 4, 3, 2>>, 9),
                List(Complete(0, 2, 24), <<4, 5, 6, 7>>, 9),
                List(Complete(0, 2, 24), <<>>, 0),
                List(<<Cap("notify", 20, 0, 0, 2), Cap("common", 12, 0, 0, 16)>>, <<1, 2>>, 0),
                List(<<Cap("common", 16, 0, 0, 16), Cap("isr", 16, 0, 16, 1)>>, <<2, 1>>, 0),
                List(<<Cap("common", 16, 0, 0, 16), [Cap("notify", 20, 0, 0, 2) EXCEPT !.multiplier = 3]>>,
                     <<1, 2>>, 0)}]
    \cup [vendor : {"other"}, present : SUBSET ((0 .. 1) \X (0 .. 1)), list : {List(<<>>, <<>>, 0)},
          hw : {Hardware(Slot("mem32", 16), Slot("unused", 1), Slot("unused", 1))}]

Pci == INSTANCE PciBus WITH Functions <- PciFunctions, Addresses <- {<<64, 1>>, <<128, 0>>}

Init ==
  \/ DriverInit
  \/ kind = "requests" /\ Requests!Init /\ NotOwning
  \/ kind = "sound" /\ Sound!Init /\ NotOwning
  \/ kind = "gpu" /\ Gpu!Init /\ NotOwning /\ queue = None
  \/ /\ NotOwning /\ queue = None
     /\ \/ kind = "lifecycle" /\ Lifecycle!Init
        \/ kind = "config" /\ Config!Init
        \/ kind = "pci" /\ Pci!Init

Next ==
  \/ DriverNext
  \/ kind = "requests" /\ Requests!Next /\ UNCHANGED own /\ UNCHANGED kind
  \/ kind = "sound" /\ Sound!Next /\ UNCHANGED own /\ UNCHANGED kind
  \/ /\ UNCHANGED kind /\ UNCHANGED own /\ UNCHANGED queue
     /\ \/ kind = "gpu" /\ Gpu!Next
        \/ kind = "lifecycle" /\ Lifecycle!Next
        \/ kind = "config" /\ Config!Next
        \/ kind = "pci" /\ Pci!Next

(***************************************************************************)
(* Fairness.  The owner of a queue keeps polling; a blocking call goes on  *)
(* once it can; and the device takes what it is offered and finishes it.   *)
(* The client of the console, whatever else it calls, takes bytes with     *)
(* recv or consume as long as there are any, and after a consume that has  *)
(* used up the buffer asks for more with fill_buf: recv asks the device    *)
(* only when it takes the last byte itself.                                *)
(***************************************************************************)
Proceeds ==
  \/ kind = "owning" /\ Owning!Owner /\ UNCHANGED driver
  \/ kind = "console" /\ Console!WaitEnds /\ UNCHANGED own
  \/ kind = "requests" /\ (\E r \in Requests!Mine : Requests!Return(r)) /\ UNCHANGED own

Takes ==
  /\ kind = "console" /\ UNCHANGED own
  /\ \/ Console!recv(TRUE)
     \/ \E amt \in 1 .. BufferSize : Console!consume(amt)
     \/ Console!Consumed /\ Console!fill_buf

DeviceTakes ==
  \/ kind = "owning" /\ Owning!Queue!Take /\ UNCHANGED <<driver, buffers, pc, token>>
  \/ kind = "console" /\ Console!DeviceTake /\ UNCHANGED own
  \/ kind = "requests" /\ Requests!DeviceTake /\ UNCHANGED own

DeviceUses(t) ==
  \/ kind = "owning" /\ Owning!Queue!Use(t) /\ UNCHANGED <<driver, buffers, pc, token>>
  \/ kind = "console" /\ (\E n \in 1 .. BufferSize : Console!DeviceUse(n)) /\ UNCHANGED own
  \/ kind = "requests" /\ Requests!DeviceUse(t) /\ UNCHANGED own

DriverFairness ==
  /\ WF_vars(UNCHANGED kind /\ Proceeds)
  /\ SF_vars(UNCHANGED kind /\ Takes)
  /\ WF_vars(UNCHANGED kind /\ DeviceTakes)
  /\ \A t \in 0 .. SIZE - 1 : WF_vars(UNCHANGED kind /\ DeviceUses(t))

FairSpec == Init /\ [][Next]_vars /\ DriverFairness

-----------------------------------------------------------------------------
\* OwningQueue: the device gets every buffer again and again (owning.rs,
\* add_buffer_to_queue notifies it).
BuffersCirculate == \A t \in 0 .. SIZE - 1 : []<>(kind = "owning" => t \in queue.held)

\* VirtIOConsole: a client that keeps calling recv, or fill_buf and consume, is
\* given byte after byte, whatever other calls it makes in between, as
\* poll_retrieve is called whenever the buffer has been used up (console.rs,
\* recv and wait_for_receive).  One that only calls read is not, as read never
\* moves the cursor, and recv alone asks for nothing once consume has taken the
\* last byte.
AllBytesArrive == \A v \in 0 .. Modulus - 1 : []<>(kind = "console" => driver.passed # v)

\* Blocking and non-blocking requests get their own answers (blk.rs, rng.rs,
\* net/dev_raw.rs).
EachRequestItsAnswer == kind = "requests" => Requests!EachRequestItsAnswer

\* "Blocks until the read completes or there is an error": blocking calls return
\* (queue.rs, add_notify_wait_pop).
CallsReturn ==
  (kind = "requests" /\ Requests!InCall) ~> (kind = "requests" /\ ~Requests!InCall)

\* VirtIOSound: a pcm_xfer that returns Ok has played every period, its arrays
\* stay straight although periods of pcm_xfer_nb and of calls that returned early
\* may be in the queue, and a set_up that failed half-way is done again without a
\* trace of the first (sound.rs, pcm_xfer, pcm_xfer_nb, pcm_xfer_ok and set_up).
EveryPeriodPlayed == kind = "sound" => Sound!EveryPeriodPlayed /\ Sound!SetUpOnce

\* VirtIOGpu: what backs a resource of the device has not been freed (gpu.rs,
\* setup_framebuffer and setup_cursor).
BackingOwned == kind = "gpu" => Gpu!BackingOwned

\* A queue that the device has enabled is where the driver laid it out, at
\* every step of queue_set (transport/mmio.rs, transport/pci.rs, queue.rs).
QueuesAsLaidOut == kind = "lifecycle" => Lifecycle!QueuesAsLaidOut

\* Memory of a driver is freed only once the device cannot reach it, where the
\* transport or the Drop of the driver sees to it (the Drop of the drivers and
\* of the transports).
MemoryOutlivesDevice == kind = "lifecycle" => Lifecycle!MemoryOutlivesDeviceIfWaited

\* A device that runs has the negotiated features and all its queues, also
\* when the driver is made again (begin_init, VirtQueue::new, finish_init).
InitialisedInOrder == kind = "lifecycle" => Lifecycle!InitialisedInOrder

\* read_consistent returns one configuration of the device, and a query of
\* VirtIOInput the answer to its own question (transport/mod.rs, input.rs).
AnswersConsistent == kind = "config" => Config!AnswersConsistent

\* No cause of an interrupt is cleared before ack_interrupt has returned it
\* (transport/mmio.rs, transport/pci.rs).
NoCauseLost == kind = "config" => Config!NoCauseLost

\* Sizing restores every BAR, and a transport has its structures where the
\* capabilities put them, inside BARs; an enumeration finds every function of
\* the bus (pci/bus.rs, transport/pci.rs).
BarsAndRegions == kind = "pci" => Pci!BarsRestored /\ Pci!RegionsInBars /\ Pci!AllFunctionsFound
=============================================================================
