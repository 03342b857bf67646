-------------------------------- MODULE Lifecycle --------------------------------
(***************************************************************************)
(* A driver from its constructor to its drop, over each of the transports: *)
(* the calls of new, one register access at a time; an error half-way,     *)
(* which drops what there is; a driver that is dropped and made again.     *)
(* The device handles register accesses in their order, but what it is     *)
(* told to stop (a queue, or all by a reset) stops some time later.        *)
(***************************************************************************)
EXTENDS Transport, SequencesExt, TLC

CONSTANTS
  Buses,       \* the transports: a subset of Mmio \cup Pci
  Lifetimes    \* how often the driver is made

VARIABLE driver

vars == <<driver>>
Queues == 0 .. 3
Halves == 0 .. 1

\* The steps of new and of the drops.
BeginInit == <<"begin_init", 0>>
Config == <<"config", 0>>       \* reads the configuration space
Queue(q) == <<"queue", q>>      \* VirtQueue::new
Fill(q) == <<"fill", q>>        \* adds buffers of the driver to the queue
Notify(q) == <<"notify", q>>
FinishInit == <<"finish_init", 0>>
Built == <<"built", 0>>         \* from here on, an error drops the driver
Unset(q) == <<"unset", q>>
DropTransport == <<"transport", 0>>
Memory(q) == <<"memory", q>>    \* drops a queue
Buffers(q) == <<"buffers", q>>  \* frees the buffers that were added to it
Backing == <<"backing", 0>>     \* frees the memory of the device's resources

-----------------------------------------------------------------------------
\* The drivers: their constructors, and what Drop and the fields, in their
\* order, do.

blk_new == <<BeginInit, Config, Queue(0), FinishInit, Built>>
blk_drop == <<Unset(0)>>
blk_fields == <<DropTransport, Memory(0)>>

console_new == <<BeginInit, Queue(0), Queue(1), FinishInit, Built, Fill(0), Notify(0)>>
console_drop == <<Unset(0), Unset(1)>>
console_fields == <<DropTransport, Memory(0), Memory(1), Buffers(0)>>

gpu_new == <<BeginInit, Config, Queue(0), Queue(1), FinishInit, Built>>
gpu_drop == <<Unset(0), Unset(1)>>
gpu_fields == <<DropTransport, Backing, Memory(0), Memory(1)>>

\* It notifies the device before it finishes the initialisation.
input_new == <<BeginInit, Queue(0), Queue(1), Fill(0), Notify(0), FinishInit, Built>>
input_drop == <<Unset(0), Unset(1)>>
input_fields == <<DropTransport, Memory(0), Memory(1), Buffers(0)>>

\* VirtIONetRaw::new, and the rest of VirtIONet::new; the raw driver is the
\* first field of VirtIONet.
net_raw_new == <<BeginInit, Config, Queue(1), Queue(0), FinishInit, Built>>
net_new == net_raw_new \o <<Fill(0), Notify(0)>>
net_drop == <<Unset(0), Unset(1)>>
net_raw_fields == <<DropTransport, Memory(0), Memory(1)>>
net_fields == net_raw_fields \o <<Buffers(0)>>

rng_new == <<BeginInit, Queue(0), FinishInit, Built>>
rng_drop == <<Unset(0)>>
rng_fields == <<DropTransport, Memory(0)>>

\* OwningQueue frees its buffers before its queue.
owning_drop(q) == <<Buffers(q), Memory(q)>>

vsock_new ==
  <<BeginInit, Config, Queue(0), Queue(1), Queue(2), Fill(0), FinishInit, Notify(0), Built>>
vsock_drop == <<Unset(0), Unset(1), Unset(2)>>
vsock_fields == <<DropTransport>> \o owning_drop(0) \o <<Memory(1), Memory(2)>>

\* VirtIOSound has no Drop.
sound_new ==
  <<BeginInit, Queue(0), Queue(1), Fill(1), Queue(2), Queue(3), Config, FinishInit, Notify(1), Built>>
sound_fields == <<DropTransport, Memory(0)>> \o owning_drop(1) \o <<Memory(2), Memory(3)>>

Drivers == {"blk", "console", "gpu", "input", "net", "rng", "vsock", "sound"}

New(name) ==
  CASE name = "blk" -> blk_new [] name = "console" -> console_new [] name = "gpu" -> gpu_new
    [] name = "input" -> input_new [] name = "net" -> net_new [] name = "rng" -> rng_new
    [] name = "vsock" -> vsock_new [] name = "sound" -> sound_new

Drop(name) ==
  CASE name = "blk" -> blk_drop \o blk_fields
    [] name = "console" -> console_drop \o console_fields
    [] name = "gpu" -> gpu_drop \o gpu_fields
    [] name = "input" -> input_drop \o input_fields
    [] name = "net" -> net_drop \o net_fields
    [] name = "rng" -> rng_drop \o rng_fields
    [] name = "vsock" -> vsock_drop \o vsock_fields
    [] name = "sound" -> sound_fields

QUEUE_SIZE(name) ==
  CASE name \in {"console", "gpu"} -> 2 [] name = "net" -> 4 [] name \in {"rng", "vsock"} -> 8
    [] name = "blk" -> 16 [] name \in {"input", "sound"} -> 32

-----------------------------------------------------------------------------
\* The state: the driver under construction, in use or being dropped, and the
\* device.

ACKNOWLEDGE_DRIVER == {"ACKNOWLEDGE", "DRIVER"}
SUPPORTED_FEATURES == [h \in Halves |-> {1}]
NoFeatures == [h \in Halves |-> {}]
NoLayout == [size |-> 0, desc |-> 0, driver |-> 0, device |-> 0]

NewDevice(bus) ==
  [status |-> {}, resetting |-> FALSE, dfsel |-> 0, gfsel |-> 0, features |-> NoFeatures,
   sel |-> 0, queues |-> [q \in Queues |-> [r \in QueueRegisters(bus) |-> 0]],
   stopping |-> {}, posted |-> {}, backing |-> FALSE]

Start(name) ==
  [calls |-> New(name), accesses |-> <<>>, phase |-> "new", built |-> FALSE, error |-> "none",
   read |-> NoFeatures, offsets |-> {},
   mem |-> [q \in Queues |-> NoLayout], buffers |-> {}, backing |-> FALSE]

Init ==
  \E name \in Drivers, bus \in Buses, low \in {{}, {1, 2}}, high \in SUBSET {1} :
    driver = [name |-> name, bus |-> bus, offered |-> (0 :> low @@ 1 :> high),
              left |-> Lifetimes, d |-> Start(name), dev |-> NewDevice(bus)]

d == driver.d
dev == driver.dev
bus == driver.bus

\* The layout of queue q, in areas that Hal::dma_alloc gives out.
Layout(q) ==
  LET n == QUEUE_SIZE(driver.name)
      area == Word * (q + 1) + PAGE_SIZE * (q + 1)
      dma == IF requires_legacy_layout(bus) THEN <<area>> ELSE <<area, area + 5 * Word + PAGE_SIZE>>
  IN  [size |-> n, desc |-> descriptors_paddr(dma), driver |-> driver_area_paddr(dma, n),
       device |-> device_area_paddr(dma, n)]

begin_init_without_reset ==
  <<Write("status", ACKNOWLEDGE_DRIVER)>> \o read_device_features \o write_driver_features
    \o <<Write("status", ACKNOWLEDGE_DRIVER \cup {"FEATURES_OK"}), Local("check_features", 0)>>
    \o set_guest_page_size(bus)

begin_init ==
  <<Write("status", {}), Write("status", ACKNOWLEDGE_DRIVER)>>
    \o read_device_features \o write_driver_features
    \o <<Write("status", ACKNOWLEDGE_DRIVER \cup {"FEATURES_OK"}), Local("check_features", 0)>>
    \o set_guest_page_size(bus)

finish_init == <<Write("status", ACKNOWLEDGE_DRIVER \cup {"FEATURES_OK", "DRIVER_OK"})>>

\* VirtQueue::new up to the allocation of the layout; queue_set follows.
VirtQueue_new(q) == queue_used(q) \o max_queue_size(q) \o <<Local("allocate", q)>>

Accesses(c) ==
  CASE c[1] = "begin_init" -> begin_init
    [] c[1] = "queue" -> VirtQueue_new(c[2])
    [] c[1] = "notify" -> notify(bus, c[2], d.offsets)
    [] c[1] = "finish_init" -> finish_init
    [] c[1] = "unset" -> queue_unset(bus, c[2])
    [] c[1] = "transport" -> transport_drop(bus)
    [] OTHER -> <<Local(c[1], c[2])>>

Call ==
  /\ d.accesses = <<>> /\ d.calls # <<>>
  /\ driver' = [driver EXCEPT !.d.accesses = Accesses(Head(d.calls)), !.d.calls = Tail(@)]

-----------------------------------------------------------------------------
\* One access.

Ready(op) == d.accesses # <<>> /\ Head(d.accesses).op = op
arg == Head(d.accesses).val

\* The driver goes on, changed by the access to e, and the device to v.
Goes(e, v) == driver' = [driver EXCEPT !.d = [e EXCEPT !.accesses = Tail(@)], !.dev = v]

\* The ? operator: what has been made is dropped, the last first and then the
\* transport; or the driver, if it is complete.
Unwind ==
  SelectSeq(<<Buffers(3), Memory(3), Buffers(2), Memory(2), Buffers(1), Memory(1), Buffers(0), Memory(0)>>,
            LAMBDA c : IF c[1] = "memory" THEN d.mem[c[2]].size > 0 ELSE c[2] \in d.buffers)
    \o <<DropTransport>>

Fails(error) ==
  driver' = [driver EXCEPT !.d.calls = IF d.built THEN Drop(driver.name) ELSE Unwind,
                           !.d.accesses = <<>>, !.d.phase = "dropping", !.d.error = error]

\* What the device makes of a write; it may leave out FEATURES_OK, as a sign
\* that it does not accept the features.
Written(reg, val) ==
  CASE reg = "status" /\ val = {} ->
         IF dev.status = {} THEN {dev} ELSE {[dev EXCEPT !.resetting = TRUE]}
    [] reg = "status" /\ "FEATURES_OK" \in val /\ "FEATURES_OK" \notin dev.status ->
         {[dev EXCEPT !.status = s] : s \in {val, val \ {"FEATURES_OK"}}}
    [] reg = "status" -> {[dev EXCEPT !.status = val]}
    [] reg = "device_features_sel" -> {[dev EXCEPT !.dfsel = val]}
    [] reg = "driver_features_sel" -> {[dev EXCEPT !.gfsel = val]}
    [] reg = "queue_sel" -> {[dev EXCEPT !.sel = val]}
    [] reg = "queue_ready" /\ val = 0 -> {[dev EXCEPT !.stopping = @ \cup {dev.sel}]}
    [] reg \in QueueRegisters(bus) \ {"queue_ready"} \/ (reg = "queue_ready" /\ val = 1) ->
         {[dev EXCEPT !.queues[dev.sel][reg] = val]}
    [] OTHER -> {dev}

WriteRegister ==
  /\ Ready("write") /\ ~dev.resetting
  /\ \E v \in Written(Head(d.accesses).reg, arg) : Goes(d, v)

WaitForZero ==
  /\ Ready("wait")
  /\ IF Head(d.accesses).reg = "status"
     THEN dev.status = {}
     ELSE dev.queues[dev.sel]["queue_ready"] = 0
  /\ Goes(d, dev)

\* begin_init negotiates the features that both sides have.
Negotiate ==
  \/ /\ Ready("read_features")
     /\ Goes([d EXCEPT !.read[arg] = driver.offered[dev.dfsel]], dev)
  \/ /\ Ready("write_features")
     /\ Goes(d, [dev EXCEPT !.features[dev.gfsel] = d.read[arg] \cap SUPPORTED_FEATURES[arg]])
  \/ /\ Ready("check_features")
     /\ IF "FEATURES_OK" \in dev.status THEN Goes(d, dev) ELSE Fails("Unsupported")

\* The checks of VirtQueue::new; the device's maximum may be too small.
CheckQueue ==
  \/ /\ Ready("check_unused")
     /\ IF Enabled(bus, dev.queues[dev.sel]) THEN Fails("AlreadyUsed") ELSE Goes(d, dev)
  \/ Ready("check_size") /\ (Goes(d, dev) \/ Fails("InvalidParam"))

\* Dma::new for the queue, for which there may be no memory.
Dma_new ==
  \/ Ready("allocate") /\ Fails("DmaError")
  \/ /\ Ready("allocate")
     /\ driver' = [driver EXCEPT !.d.mem[arg] = Layout(arg),
                                 !.d.accesses = queue_set(bus, arg, Layout(arg), d.offsets)]

\* read_config! fails if the configuration space is too small or missing.
ReadConfig == Ready("config") /\ (Goes(d, dev) \/ Fails("ConfigSpaceTooSmall"))

LocalStep ==
  \/ /\ Ready("fill")
     /\ Goes([d EXCEPT !.buffers = @ \cup {arg}], [dev EXCEPT !.posted = @ \cup {arg}])
  \/ Ready("push_offset") /\ Goes([d EXCEPT !.offsets = @ \cup {arg}], dev)
  \/ Ready("built") /\ Goes([d EXCEPT !.built = TRUE], dev)
  \/ Ready("buffers") /\ Goes([d EXCEPT !.buffers = @ \ {arg}], dev)
  \/ Ready("backing") /\ Goes([d EXCEPT !.backing = FALSE], dev)

\* Dma::drop of the areas of a queue.
Dma_drop == Ready("memory") /\ Goes([d EXCEPT !.mem[arg] = NoLayout], dev)

-----------------------------------------------------------------------------
\* The owner of the driver, and the device on its own.

Idle == d.accesses = <<>> /\ d.calls = <<>>

Runs ==
  /\ Idle /\ d.phase = "new"
  /\ driver' = [driver EXCEPT !.d.phase = "running"]

\* setup_framebuffer and setup_cursor give the device memory of the driver.
Attach ==
  /\ driver.name = "gpu" /\ d.phase = "running" /\ ~d.backing
  /\ driver' = [driver EXCEPT !.d.backing = TRUE, !.dev.backing = TRUE]

DropDriver ==
  /\ d.phase = "running"
  /\ driver' = [driver EXCEPT !.d.phase = "dropping", !.d.calls = Drop(driver.name)]

Again ==
  /\ Idle /\ d.phase = "dropping" /\ driver.left > 1
  /\ driver' = [driver EXCEPT !.left = @ - 1, !.d = Start(driver.name)]

Ended == Idle /\ d.phase = "dropping" /\ driver.left = 1 /\ UNCHANGED driver

DeviceResets == dev.resetting /\ driver' = [driver EXCEPT !.dev = NewDevice(bus)]

DeviceStops ==
  \E q \in dev.stopping :
    driver' = [driver EXCEPT !.dev.stopping = @ \ {q}, !.dev.queues[q]["queue_ready"] = 0]

Next ==
  \/ Call \/ WriteRegister \/ WaitForZero \/ Negotiate \/ CheckQueue \/ Dma_new \/ ReadConfig \/ LocalStep
  \/ Dma_drop
  \/ Runs \/ Attach \/ DropDriver \/ Again \/ Ended
  \/ DeviceResets \/ DeviceStops

Spec == Init /\ [][Next]_vars

-----------------------------------------------------------------------------
\* Reaches: the device may read and write the memory of the queue.
Reaches(q) == "DRIVER_OK" \in dev.status /\ Enabled(bus, dev.queues[q])

QueueMemoryKept ==
  \A q \in Queues :
    Reaches(q) => d.mem[q].size > 0 /\ (q \in dev.posted => q \in d.buffers)

\* "Clear any pointers pointing to DMA regions, so the device doesn't try to
\* access them after they have been freed" (the Drop of the drivers): memory
\* is freed only once the device cannot reach it, after queue_unset or after
\* the reset by the transport, which is the first field, on every path that
\* ends a driver.
MemoryOutlivesDevice == QueueMemoryKept /\ (dev.backing /\ dev.status # {} => d.backing)

\* The same where the transport resets the device and waits (PCI), or where
\* the Drop of the driver unsets the queues (MMIO, which does not wait for the
\* reset).
MemoryOutlivesDeviceIfWaited ==
  CASE bus = "pci" -> MemoryOutlivesDevice
    [] bus \in Mmio -> driver.name # "sound" => QueueMemoryKept
    [] OTHER -> TRUE

\* A queue that the device has enabled is where the driver laid it out, with
\* its size, at every step of queue_set and of the calls for other queues
\* (queue_set, VirtQueueLayout); a legacy queue that is being unset has lost
\* its size first.
QueuesAsLaidOut ==
  \A q \in Queues :
    /\ Enabled(bus, dev.queues[q]) /\ d.mem[q].size > 0
    /\ ~(bus = "legacy" /\ d.phase = "dropping" /\ dev.sel = q)
    => View(bus, dev.queues[q]) = d.mem[q]

\* A device that is told DRIVER_OK has been given the features that both sides
\* have and all the queues; no new finds a queue in use, a device used before
\* included, and no transport panics (begin_init, VirtQueue::new, finish_init).
InitialisedInOrder ==
  /\ ~Ready("panic")
  /\ d.error # "AlreadyUsed"
  /\ "DRIVER_OK" \in dev.status /\ d.phase # "dropping" /\ ~dev.resetting =>
       /\ dev.features = [h \in Halves |-> driver.offered[h] \cap SUPPORTED_FEATURES[h]]
       /\ \A q \in Queues : Queue(q) \in ToSet(New(driver.name)) => Enabled(bus, dev.queues[q])
=============================================================================
