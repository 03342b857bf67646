-------------------------------- MODULE Transport --------------------------------
(***************************************************************************)
(* The register accesses of the transports' methods: MmioTransport, in its *)
(* legacy and its modern version, PciTransport and HypPciTransport, which  *)
(* SomeTransport chooses from; and what a device makes of the registers of *)
(* its queues.  A method is the sequence of its accesses, in their order.  *)
(***************************************************************************)
EXTENDS QueueLayout

Word == 65536   \* stands for 2^32: the halves of an address

Mmio == {"legacy", "modern"}
Pci == {"pci", "hyp"}

Write(reg, val) == [op |-> "write", reg |-> reg, val |-> val]
Wait(reg) == [op |-> "wait", reg |-> reg]           \* read until it is zero
Local(op, q) == [op |-> op, reg |-> op, val |-> q]  \* a step on the driver's own state

\* read_device_features and write_driver_features: the two halves of the bits
\* through one window.
read_device_features ==
  <<Write("device_features_sel", 0), Local("read_features", 0),
    Write("device_features_sel", 1), Local("read_features", 1)>>

write_driver_features ==
  <<Write("driver_features_sel", 0), Local("write_features", 0),
    Write("driver_features_sel", 1), Local("write_features", 1)>>

\* Only legacy devices are told the page size.
set_guest_page_size(bus) ==
  IF bus = "legacy" THEN <<Write("legacy_guest_page_size", PAGE_SIZE)>> ELSE <<>>

\* What queue_used and max_queue_size read of the queue they select.
queue_used(q) == <<Write("queue_sel", q), Local("check_unused", q)>>
max_queue_size(q) == <<Write("queue_sel", q), Local("check_size", q)>>

\* The queue of layout l in the registers of a legacy device, if the layout is
\* the one that such a device assumes.
legacy_queue_set(q, l) ==
  IF /\ l.driver - l.desc = 16 * l.size
     /\ l.device - l.desc = align_up(16 * l.size + 2 * (l.size + 3))
     /\ l.desc % PAGE_SIZE = 0
  THEN <<Write("queue_sel", q), Write("queue_num", l.size),
         Write("legacy_queue_align", PAGE_SIZE),
         Write("legacy_queue_pfn", l.desc \div PAGE_SIZE)>>
  ELSE <<Local("panic", q)>>

modern_queue_set(q, l) ==
  <<Write("queue_sel", q), Write("queue_num", l.size),
    Write("queue_desc_low", l.desc % Word), Write("queue_desc_high", l.desc \div Word),
    Write("queue_driver_low", l.driver % Word), Write("queue_driver_high", l.driver \div Word),
    Write("queue_device_low", l.device % Word), Write("queue_device_high", l.device \div Word),
    Write("queue_ready", 1)>>

pci_queue_set_enabling_first(q, l, offsets) ==
  <<Write("queue_sel", q), Write("queue_num", l.size), Write("queue_ready", 1),
    Write("queue_desc", l.desc), Write("queue_driver", l.driver), Write("queue_device", l.device),
    Local("push_offset", q)>>

\* offsets: the queues of notification_offsets.
pci_queue_set(q, l, offsets) ==
  IF q \in offsets
  THEN <<Local("panic", q)>>
  ELSE <<Write("queue_sel", q), Write("queue_num", l.size),
         Write("queue_desc", l.desc), Write("queue_driver", l.driver), Write("queue_device", l.device),
         Write("queue_ready", 1), Local("push_offset", q)>>

hyp_queue_set(q, l, offsets) ==
  IF q \in offsets
  THEN <<Local("panic", q)>>
  ELSE <<Write("queue_sel", q), Write("queue_num", l.size),
         Write("queue_desc", l.desc), Write("queue_driver", l.driver), Write("queue_device", l.device),
         Write("queue_ready", 1), Local("push_offset", q)>>

legacy_queue_unset(q) ==
  <<Write("queue_sel", q), Write("queue_num", 0),
    Write("legacy_queue_align", 0), Write("legacy_queue_pfn", 0)>>

modern_queue_unset_at_once(q) ==
  <<Write("queue_sel", q), Write("queue_ready", 0)>>

modern_queue_unset(q) ==
  <<Write("queue_sel", q), Write("queue_ready", 0), Wait("queue_ready"), Write("queue_num", 0),
    Write("queue_desc_low", 0), Write("queue_desc_high", 0),
    Write("queue_driver_low", 0), Write("queue_driver_high", 0),
    Write("queue_device_low", 0), Write("queue_device_high", 0)>>

pci_notify(q, offsets) ==
  IF q \in offsets THEN <<Write("queue_notify", q)>> ELSE <<Local("panic", q)>>

hyp_notify(q, offsets) ==
  IF q \in offsets THEN <<Write("queue_notify", q)>> ELSE <<Local("panic", q)>>

mmio_drop == <<Write("status", {})>>

pci_drop == <<Write("status", {}), Wait("status")>>

\* SomeTransport hands every call to the transport it holds.
queue_set(bus, q, l, offsets) ==
  CASE bus = "legacy" -> legacy_queue_set(q, l)
    [] bus = "modern" -> modern_queue_set(q, l)
    [] bus = "pci" -> pci_queue_set(q, l, offsets)
    [] bus = "hyp" -> hyp_queue_set(q, l, offsets)

\* Queues of PCI devices cannot be unset.
queue_unset(bus, q) ==
  CASE bus = "legacy" -> legacy_queue_unset(q)
    [] bus = "modern" -> modern_queue_unset(q)
    [] bus \in Pci -> <<>>

notify(bus, q, offsets) ==
  CASE bus \in Mmio -> <<Write("queue_notify", q)>>
    [] bus = "pci" -> pci_notify(q, offsets)
    [] bus = "hyp" -> hyp_notify(q, offsets)

\* HypPciTransport does nothing when it is dropped.
transport_drop(bus) ==
  CASE bus \in Mmio -> mmio_drop
    [] bus = "pci" -> pci_drop
    [] bus = "hyp" -> <<>>

requires_legacy_layout(bus) == bus = "legacy"

-----------------------------------------------------------------------------
\* The device: the registers of a queue, and the queue that they describe.

QueueRegisters(bus) ==
  CASE bus = "legacy" -> {"queue_num", "legacy_queue_align", "legacy_queue_pfn"}
    [] bus = "modern" -> {"queue_num", "queue_ready", "queue_desc_low", "queue_desc_high",
         "queue_driver_low", "queue_driver_high", "queue_device_low", "queue_device_high"}
    [] bus \in Pci -> {"queue_num", "queue_ready", "queue_desc", "queue_driver", "queue_device"}

Enabled(bus, regs) ==
  IF bus = "legacy" THEN regs["legacy_queue_pfn"] # 0 ELSE regs["queue_ready"] # 0

\* A legacy device puts the used ring at the next multiple of the alignment.
View(bus, regs) ==
  LET size == regs["queue_num"]
      join(low, high) == regs[low] + Word * regs[high]
      align == regs["legacy_queue_align"]
      desc == regs["legacy_queue_pfn"] * PAGE_SIZE
  IN  CASE bus = "legacy" ->
             [size |-> size, desc |-> desc, driver |-> desc + 16 * size,
              device |-> desc + ((18 * size + 6 + align - 1) \div align) * align]
        [] bus = "modern" ->
             [size |-> size, desc |-> join("queue_desc_low", "queue_desc_high"),
              driver |-> join("queue_driver_low", "queue_driver_high"),
              device |-> join("queue_device_low", "queue_device_high")]
        [] bus \in Pci ->
             [size |-> size, desc |-> regs["queue_desc"], driver |-> regs["queue_driver"],
              device |-> regs["queue_device"]]
=============================================================================
