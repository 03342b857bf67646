---------------------------------- MODULE PciBus ----------------------------------
(***************************************************************************)
(* PciRoot (pci/bus.rs) and the constructors of the PCI transports, one    *)
(* access to the configuration space at a time: BARs are sized by writing  *)
(* to them and restored, the capabilities of the device are walked, and    *)
(* each structure they name must lie within its BAR.                       *)
(***************************************************************************)
EXTENDS Integers, Sequences, FiniteSets

CONSTANTS
  Functions,    \* device functions: vendor, BARs (hw) and list, the capabilities,
                \* the order in which they are linked, and the last link;
                \* present, the devices and functions on its bus
  Addresses     \* at which BARs are placed

VARIABLE driver

vars == <<driver>>

WORD == 256     \* stands for 2^32, of the registers and of sizes
BARS == 3       \* stands for the six BARs
MAX_DEVICES == 2
MAX_FUNCTIONS == 2
Slots == 0 .. BARS - 1

Kinds == <<"common", "notify", "isr", "device">>
Nothing == [at |-> "none"]

d == driver

\* The bits of a BAR that are not its address: I/O, or the width of a memory
\* BAR.
Flags(kind) == CASE kind = "io" -> 1 [] kind = "mem64" -> 4 [] kind = "reserved" -> 6 [] OTHER -> 0

\* What a BAR of the device keeps of a written value: the bits of the address
\* above its size.  The slot after a 64-bit BAR is the upper half.
Kept(i, value) ==
  CASE d.hw[i].kind = "unused" -> 0
    [] d.hw[i].kind = "top" -> value
    [] OTHER -> (value \div d.hw[i].size) * d.hw[i].size + Flags(d.hw[i].kind)

\* regs: the BARs; given: the addresses that they have been set to, in words.
Init ==
  \E f \in Functions, bus \in {"pci", "hyp"} :
    driver = [bus |-> bus, hw |-> f.hw, caps |-> f.list.caps, order |-> f.list.order, last |-> f.list.last,
              vendor |-> f.vendor, present |-> f.present,
              regs |-> [i \in Slots |-> IF f.hw[i].kind = "unused" THEN 0 ELSE Flags(f.hw[i].kind)],
              given |-> [i \in Slots |-> 0], unset |-> Slots,
              bar |-> Nothing, pc |-> Nothing, result |-> Nothing]

\* set_bar_32, and set_bar_64, of a BAR that has no address yet.
set_bar_32(i, address) ==
  /\ d.hw[i].kind \in {"mem32", "io"}
  /\ driver' = [driver EXCEPT !.regs[i] = Kept(i, address[1]), !.given[i] = address[1], !.unset = @ \ {i},
                              !.result = Nothing]

set_bar_64(i, address) ==
  /\ d.hw[i].kind = "mem64" /\ i + 1 \in Slots
  /\ driver' = [driver EXCEPT !.regs[i] = Kept(i, address[1]), !.regs[i + 1] = Kept(i + 1, address[2]),
                              !.given[i] = address[1], !.given[i + 1] = address[2],
                              !.unset = @ \ {i, i + 1}, !.result = Nothing]

SetBar ==
  /\ d.pc = Nothing
  /\ \E i \in d.unset, address \in Addresses : set_bar_32(i, address) \/ set_bar_64(i, address)

-----------------------------------------------------------------------------
\* bar_info.

BarRead ==
  /\ d.bar.at = "begin"
  /\ driver' = [driver EXCEPT !.bar = [at |-> "ones", i |-> d.bar.i, orig |-> d.regs[d.bar.i]]]

BarWriteOnes ==
  /\ d.bar.at = "ones"
  /\ driver' = [driver EXCEPT !.regs[d.bar.i] = Kept(d.bar.i, WORD - 1), !.bar.at = "mask"]

BarReadMask ==
  /\ d.bar.at = "mask"
  /\ driver' = [driver EXCEPT !.bar = [at |-> "restore", i |-> d.bar.i, orig |-> d.bar.orig,
                  size |-> (WORD - (d.regs[d.bar.i] \div 16) * 16) % WORD]]

Type(orig) == (orig % 8) \div 2

BarRestore ==
  /\ d.bar.at = "restore"
  /\ driver' = [driver EXCEPT !.regs[d.bar.i] = Kept(d.bar.i, d.bar.orig), !.bar.at = "decode"]

\* I/O or memory; the upper half of a 64-bit address is in the next BAR, of
\* which there is none after the last.
BarDecode ==
  /\ d.bar.at = "decode"
  /\ LET i == d.bar.i
         orig == d.bar.orig
         low == (orig \div 16) * 16
         Done(info) == driver' = [driver EXCEPT !.bar = [at |-> "done", i |-> i, info |-> info]]
     IN  IF orig % 2 = 1
         THEN Done([kind |-> "io", address |-> (orig \div 4) * 4, size |-> d.bar.size])
         ELSE IF Type(orig) = 3 \/ (Type(orig) = 2 /\ i >= BARS - 1)
         THEN Done([kind |-> "InvalidBarType"])
         ELSE IF Type(orig) = 2
         THEN Done([kind |-> "mem64", address |-> low + WORD * d.regs[i + 1], size |-> d.bar.size])
         ELSE Done([kind |-> "mem32", address |-> low, size |-> d.bar.size])

bar_info == BarRead \/ BarWriteOnes \/ BarReadMask \/ BarRestore \/ BarDecode

Fails(error) == driver' = [driver EXCEPT !.pc = Nothing, !.bar = Nothing, !.result = [at |-> "error", error |-> error]]

\* bars: a 64-bit BAR takes two entries.
BarsBegin ==
  /\ d.pc = Nothing
  /\ driver' = [driver EXCEPT !.result = Nothing, !.pc = [at |-> "bars", infos |-> {}], !.bar = [at |-> "begin", i |-> 0]]

BarsNext ==
  /\ d.pc.at = "bars" /\ d.bar.at = "done"
  /\ LET info == d.bar.info
         next == d.bar.i + (IF info.kind = "mem64" THEN 2 ELSE 1)
         infos == d.pc.infos \cup {<<d.bar.i, info>>}
     IN  IF info.kind = "InvalidBarType"
         THEN Fails("InvalidBarType")
         ELSE IF next < BARS
         THEN driver' = [driver EXCEPT !.pc.infos = infos, !.bar = [at |-> "begin", i |-> next]]
         ELSE driver' = [driver EXCEPT !.pc = Nothing, !.bar = Nothing, !.result = [at |-> "bars", infos |-> infos]]

-----------------------------------------------------------------------------
\* enumerate_bus; a function that is not there reads as INVALID_READ.

enumerate_bus ==
  /\ d.pc = Nothing
  /\ driver' = [driver EXCEPT !.result = Nothing, !.pc = [at |-> "enumerate", next |-> <<0, 0>>, found |-> <<>>]]

\* The function after f, of the next device after the last.
Advance(f) == IF f[2] + 1 >= MAX_FUNCTIONS THEN <<f[1] + 1, 0>> ELSE <<f[1], f[2] + 1>>

EnumerateNext ==
  /\ d.pc.at = "enumerate"
  /\ LET current == d.pc.next
         found == IF current \in d.present THEN Append(d.pc.found, current) ELSE d.pc.found
     IN  IF current[1] < MAX_DEVICES
         THEN driver' = [driver EXCEPT !.pc.next = Advance(current), !.pc.found = found]
         ELSE driver' = [driver EXCEPT !.pc = Nothing, !.result = [at |-> "enumerated", found |-> d.pc.found]]

-----------------------------------------------------------------------------
\* PciTransport::new and HypPciTransport::new.

NotFound == [kind |-> "missing"]

\* The header of the capability at offset names the next one; 0 is the end.
NextOffset(offset) ==
  LET i == CHOOSE i \in DOMAIN d.order : d.order[i] = offset
  IN  IF i < Len(d.order) THEN d.order[i + 1] ELSE d.last

\* Offsets start at 1 here, 0 is None; a device without capabilities says so in
\* its status.
capabilities_offset == IF d.order = <<>> THEN 0 ELSE d.order[1]

\* CapabilityIterator::next: an offset at which no capability can be ends the
\* list.
next_capability_offset(offset) ==
  IF NextOffset(offset) \in DOMAIN d.caps THEN NextOffset(offset) ELSE 0

NewBegin ==
  /\ d.pc = Nothing
  /\ IF d.vendor # "VIRTIO_VENDOR_ID"
     THEN Fails("InvalidVendorId")
     ELSE driver' = [driver EXCEPT !.result = Nothing, !.pc = [at |-> "caps", offset |-> capabilities_offset,
                  found |-> [k \in {"common", "notify", "isr", "device"} |-> NotFound]]]

\* The first vendor capability of each kind that is long enough.
CapLast ==
  /\ d.pc.at = "caps" /\ d.pc.offset # 0
  /\ LET c == d.caps[d.pc.offset]
         taken == c.vendor /\ c.len >= 16 /\ c.kind \in DOMAIN d.pc.found
     IN  driver' = [driver EXCEPT !.pc.offset = next_capability_offset(@),
                                  !.pc.found = IF taken THEN [@ EXCEPT ![c.kind] = c] ELSE @]

Cap ==
  /\ d.pc.at = "caps" /\ d.pc.offset # 0
  /\ LET c == d.caps[d.pc.offset]
         taken == /\ c.vendor /\ c.len >= 16 /\ c.kind \in DOMAIN d.pc.found
                  /\ c.kind = "notify" => c.len >= 20
                  /\ d.pc.found[c.kind] = NotFound
     IN  driver' = [driver EXCEPT !.pc.offset = next_capability_offset(@),
                                  !.pc.found = IF taken THEN [@ EXCEPT ![c.kind] = c] ELSE @]

CapsEnd ==
  /\ d.pc.at = "caps" /\ d.pc.offset = 0
  /\ driver' = [driver EXCEPT !.pc = [at |-> "regions", left |-> Kinds, found |-> d.pc.found, regions |-> {}]]

Struct(kind) == CASE kind = "common" -> 8 [] kind = "notify" -> 2 [] kind = "isr" -> 1 [] kind = "device" -> 4

\* The checks on the structure of kind k that capability c puts in the BAR;
\* its size is also its alignment.  The sum is one of 32-bit numbers.
RegionError(k, c, info) ==
  CASE info.kind = "InvalidBarType" -> "InvalidBarType"
    [] info.kind = "io" -> "UnexpectedIoBar"
    [] info.kind \in {"mem32", "mem64"} ->
         CASE info.address = 0 -> "BarNotAllocated"
           [] info.address # 0 /\ ((c.offset + c.length) % WORD > info.size \/ Struct(k) > c.length) -> "BarOffsetOutOfRange"
           [] OTHER -> IF (info.address + c.offset) % Struct(k) # 0 THEN "Misaligned" ELSE "none"

\* get_bar_region; MMIO is mapped at its address, and Hyp uses the address.
pci_get_bar_region(k, c, info) == RegionError(k, c, info)
hyp_get_bar_region(k, c, info) == RegionError(k, c, info)

\* The notification structure needs an even multiplier; only the structure of
\* the device's own configuration may be missing.
RegionBegin ==
  /\ d.pc.at = "regions" /\ d.bar = Nothing /\ d.pc.left # <<>>
  /\ LET k == Head(d.pc.left)
         c == d.pc.found[k]
     IN  CASE c = NotFound /\ k = "device" -> driver' = [driver EXCEPT !.pc.left = Tail(@)]
           [] c = NotFound /\ k # "device" -> Fails("MissingConfig")
           [] c # NotFound /\ k = "notify" /\ c.multiplier % 2 # 0 -> Fails("InvalidNotifyOffMultiplier")
           [] OTHER -> driver' = [driver EXCEPT !.bar = [at |-> "begin", i |-> c.bar]]

RegionEnd ==
  /\ d.pc.at = "regions" /\ d.bar.at = "done"
  /\ LET k == Head(d.pc.left)
         c == d.pc.found[k]
         info == d.bar.info
         error == IF d.bus = "pci" THEN pci_get_bar_region(k, c, info) ELSE hyp_get_bar_region(k, c, info)
     IN  IF error # "none"
         THEN Fails(error)
         ELSE driver' = [driver EXCEPT !.bar = Nothing, !.pc.left = Tail(@),
                !.pc.regions = @ \cup {[kind |-> k, address |-> info.address + c.offset, length |-> c.length]}]

NewEnd ==
  /\ d.pc.at = "regions" /\ d.bar = Nothing /\ d.pc.left = <<>>
  /\ driver' = [driver EXCEPT !.pc = Nothing, !.result = [at |-> "transport", regions |-> d.pc.regions]]

new == NewBegin \/ Cap \/ CapsEnd \/ RegionBegin \/ RegionEnd \/ NewEnd
bars == BarsBegin \/ BarsNext

Next == SetBar \/ bar_info \/ bars \/ enumerate_bus \/ EnumerateNext \/ new

-----------------------------------------------------------------------------
\* Sizing a BAR leaves no trace: except between the two writes of bar_info to
\* it, every BAR holds the address that it was set to, whatever bar_info
\* returns and whichever BARs were sized before (bar_info).
BarsRestored ==
  \A i \in Slots :
    ~(d.bar.at \in {"mask", "restore"} /\ d.bar.i = i) => d.regs[i] = Kept(i, d.given[i])

Base(i) ==
  (d.given[i] \div d.hw[i].size) * d.hw[i].size + (IF d.hw[i].kind = "mem64" THEN WORD * d.given[i + 1] ELSE 0)

\* The capability of kind k that counts.
FirstCap(k) ==
  LET cap(i) == d.caps[d.order[i]]
      fit == {i \in DOMAIN d.order : /\ cap(i).vendor /\ cap(i).kind = k
                                     /\ cap(i).len >= IF k = "notify" THEN 20 ELSE 16}
  IN  cap(CHOOSE i \in fit : \A j \in fit : i <= j)

\* enumerate_bus finds every function that is on the bus once, of devices that
\* lack function 0 too (BusDeviceIterator).
AllFunctionsFound ==
  d.result.at = "enumerated" =>
    /\ {d.result.found[i] : i \in DOMAIN d.result.found} = d.present
    /\ Len(d.result.found) = Cardinality(d.present)

\* bars describes every BAR of the device once, with its address and size (16
\* for an I/O BAR that is smaller, since bar_info masks four bits of it), and a
\* transport that new returns has each of its structures where the first
\* valid capability puts it, wholly inside an allocated memory BAR (bars,
\* bar_info, CapabilityIterator, get_bar_region).
RegionsInBars ==
  /\ d.result.at = "bars" =>
       /\ {b[1] : b \in d.result.infos} = {i \in Slots : d.hw[i].kind # "top"}
       /\ \A b \in d.result.infos :
            IF d.hw[b[1]].kind = "unused"
            THEN b[2].size = 0
            ELSE b[2] = [kind |-> d.hw[b[1]].kind, address |-> Base(b[1]),
                         size |-> IF d.hw[b[1]].size < 16 THEN 16 ELSE d.hw[b[1]].size]
  /\ d.result.at = "transport" =>
       /\ {"common", "notify", "isr"} \subseteq {r.kind : r \in d.result.regions}
       /\ \A r \in d.result.regions :
            LET c == FirstCap(r.kind)
            IN  /\ d.hw[c.bar].kind \in {"mem32", "mem64"} /\ Base(c.bar) # 0
                /\ r.address = Base(c.bar) + c.offset
                /\ r.length = c.length /\ r.length >= Struct(r.kind)
                /\ r.address + r.length <= Base(c.bar) + d.hw[c.bar].size
=============================================================================
