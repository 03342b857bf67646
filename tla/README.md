# Verification of virtio-drivers-and-devices

TLA+ models of the `virtio-drivers-and-devices` crate. TLC checks them on small
instances; TLAPS proves most of the safety properties for every size: those of the
virtqueue and of its layout in memory, of the drivers that keep buffers on it, of the
credit of vsock connections and of the connection manager. `PROJECT.json` relates every
definition to the lines of source it models, lists the runs and the hazards they
aim at, and gives for every property a plausible bug (a mutated definition) that
violates it.

Paths below are relative to `src/src/`.

## The system

The crate holds guest drivers (block, console, GPU, input, network, entropy,
sound, vsock) and one device implementation, the host side of vsock. All of them
are built on the same layers.

| Part | Source | What it keeps, what it does | Model |
|---|---|---|---|
| `VirtQueue` | `queue.rs` | descriptor table with a trusted shadow, free list threaded through the shadow, available and used rings with wrapping indices, indirect lists, notification suppression | `VirtQueue`, `AbstractQueue`, `VirtQueueRefinement`, proofs |
| `DeviceVirtQueue` | `queue.rs` | the device's half: pops chains, maps their buffers, returns them | `DeviceVirtQueue`, `QueuePair` |
| `VirtQueueLayout`, page arithmetic | `queue.rs`, `lib.rs` | where the parts of a queue are | `QueueLayout`, proofs |
| `OwningQueue` | `queue/owning.rs` | a driver's queue that owns all its buffers and gives each back after handling it | `OwningQueue`, proofs |
| block, entropy, raw network, and all that is sent | `device/blk.rs`, `rng.rs`, `net/dev_raw.rs`, ... | blocking requests, and requests completed by token | `Requests` |
| console, input, network | `device/console.rs`, `input.rs`, `net/dev.rs` | receive buffers between driver, queue and client | `Console`, `Input`, `Net`, proofs |
| sound, GPU | `device/sound.rs`, `gpu.rs` | periods of a stream, commands and the DMA memory behind resources | `Sound`, `Gpu` |
| vsock driver and device | `device/socket/vsock.rs` | credit counters of a connection, packets to and from the peer | `VsockCredit`, proofs |
| vsock connection manager | `device/socket/connectionmanager.rs` | table of connections, listening ports, receive buffers | `ConnectionManager`, `RingBuffer`, proofs |
| transports | `transport/**` | status and feature negotiation, queue registers, configuration space, interrupts, PCI capabilities and BARs | `Transport`, `Lifecycle`, `ConfigSpace`, `PciBus` |
| Hal, locks, config, volatile, formats | `hal.rs`, `lib.rs`, ... | traits of the embedder, register access, wire formats | from their use, or without state |

A driver adds a request (a list of device-readable and device-writable buffers) to
a queue and gets a token; the device sees the chain through shared memory, works
on it, and returns the token through the used ring; the driver pops the token with
the buffers it added. Everything else in the crate relies on the queue to keep
tokens, descriptors and buffers apart. That is why the queue is the core of this
project, why its properties are proved and not only checked, and why the drivers
are modelled over an abstract queue that the concrete one is shown to implement.

Concurrency: a driver's queue is used through `&mut self`, so its calls do not
overlap, but the device runs between any two of its writes. The vsock managers are
`Send + Sync`, take `&self`, and lock their connection table, each connection and
each queue separately: threads interleave between the critical sections. A device
also changes its configuration, raises interrupts and completes a reset at times of
its own choice, between any two register accesses of a driver.

## Modules

```
AbstractQueue <--implements-- VirtQueueRefinement --EXTENDS--> VirtQueue <--EXTENDS-- QueuePair --INSTANCE--> DeviceVirtQueue
      ^                               ^                                                  ^
      | INSTANCE                      | EXTENDS                                          | EXTENDS
OwningQueue Input Console         MCVirtQueue                                       MCQueuePair
Net            RingBuffer
      ^            ^
      +--INSTANCE--+
      |
   Drivers <--EXTENDS-- Components --INSTANCE--> Requests, Sound, Gpu, ConfigSpace, PciBus,
                                                 Lifecycle --EXTENDS--> Transport --EXTENDS--> QueueLayout

VsockCredit <-- MCVsockCredit          ConnectionManager

proofs (each EXTENDS what is to its left):
BasicFacts  VirtQueue         <-- VirtQueueInvariant <-- VirtQueueProofs;  with VirtQueueRefinement <-- VirtQueueRingProofs
BasicFacts  QueueLayout       <-- DataStructureProofs;   with Drivers <-- DriverProofs
BasicFacts  VsockCredit       <-- VsockCreditProofs
BasicFacts  ConnectionManager <-- ConnectionManagerProofs
```

Definitions whose names say what is wrong with them (`RelinkForgotten`,
`CopyWithoutWrap`, ...) are faulty variants of the definition that follows. The
specifications do not use them; putting one in the place of its original must make
a property fail.

### VirtQueue

State: the six fields of the struct under their own names; `desc`, `avail`, `used`
for the memory shared with the device; `pc`, `cur`, `k`, `head`, `last`, `next`,
`original_free_head` for the locals of the call in progress; `outstanding`,
`enabled` and `shared` for the caller and the Hal; `device`, `notified`,
`interrupt` for the device; `free` and `chain` are history, the lists that the
links should represent, and no guard reads them.

| Action | Code |
|---|---|
| `AddBegin` | the checks of `add` (`InvalidParam`, `QueueFull` change nothing) |
| `AddDirect`, `AddDirectEnd` | the loop of `add_direct`, one descriptor per step, and its end |
| `AddIndirect` | `add_indirect`, which builds its list before the device can see it |
| `AddRing`, `AddPublish` | the slot of the available ring, then `avail.idx` |
| `Notify` | `should_notify` and the notification by the caller |
| `PopBegin`, `Recycle`, `RecycleEnd`, `RecycleIndirect` | `pop_used` with `recycle_descriptors` |
| `SetDevNotify` | `set_dev_notify` |
| `Sleep`, `Wake` | external: a caller that waits for an interrupt |
| `DeviceTake`, `DeviceUse`, `DeviceSuppress`, `DeviceArm`, `DeviceCheck`, `DeviceWake` | external: a device that follows the protocol, holds any number of chains and returns them in any order |

Abstractions: a buffer stands for the address that `Hal::share` returned for it; all
indirect lists have the one address `ListAddr`, the list itself is found through
`indirect_lists[head]`; byte lengths are left out. Memory is sequentially consistent: the
places where the code relies on fences are explored in program order only. The
shadow and the shared table are distinct variables, so a driver that trusted the
shared table would show.

`AbstractQueue` is the contract: a record with the free descriptors, the chains,
the request of every token, a FIFO of offered and a FIFO of returned tokens, the
set of tokens the device holds, and whether the device is awake. `Add`, `Notify`,
`Pop` and the device's `Take`, `Use` and `Sleep` are single steps. The order of the
free list is part of the contract because `OwningQueue`, the input and the network
driver rely on the first tokens being 0, 1, 2, ...

### DeviceVirtQueue and QueuePair

`DeviceVirtQueue` has one action per part of `poll` and `wait_pop_add_notify`:
`Begin` (peek at the available ring), `Walk` (one descriptor of the loop of
`pop_avail`, with `Keep` for the replacement of the mapping kept for that
descriptor), `MapFails` (`dma_map` returns an error: the call returns it and
`avail_idx` stays), `Handle` (the handler or the copy), `AddUsedRing`,
`AddUsedIdx` and `Notify`. A chain of the wrong direction is popped and recorded
in `withheld`; the code never returns it.

`QueuePair` is both halves on the same memory, as in the tests that pair the two.
`VirtQueue`'s variable `device` follows the real device, so the properties of
`VirtQueue`, its refinement of `AbstractQueue` included, are asked of the pair.
`Doze` and `WakeUp` are the device's thread waiting for a notification.
`dma_map` returns an address that is not in use, as its contract says ("won't alias
any other allocations or references in the program"); the branch of `pop_avail`
that forgets the new mapping because it equals the old one is then not taken.

### The drivers

Each driver module has a `queue`, which is an `AbstractQueue`, and a record `driver`
with the fields of the struct and the locals of the call in progress. A call that
blocks is one step up to its loop and one for the end of the loop; the device takes
and finishes requests in any order in between.

| Module | State | Actions |
|---|---|---|
| `OwningQueue` | the array `buffers` and where the owner is; an assertion on tokens that fails leads to `"panic"` | `new`, `poll` with its handler, `add_buffer_to_queue` |
| `Requests` | which queue, blocking or not; per request the token that the caller holds and what the device answered; the last result | one action per call: `read_blocks`, `flush`, `request_entropy`, `transmit_begin`, `receive_complete`, ... on `Begin`/`Complete` and `Call`/`Return` |
| `Net` | `rx_buffers` under tokens, the `idx` of each buffer, what the client holds | `receive`, `recycle_rx_buffer` |
| `Console` | `cursor`, `pending_len`, `receive_token`, the bytes in the buffer, the bytes that the last call gave | `recv`, `ack_interrupt`, and of the embedded-io traits `read`, `fill_buf` (both are `wait_for_receive` and `WaitEnds`) and `consume`, in any order |
| `Input` | `event_buf` and the event being returned | `Pop` and `Requeue`, the halves of `pop_pending_event` |
| `Sound` | what `set_up` stores, `setup` of a stream, `token_buf`, and the arrays of `pcm_xfer` | `set_up` within every call, `pcm_xfer` with `XferAdd` and `XferPop` for the halves of its loop, `pcm_xfer_nb`, `pcm_xfer_ok`, in any order: `pcm_xfer` also starts with the periods of `pcm_xfer_nb`, or of a call that returned early, in the queue |
| `Gpu` | the call and its next command, `rect`, the three `Dma` objects; the device's resources | `Call`, `Alloc`, `Request`; the table `Steps` is the sequence of commands of each call; `Resize` is the host |

Data is cut down to what tells buffers apart: an event or a byte is its number in the
device's order, modulo a number larger than what can be on its way.

### VsockCredit

Flow control on one open connection between `VsockConnectionManager` (guest) and
`VsockDeviceConnectionManager` (host), with the counters of `ConnectionInfo` under
their names. On each side a set of sender threads calls `send`; one thread polls and
reads, as the example in `connectionmanager.rs` proposes; nobody calls `update_credit`. A step is
one critical section. `Check` and `Send` are the two sections of `send`; headers are
made under the connection's lock and queued under the queue's (`GuestTransmit`,
`HostTransmit`), so they can overtake each other. The guest blocks in
`add_notify_wait_pop` until the host has polled its packet, the host in
`wait_pop_add_notify` until the guest has an rx buffer for it. Connection set-up and
teardown are in `ConnectionManager`.

### ConnectionManager

The table `connections` with its order (`swap_remove` moves entries), the
`Connection` objects apart from it (an `Arc` outlives its entry), `listening_ports`,
and per thread the section it is in. `poll` holds the lock of the table while it
waits for that of the queue; `poll_direct` has the locks the other way round, with
the table's for a part of its callback. Packets are sent without the table's lock and a
send may fail: `connect` and `accept` then take back their entry (`Undo`). Peers send
any packet at any time. `offered` are new connections that `poll_direct` returned
and the client has not accepted yet; `owed` is history: the connections with
a `Shutdown` not answered so far. A behaviour of the model polls with `poll` or with
`poll_direct` (`direct` says with which). The documentation does not forbid to use both on one
manager; two threads that do take the two locks in opposite orders and may wait for each
other, and this is outside the model.

### RingBuffer

`add` and `drain` with their two copies around the end of the buffer, against
`contents`, the sequence of bytes that the buffer stands for.

### QueueLayout, Transport and Lifecycle

`QueueLayout` has sizes, offsets and pages as operators with the source's names.
`Transport` turns each method of a transport into the sequence of its register
accesses, in their order; a legacy MMIO device reconstructs the layout of a queue from
a page number and the alignment (`View`). `Lifecycle` runs the constructor of each of
the eight drivers, a table such as `console_new`, one access at a time over each
transport: `begin_init`, `VirtQueue::new` with its checks and allocations, filling
and notifying queues, `finish_init`; then use; then the driver's `Drop` and the
drops of its fields in the order of the struct, or, after an error at any step, the
drops of what there was. A driver may be made again for the device that it left.
A reset, or a queue that is told to stop, takes effect some time after the
register was written.

### ConfigSpace

Reads of several fields under `read_consistent` while the device changes its
configuration, the queries of `VirtIOInput` through the select window (into a slice of the
caller, which cuts the answer, into a struct, which refuses an answer of another size, and into
memory allocated for it), and `ack_interrupt` while the device raises interrupts, over each
transport with its checks of bounds.
During one read the generation counter does not come round.

### PciBus

`bar_info` one access at a time, `bars`, `set_bar_32`, `set_bar_64`, the enumeration of a
bus, and the constructors of the two PCI transports: the walk over the
capabilities, which take the first of each kind, and the checks of `get_bar_region`.
2^32 is 256, six BARs are three, 32 devices of 8 functions are 2 of 2.

### Drivers and Components

A behaviour of `Drivers` is a behaviour of `OwningQueue`, `Input`, `Console`, `Net` or
`RingBuffer`, named by `kind`, and one of `Components` is one of these or of the other modules above.
The components do not share state; the two modules state their properties side by
side, and `Components` the fairness of those that have liveness properties.

## Runs

| Run | What it shows | Bounds |
|---|---|---|
| `virtqueue_direct` | no descriptor is lost or used twice, the links thread the free list, `unshare` gets what `share` returned | 4 descriptors, requests of 2, 1 and 1 buffers, 6 adds: all three chains outstanding at once, returned in each order, and added again from the reordered free list. The two small requests are symmetric, and so are their buffers |
| `virtqueue_features` | with indirect lists and event indices negotiated: no panic, the device finds the caller's buffers, exactly the outstanding ones are shared, no notification and no interrupt is lost; and the queue implements `AbstractQueue` with its liveness, which fails if either is lost while both sides sleep | 2 descriptors, index modulus 4, requests of 2, 1 and 1 buffers, all reachable states: the queue is full and empty at every value of the indices |
| `virtqueue_event_idx_wrap` | *violation*: see Findings | as above, direct descriptors |
| `pair_notify` | the two halves implement `AbstractQueue`, and neither thread sleeps through a buffer | 2 descriptors, 2 requests, index modulus 4 |
| `pair_mixed` | with both calls on one queue and chains in either and in both directions, the handler gets the caller's buffers, mappings are neither leaked nor mixed up, buffers are accessed only while shared and mapped, only chains of the wrong direction are kept back, and the driver's chains never meet an error of `pop_avail` | 2 descriptors, 4 requests of 1 and 2 buffers, one failing `dma_map`. Chains that are kept back may fill the queue, so the system may stop |
| `vsock_credit` | bytes are counted once across the wrap, credit is never overestimated, nothing is dropped, and all data gets through on requested updates alone | capacity 2, 3 bytes each way, counters modulo 8 starting at 6, 4 rx buffers: as many as the host can have packets on their way (2 of data, a request, an update). Traffic is bounded, so the system stops |
| `vsock_standstill`, `vsock_two_senders` | *violations*: see Findings | capacity 2, 4 bytes each way; one sender and 2 rx buffers, or two senders and 4 rx buffers |
| `connections` | with `poll` no two connections have the same addresses; no step removes a connection that it is not about, although entries move while a call waits to take back its own; unread data is removed only in the five ways that `Loses` lists; a peer that shuts down is answered | a client and a poller, 2 peers, 1 port, buffers of one packet, 3 packets, 1 failing send, 3 `Connection` objects: enough for two in the table and one that a thread still holds. Three packets are data, a `Shutdown` that has to wait for it, and then a `Reset` or another request, on a connection of `connect`, which needs no packet |
| `connections_request` | *violation*: see Findings | the same |
| `components` | the properties of the drivers, the ring buffer, the life cycle, the configuration space and the PCI bus; see the next table | below |
| `lifecycle_hyp` | *violation*: see Findings | all drivers over `HypPciTransport`, made once |

| Property of `components` | What it says | Bounds |
|---|---|---|
| `OwnedBuffersKept`, `BuffersCirculate` | a buffer of an `OwningQueue` keeps its token for ever, none is lost, and the device gets each of them again and again | 3 buffers |
| `EventsInOrder` | input events are returned in the device's order, none lost or repeated, however the device orders its buffers | 3 buffers, numbers modulo 4 |
| `NextBytes` | what `recv`, `read` or `fill_buf` gives a console's client begins with the first byte that `recv` and `consume` have not taken, and is in order; the bytes to come are all those that the device has written since, and it is not asked to write over one. `read` takes nothing: called again, it gives the same bytes again | buffer of 2 bytes, numbers modulo 4, every call in every order |
| `AllBytesArrive` | a client that keeps taking bytes with `recv`, or with `fill_buf` and `consume`, is given more. It is not about a client that only calls `read`, which never gets beyond one buffer, nor about one that takes the last byte with `consume` and goes on with `recv` alone, for which nobody asks the device again | the same |
| `BuffersUnderTheirTokens` | a network buffer is stored under the token the device has it under, through reordered returns, recycling in any order, and packets too short for a header | 3 buffers, 1 short packet |
| `EachRequestItsAnswer`, `CallsReturn` | a request gets the answer to itself and its buffers leave the queue with it; blocking calls return | 8 descriptors, 2 requests per type: the queue fills up |
| `EveryPeriodPlayed` | a `pcm_xfer` that returns `Ok` has had every period of it played and given back; its circular arrays hold for each of its tokens its own period and status, and it pops no other call's; it panics (`unwrap` at the tail) only when the device has finished a period of another call; `token_buf` holds what was added; `set_up` after an error leaves no trace of the first attempt. After an error `pcm_xfer` promises nothing of the periods it leaves in the queue | 3 slots, up to 4 periods: `head` comes round to `tail`; periods of one earlier `pcm_xfer` and 2 of `pcm_xfer_nb` may be in the queue |
| `BackingOwned` | what backs a GPU resource is memory the driver owns, of its size, unless the device refused a command after the attach | 3 areas, 2 sizes, 2 refusals |
| `FirstInFirstOut` | the ring buffer returns the oldest bytes and refuses exactly what does not fit | capacity 3, slices up to 4 bytes: every start and length, one too long |
| `QueuesAsLaidOut` | an enabled queue is where the driver laid it out at every step | every driver and transport, made twice |
| `MemoryOutlivesDevice` | memory is freed only once the device cannot reach it: always over PCI; over MMIO for queues of drivers with a `Drop` | the same |
| `InitialisedInOrder` | a running device has the negotiated features and all its queues, also the second time | the same |
| `AnswersConsistent` | `read_consistent` returns one configuration (legacy MMIO, which has no generation, excepted), a query the size of the answer to its own question and all its bytes, or those that the slice given to `query_config_select` has room for | spaces of 1, 6, 10 and 12 bytes or none, 3 generations and values |
| `NoCauseLost` | no cause of an interrupt is cleared without being returned | two causes |
| `BarsAndRegions` | sizing restores every BAR, `bars` describes each once, structures lie inside BARs, enumeration finds every function once | BARs of each type, allocated or not; lists with capabilities that are too short, repeated, out of range or missing |

One index bit beyond the slot is enough to tell a full ring from an empty one and
to meet the wrap at every fill level; 2^16 adds nothing because no guard depends on
the distance to the modulus, except the comparison of `should_notify` that
`virtqueue_event_idx_wrap` is about.

### Fairness

* `VirtQueue`, `QueuePair`: a call that has begun goes on (it runs in a thread of its
  own and never blocks); a caller pops what can be popped (the drivers poll or spin on
  `can_pop`) and wakes when interrupted; a device takes offered chains, returns each
  of them, and wakes when notified. Nobody is obliged to add.
* `VsockCredit`: calls that can go on do; senders retry, as the text of
  `InsufficientBufferSpaceInPeer` asks; the polling loop both polls and reads. Both
  compete for one thread, so a packet or unread data that is there again and again is
  handled some time: strong fairness on the two, which any loop with both calls in
  its body gives.
* `Components`: the owner of an `OwningQueue` keeps polling and its handler returns; a
  client of the console takes bytes, with `recv` or `consume`, as long as there are any, and
  after a `consume` that used up the buffer asks for more with `fill_buf` (`Takes`; strong
  fairness, since `read` and the other calls may come in between); a blocking call goes
  on with its loop; a device takes and finishes what it was given. The other
  components have no liveness property and no fairness.
* `ConnectionManager`: sends end, the poller polls, the client reads whatever connection has data.
  Strong fairness, since a lock may be taken and released again and again while a
  thread waits for it: the assumption is on the embedder's `Lock`, that no thread
  loses every race for it.

## Findings

* **`should_notify` with event indices** (`queue.rs:341`). The doc says "This will be false
  if the device has supressed notifications." The comparison is not wrap-aware:
  after `avail_event` has wrapped and before `avail_idx` has, it is true for a device
  that asked not to be notified. The passing run `virtqueue_features` shows that the
  error is on the safe side for a device that asks for the next buffer: nothing is lost.
* **Credit check and count are two critical sections** (`device/socket/vsock.rs:528`). Two
  threads sending on one connection can spend the same credit; the peer drops the
  data that does not fit.
* **Pollers that wait for each other** (`device/socket/connectionmanager.rs:626`). `poll`
  answers a credit request synchronously. If the rx queue is full (8 buffers hold 8
  packets, however small, of the 1024 bytes of credit) and both sides answer at once, neither polls
  again. `EverythingArrives` passes in `vsock_credit` because there is an rx buffer for every packet
  that credit allows, and this is the assumption under which liveness is claimed.
* **No reset when a `HypPciTransport` is dropped** (`transport/x86_64.rs:240`). Its `queue_unset`
  does nothing, like that of `PciTransport`; but `PciTransport` resets the device in its
  `Drop` and waits, and `HypPciTransport` has no `Drop`. The drivers free their queues while the
  device still uses them, which their `Drop` is there to prevent ("Clear any pointers
  pointing to DMA regions, so the device doesn't try to access them after they have been freed").
* **A request for a connection that exists** (`device/socket/connectionmanager.rs:594`). The comment in
  `poll` says "If the requested connection already exists or the CID isn't ours, ignore it." The lookup
  before it takes the branch of a known connection, so the test is never true for one that exists:
  if nobody listens on the port, `poll` removes the connection, with its unread data, and resets it
  (`connections_request`). `UnreadDataKept` names this case among those in which data is lost.

Exceptions that the properties name, because the code does not cover the case:
over MMIO the reset in `Drop` is not waited for, so the memory of `VirtIOSound`, which has no `Drop`
(its queues are not unset), and the memory behind GPU resources are left out of
`MemoryOutlivesDevice`; a GPU command that is refused after `resource_attach_backing`
leaves the device with an area that has been freed (`device/gpu.rs:118`, left out of `BackingOwned`);
`jack_remap` panics if the device has jacks and refused to describe them (`device/sound.rs:342`);
`read_consistent` over legacy MMIO can mix two configurations; `poll_direct` and `accept` can
make a second connection with the same addresses, since the lookup and the insertion are two
calls (`UniqueConnections` is about `poll`), and a reset that `poll_direct` meets discards unread data;
`read` of the console does not move the cursor (`device/console/embedded_io.rs:44`), so that it repeats what it
gave; `recv` asks the device for more only after taking a byte, so that after a `consume` of the last one
it returns `None` for ever (`device/console.rs:205`); `pcm_xfer` returns at the first period that fails or comes back out
of order, with later ones still in the queue (`device/sound.rs:548`), and the next call may then
return `WrongToken` or panic when one of them comes back.

## Proofs

The theorems hold for every value of the constants that satisfies the named assumptions,
each of which TLC evaluates in a run. A theorem `Spec => []P` is proved from an invariant
that every step preserves, one lemma for each action, and that implies `P`; the temporal
step at the end is propositional.

### VirtQueue

| Module | Theorem | Statement |
|---|---|---|
| `VirtQueueProofs` | `Invariance` | `Spec => []IInv` |
| | `TypeCorrect` | `Spec => []TypeOK` |
| | `NoDescriptorLost` | `Spec => []DescriptorsAccounted` |
| | `FreeListIntegrity` | `Spec => []FreeListLinked` |
| | `PanicFree` | `Spec => []NoPanic` |
| | `UnshareCorrect` | `Spec => []UnshareMatchesShare` |
| | `SignalsKept` | `Spec => []SignalInv` |
| | `NotificationsKept` | `Spec => []NoLostNotification` |
| | `InterruptsKept` | `Spec => []NoLostInterrupt` |
| | `BuffersLive` | `Spec => []SharedInv` |
| | `SharesKept` | `Spec => []SharedExactly` |
| | `TablesMirrored` | `Spec => []TableInv` |
| `VirtQueueRingProofs` | `RingsExact` | `Spec => []RingInv` |
| | `DeviceReadsRequests` | `Spec => []DeviceSeesRequest` |
| | `ImplementsQueue` | `Spec => Abstract!Safety` |

Assumptions: `SizeAssumption` (what `SIZE_OK` asserts at compile time, with the
modulus divisible by the size as 2^16 is), `RequestAssumption` (buffers are exclusive, as
Rust's borrows make them), `ConstantAssumption` and `ListAssumption` (distinct values).

None of the properties is inductive. That `recycle_descriptors` does not panic depends on
what the shadow says about a chain added long ago, and that in turn on nobody having
touched its descriptors since. `IInv` says, beside the properties:

* `ChainInv`: the shadow of every outstanding chain is linked as the history `chain` says, ends
  where the request ends, and carries the request's addresses; a head without a request has no
  indirect list;
* `AddInv`: the same for the first `k` descriptors of the chain being built, which is
  linked on into the rest of the free list, and enough descriptors are left for the rest;
* `RecycleInv`: `next` is the `k+1`st descriptor of the chain being recycled, and the last one, once
  reached, is linked to the old free list.

A pigeonhole argument shows that a chain is never longer than the descriptors it is made of.

`SignalInv` is about the order of stores and loads: a device that is not awake has asked for
exactly the next buffer, and one asleep with a buffer available was notified or is about to be
(`NotifyInv`); `used_event` and the flag follow the caller, and a caller asleep that can pop has
an interrupt (`InterruptInv`). The comparison of `should_notify` that is not
wrap-aware (see Findings) is part of this: the proof shows that it is true whenever the device asked for
the buffer just published. `SharedInv` says of each buffer of each request that it is
shared exactly while its request is outstanding, being built up to it, or being recycled and not yet at it.
`RingInv` says that the window of the available ring, the chains that the device holds and the
window of the used ring are together the outstanding tokens, each once; that the windows do
not overlap themselves, wherever the indices wrap, follows by counting. `TableInv` says that the shared
table mirrors the shadow for every chain in use, with the directions of the request; the walk that
the device makes from a head, direct or through a list, then meets the buffers of the request, by
induction along the chain.

`ImplementsQueue` is the safety part of the refinement: every step of the queue, seen through `View`
(`VirtQueueRefinement`), is a step of `AbstractQueue` or changes nothing there (`StepRefines`). A call of `add`
is hidden until it stores the index: until then its descriptors are, for the view, still at the
front of the free list (`BuildingHidden`). That store is `Add` (`PublishAdds`), `should_notify` with its
notification is `Notify` (`NotifyWakes`), the last step of `recycle_descriptors` is `Pop` (`RecyclePops`), and
the steps of the device are `Take`, `Use` and `Sleep` (`DeviceTakes`, `DeviceUses`, `DeviceRests`). That a
window of a ring behaves as a sequence, appended to by one side and read from the front by the other, is
`RingInv`; that no device sleeps on an available buffer once `Notify` is done is `SignalInv`; that the token
popped has the request it was added with is `IInv`; that a request is never added twice is `SharedInv`.

### Drivers

| Module | Theorem | Statement |
|---|---|---|
| `DriverProofs` | `OwningQueueKeepsBuffers` | `DriverSpec => []OwnedBuffersKept` |
| | `InputEventsInOrder` | `DriverSpec => []EventsInOrder` |
| | `NetBuffersStored` | `DriverSpec => []BuffersUnderTheirTokens` |
| | `ConsoleBytesInOrder` | `DriverSpec => []NextBytes` |
| | `RingBufferIsFifo` | `DriverSpec => FirstInFirstOut` |

Assumption: `DriverAssumption` (sizes, that of the console's buffer included, are positive, `None` is not a value of another kind).

What a driver may rely on is the order of the free list, and `DataStructureProofs` says what that
order is, as facts about queues as values. `OneInv` describes a queue all of whose requests need one
descriptor: the free tokens and the outstanding ones partition the tokens, a token has a request
exactly if it is outstanding, and the three places of the outstanding ones are disjoint. `Full`
is the queue with request `t` under every token `t`, `AllBut(t)` the same without `t`, whose free list is
then `<<t>>`: so the buffer just popped, and no other, gets its token back. `Adding(n)` is the loop of
the constructors. There is one lemma for each operation of the queue and each of these shapes.

* `OwningInv`: the queue is `Adding`, `Full` or `AllBut` the token in the handler, and buffer `t` is at
  `buffers[t]`.
* `InputInv`: the same, and the events in the returned buffers are numbered consecutively (`Numbered`).
* `NetInv`: several buffers may be away, so tokens change; `Stored` says that `rx_buffers` is the inverse
  of `idx` on the queue, and who has the buffers that are not on it.
* `ConsoleInv`: either the one buffer is with the device, or came back with the bytes that
  follow what was taken, or is with the driver with the rest of them between `cursor` and
  `pending_len` (`Receiving`), in each of the states in which `receive_token` can be; what a call gives is
  then read off the buffer at the cursor. `ConsoleBytesInOrder` is about the bytes that `recv` and `consume`
  take: `read`, which takes none, is shown to begin with the first of those left, not to give each byte once.
* `RingInv`: `used` is the number of bytes added and not yet drained, and the byte at
  `(start + i) % Capacity` is the `i`-th of them. A lemma on wrapping positions (`Wraparound`) says where
  each byte is after the two copies of `add` and `drain` (`AddPositions`, `DrainPositions`).

`DataStructureProofs` also proves, for every queue size, 1 or even (the code allows powers of two):

| Theorem | Statement |
|---|---|
| `LegacyDeviceAgrees` | the used ring of a legacy queue is at the page boundary where the device looks for it |
| `LegacyPartsDisjoint` | the three parts of a legacy queue are aligned, do not overlap and fit into the pages allocated, which are those that the device half maps |
| `FlexiblePartsFit` | the same for the two areas of a modern queue |

The first is not obvious: `align_up` skips a page after a size that is a multiple of the
page, and the device does not. It holds because half of the size of descriptors and available
ring, 9n + 3, is odd for even n, so that their end is never on a page boundary.

### vsock

| Module | Theorem | Statement |
|---|---|---|
| `VsockCreditProofs` | `CountersExact` | `Spec => []AccountInv` |
| | `CreditInvariant` | `AtMostOneSender => (Spec => [](AccountInv /\ CreditInv))` |
| | `BytesAreAccounted` | `AtMostOneSender => (Spec => []BytesAccounted)` |
| | `CreditSafe` | `AtMostOneSender => (Spec => []CreditIsSafe)` |
| | `NothingIsLost` | `AtMostOneSender => (Spec => []NothingLost)` |
| `ConnectionManagerProofs` | `ConnectionsUnique` | `Spec => []UniqueConnections` |
| | `RemovesItsOwn` | `Spec => OthersKept` |
| | `KeepsUnreadData` | `Spec => UnreadDataKept` |

`CreditAssumption` bounds the bytes of a behaviour below the modulus, as 2^32 is beyond what is ever on its
way at once. `CountersExact` needs nothing else: with any number of senders the counters count what was made
and read. The other three are false with two senders on a side (run `vsock_two_senders`), hence the
hypothesis `AtMostOneSender`. `CreditInv` is the strengthening: the bytes that a sender has checked still fit
when it sends them, and every `fwd_cnt` that it may yet see, in a header being made, sent or queued, is one
that its peer has had. An older one only makes `peer_free` smaller, which is why headers may overtake each other.

`ConnectionAssumption` says that `None` is neither an address nor a packet. The invariant is that the table
has no two entries with the same addresses (unless `poll_direct` is used), with the types of the threads' locals. The
two action properties are proved step by step from it: an entry leaves the table through `swap_remove` at an index
looked up in the same critical section, or through `retain` of an entry the thread added. `KeepsUnreadData` covers
`poll` and `poll_direct`, and every step: an entry that leaves had no unread data, or the step is one of the five that
`Loses` lists, on that very connection.

### BasicFacts

Facts about numbers and sequences. Recursive functions (the walk along a chain, sums over threads, `retain`, the
loops of constructors) are reasoned about by induction: the induction principles of the library take a
predicate as a parameter, which the provers cannot instantiate, so `BasicFacts` derives
principles with a set in place of the predicate from the well-foundedness of the numbers, and from them
that a recursive function over an interval satisfies its equation.

### Left to TLC

* Liveness and fairness: out of the prover's reach.
* The fairness part of `ImplementsAbstractQueue`, for that reason; its safety part is `ImplementsQueue`.
* `QueuePair`: the properties of the mappings (`DeviceHandlesRequest`, `AccessesAreMapped`, `MappingsKept`,
  `OnlyUnsuitableWithheld`, `DriverChainsAccepted`) would need an invariant of both halves.
* `EachRequestItsAnswer`, `EveryPeriodPlayed`, `BackingOwned`, and the properties of the life cycle, the
  configuration space and the PCI bus: these modules are tables of register accesses, commands and answers
  over finite sets, which TLC explores whole; a proof would be a case distinction over the
  same table.

## Not modelled

* Lengths in bytes that a device writes to the used ring, and slices taken by them.
* Weak memory: reordering of stores and loads that the fences do not exclude.
* A device that breaks the protocol (returns a token twice, writes to tables it must only read).
* Overflow of `offset + length` in a PCI capability and of `width * height * 4` of a display, and 64-bit
  BARs of 4 GiB and more: the functions and displays of the runs stay below 2^32. A list of capabilities that loops.
* Blocking calls while other requests are outstanding on the queue, against the documented assumption of
  `add_notify_wait_pop` ("that the device isn't processing any other buffers at the same time"): the call
  then returns `WrongToken` with its own buffers still in the queue. The same in `pcm_xfer` is modelled.
* `poll` and `poll_direct` on one manager from two threads: they take its two locks in opposite orders.
* The memory of frames and status words that periods left in the queue by `pcm_xfer` still refer to.
* A failing `send` in `VsockCredit` (credit spent on a packet that never left); `ConnectionManager`
  has failing sends but no credit.
* `setup_framebuffer` called a second time changes `rect` before it fails (`device/gpu.rs:101`):
  what is drawn is not modelled, only the memory it is drawn in.
* `VirtIOInput::new` notifies the device before `DRIVER_OK` (`device/input.rs:50`); the model
  does so too, and a device that ignores the notification finds the buffers later.
* `MmioTransport::new`, which checks constant registers; `MmioCam`, which computes the address of a
  configuration access; the PCI command and status register; hypercall encodings.
* Wire formats, register layouts, volatile access, error conversion, feature bits: no state.
* The fakes under `hal/`, `transport/` and `device/`, the unit tests and the examples: not part of
  the system.
