------------------------------- MODULE QueuePair -------------------------------
(***************************************************************************)
(* The two halves of the crate on one queue: a VirtQueue and a             *)
(* DeviceVirtQueue that share the descriptor table and the rings, each     *)
(* with its own indices and each run by its own thread, as in the          *)
(* queue_pair_test of queue.rs.  The variable `device` of VirtQueue, its   *)
(* view of an unspecified device, follows the state of the DeviceVirtQueue *)
(* so that the properties of VirtQueue can be asked of the pair.           *)
(***************************************************************************)
EXTENDS VirtQueue

CONSTANTS Calls, MaxMapFailures

VARIABLES
  dev_avail_idx, dev_last_used_idx, desc_mapped,
  dev_pc, op, dev_head, token, popped, result,
  mapped, map_failures, withheld

DeviceSide == INSTANCE DeviceVirtQueue WITH
  avail_idx <- dev_avail_idx,
  last_used_idx <- dev_last_used_idx,
  pc <- dev_pc,
  head <- dev_head

dev == <<dev_avail_idx, dev_last_used_idx, desc_mapped, dev_pc, op, dev_head, token, popped,
         result, mapped, map_failures, withheld>>

pairVars == <<vars, dev>>

PairInit == Init /\ DeviceSide!Init

\* The chains the device has popped and not returned.
Held ==
  {h \in Desc : withheld[h] # None}
    \cup (IF dev_pc \in {"handle", "used_ring", "used_idx"} THEN {dev_head} ELSE {})

\* device is what the DeviceVirtQueue has come to.
Follow == device' = [device EXCEPT !.avail_idx = dev_avail_idx', !.held = Held']

driverSide == <<fields, call, outstanding, enabled, shared, history>>

DeviceStep ==
  /\ device.state = "awake"
  /\ DeviceSide!Next
  /\ Follow
  /\ UNCHANGED <<driverSide, notified>>

\* The device's thread may wait for a notification when a call finds nothing.
Doze ==
  /\ sleeping
  /\ device.state = "awake"
  /\ dev_pc = "idle"
  /\ ~DeviceSide!can_pop
  /\ device' = [device EXCEPT !.state = "asleep"]
  /\ UNCHANGED <<driverSide, desc, avail, used, notified, interrupt, dev>>

WakeUp ==
  /\ device.state = "asleep"
  /\ notified
  /\ notified' = FALSE
  /\ device' = [device EXCEPT !.state = "awake"]
  /\ UNCHANGED <<driverSide, desc, avail, used, interrupt, dev>>

PairNext ==
  \/ Driver /\ UNCHANGED dev
  \/ DeviceStep
  \/ Doze
  \/ WakeUp

PairSpec == PairInit /\ [][PairNext]_pairVars

\* Each thread goes on with the call it has begun; the device's thread keeps
\* calling and wakes when notified, the driver's pops what can be popped and
\* wakes when interrupted.
PairFairSpec ==
  /\ PairSpec
  /\ WF_pairVars(CallStep /\ UNCHANGED dev)
  /\ WF_pairVars((\E t \in Desc : PopBegin(t)) /\ UNCHANGED dev)
  /\ WF_pairVars(interrupt /\ Wake /\ UNCHANGED dev)
  /\ WF_pairVars(DeviceStep)
  /\ WF_pairVars(WakeUp)

-----------------------------------------------------------------------------
Contents(buffers, write) == [i \in 1 .. Len(buffers) |-> <<buffers[i].addr, write>>]

\* What the handler of poll reads, or wait_pop_add_notify writes, are exactly
\* the buffers of one request in the caller's order, although pop_avail reads
\* the table descriptor by descriptor while the driver adds and recycles others.
DeviceHandlesRequest ==
  dev_pc = "handle" =>
    /\ outstanding[dev_head] # None
    /\ Contents(popped.read_buffers, FALSE) \o Contents(popped.write_buffers, TRUE)
         = Asked(outstanding[dev_head])

\* Every buffer the device may access is still shared by the driver and still
\* mapped: keeping the mapping of one descriptor never unmaps the buffer of
\* another one of the same chain.
AccessesAreMapped ==
  LET buffers == Range(popped.read_buffers) \cup Range(popped.write_buffers)
  IN  \A b \in buffers : b.addr \in shared /\ b.vaddr \in mapped

\* Each mapping that dma_map made and dma_unmap has not ended is kept for one
\* descriptor, also after a chain that could only be mapped in part.
MappingsKept ==
  /\ mapped = {desc_mapped[d].vaddr : d \in {c \in Desc : desc_mapped[c] # None}}
  /\ \A c, d \in Desc : c # d /\ desc_mapped[c] # None /\ desc_mapped[d] # None
       => desc_mapped[c].vaddr # desc_mapped[d].vaddr

\* pop_avail's assertion and its InvalidDescriptor error, which would leave the
\* chain at the head of the queue for ever, are not met with this driver: add
\* puts the inputs first and links only descriptors of the chain.
DriverChainsAccepted == dev_pc # "panic" /\ result # "invalid_descriptor"

\* poll keeps only chains with a write buffer and wait_pop_add_notify only
\* chains with a read buffer: a queue used in one direction loses none.
OnlyUnsuitableWithheld ==
  \A h \in Desc :
    /\ withheld[h] = "poll" => outputs[outstanding[h]] # <<>>
    /\ withheld[h] = "wait_pop_add_notify" => inputs[outstanding[h]] # <<>>
=============================================================================
