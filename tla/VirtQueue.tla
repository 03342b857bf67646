------------------------------- MODULE VirtQueue -------------------------------
(***************************************************************************)
(* The driver's half of a split virtqueue (src/queue.rs, VirtQueue): the   *)
(* descriptor table and its trusted shadow, the free list threaded through *)
(* the shadow, the available and used rings with their wrapping u16        *)
(* indices, indirect descriptor lists and notification suppression.        *)
(*                                                                         *)
(* The driver shares the rings with a device that runs concurrently, so a  *)
(* call of add or pop_used is a sequence of steps (pc), one for each group *)
(* of writes that the device could observe separately.  No two calls of    *)
(* the driver overlap: every one of them takes &mut self.                  *)
(*                                                                         *)
(* The device and the caller are external: the caller keeps the contract   *)
(* of the unsafe functions (it pops a token with the buffers it added),    *)
(* the device follows the virtio protocol, may hold many chains at a time, *)
(* and completes them in any order.                                        *)
(***************************************************************************)
EXTENDS Integers, Sequences, FiniteSets, Functions

CONSTANTS
  SIZE,          \* number of descriptors (const generic SIZE)
  IndexModulus,  \* ring indices wrap here: 2^16 in the code
  Buffers,       \* caller buffers; a buffer stands for its shared address too
  Requests,      \* what the caller may ask for, each with its own buffers
  inputs,        \* [Requests -> Seq(Buffers)], read by the device
  outputs,       \* [Requests -> Seq(Buffers)], written by the device
  indirect,      \* VIRTIO_F_INDIRECT_DESC was negotiated
  event_idx,     \* VIRTIO_F_EVENT_IDX was negotiated
  sleeping,      \* whether caller and device sleep between notifications, or only poll
  None,          \* Rust's None
  ListAddr       \* address of the indirect list that a descriptor points to

Desc == 0 .. SIZE - 1
Index == 0 .. IndexModulus - 1

\* InputOutputIter: the inputs of a request, then its outputs.
Bufs(r) == inputs[r] \o outputs[r]

IsWriteOutputsFirst(r, i) == i <= Len(outputs[r])

IsWrite(r, i) == i > Len(inputs[r])

(***************************************************************************)
(* SIZE_OK: the size is a power of two that fits a u16, so it divides the  *)
(* index modulus and is smaller than it.  Buffers are non-empty, exclusive *)
(* to one request and used once in it (they are &mut or borrowed slices).  *)
(***************************************************************************)
ASSUME SizeAssumption ==
  /\ SIZE \in Nat \ {0}
  /\ IndexModulus \in Nat
  /\ IndexModulus > SIZE
  /\ IndexModulus % SIZE = 0

ASSUME RequestAssumption ==
  /\ inputs \in [Requests -> Seq(Buffers)]
  /\ outputs \in [Requests -> Seq(Buffers)]
  /\ \A r \in Requests : \A i, j \in 1 .. Len(Bufs(r)) :
       Bufs(r)[i] = Bufs(r)[j] => i = j
  /\ \A r, s \in Requests : r # s =>
       \A i \in 1 .. Len(Bufs(r)), j \in 1 .. Len(Bufs(s)) :
         Bufs(r)[i] # Bufs(s)[j]

ASSUME ConstantAssumption ==
  /\ indirect \in BOOLEAN
  /\ event_idx \in BOOLEAN
  /\ sleeping \in BOOLEAN
  /\ None \notin Desc /\ None \notin Requests /\ None \notin Buffers
  /\ ListAddr \notin Buffers /\ ListAddr # None

VARIABLES
  \* fields of VirtQueue
  num_used, free_head, desc_shadow, avail_idx, last_used_idx, indirect_lists,
  \* memory written by the driver and read by the device
  desc,          \* descriptor table
  avail,         \* [ring, idx, flags, used_event]
  \* memory written by the device and read by the driver
  used,          \* [ring, idx, flags, avail_event]
  \* the call in progress
  pc, cur, k, head, last, next, original_free_head,
  \* the caller and the HAL
  outstanding,   \* [Desc -> Requests or None]: tokens returned by add
  enabled,       \* the caller's last set_dev_notify, where that has an effect
  shared,        \* addresses shared with the device and not yet unshared
  \* the device
  device,        \* [avail_idx, held, state]
  notified,      \* a notification the device has not yet seen
  interrupt,     \* an interrupt the driver has not yet seen
  \* history: the lists the links are meant to represent; no step reads them
  free,          \* the free list, first to last
  chain          \* [Desc -> Seq(Desc)]: the chain in use that starts at a head

fields == <<num_used, free_head, desc_shadow, avail_idx, last_used_idx, indirect_lists>>
call == <<pc, cur, k, head, last, next, original_free_head>>
history == <<free, chain>>
vars == <<fields, desc, avail, used, call, outstanding, enabled, shared, device,
          notified, interrupt, history>>

\* The history variables' operations on lists.
Rest(s) == [i \in 1 .. Len(s) - 1 |-> s[i + 1]]

-----------------------------------------------------------------------------
(* Index arithmetic and descriptors.  Here and below, a definition whose name *)
(* says what it gets wrong is a faulty variant of the one that follows: with  *)
(* it in place of the original, one of the properties fails.                  *)

\* wrapping_add(1) on a u16
Inc(i) == (i + 1) % IndexModulus
\* idx & (SIZE - 1)
Slot(i) == i % SIZE

Flags == {"NEXT", "WRITE", "INDIRECT"}
Descriptor == [addr : Buffers \cup {None, ListAddr}, flags : SUBSET Flags, next : Desc]

\* Descriptor::set_buf: address and flags are replaced, the link is kept.
SetBuf(d, addr, write, extra_flags) ==
  [addr |-> addr,
   flags |-> extra_flags \cup (IF write THEN {"WRITE"} ELSE {}),
   next |-> d.next]

UnsetBufClearingFlags(d) == [d EXCEPT !.addr = None, !.flags = {}]

\* Descriptor::unset_buf keeps the flags and the link.
UnsetBuf(d) == [d EXCEPT !.addr = None]

\* Descriptor::next
DescNext(d) == IF "NEXT" \in d.flags THEN d.next ELSE None

RelinkForgotten(d) == d

\* The recycled chain goes to the front of the free list.
Relink(d) == [d EXCEPT !.next = original_free_head]

can_pop == last_used_idx # used.idx

should_notify_off_by_one ==
  IF event_idx THEN avail_idx > Inc(used.avail_event) ELSE used.flags = 0

\* should_notify compares u16 indices without regard to wrapping.
should_notify ==
  IF event_idx
  THEN avail_idx >= Inc(used.avail_event)
  ELSE used.flags = 0

-----------------------------------------------------------------------------
(* VirtQueue::new *)

Init ==
  /\ num_used = 0
  /\ free_head = 0
  /\ desc_shadow = [d \in Desc |->
       [addr |-> None, flags |-> {}, next |-> IF d < SIZE - 1 THEN d + 1 ELSE 0]]
  /\ desc = desc_shadow
  /\ avail_idx = 0
  /\ last_used_idx = 0
  /\ indirect_lists = [d \in Desc |-> None]
  /\ avail = [ring |-> [s \in Desc |-> 0], idx |-> 0, flags |-> 0, used_event |-> 0]
  /\ used = [ring |-> [s \in Desc |-> 0], idx |-> 0, flags |-> 0, avail_event |-> 0]
  /\ pc = "idle" /\ cur = None /\ k = 0 /\ head = 0 /\ last = 0
  /\ next = None /\ original_free_head = 0
  /\ outstanding = [d \in Desc |-> None]
  /\ enabled = TRUE
  /\ shared = {}
  /\ device = [avail_idx |-> 0, held |-> {}, state |-> "awake"]
  /\ notified = FALSE
  /\ interrupt = FALSE
  /\ free = [i \in 1 .. SIZE |-> i - 1]
  /\ chain = [d \in Desc |-> <<>>]

-----------------------------------------------------------------------------
(* add *)

Goto(label) == pc' = label

\* The call returns: its locals are gone.
Return ==
  /\ pc' = "idle" /\ cur' = None /\ k' = 0 /\ head' = 0 /\ last' = 0
  /\ next' = None /\ original_free_head' = 0

\* The checks of add that return InvalidParam or QueueFull.
CanAdd(n) ==
  /\ n # 0
  /\ num_used + 1 <= SIZE
  /\ n <= SIZE
  /\ indirect \/ num_used + n <= SIZE

\* add up to the choice between add_direct and add_indirect.
AddBegin(r) ==
  /\ pc = "idle"
  /\ \A t \in Desc : outstanding[t] # r
  /\ CanAdd(Len(Bufs(r)))
  /\ Goto(IF indirect /\ Len(Bufs(r)) > 1 THEN "add_indirect" ELSE "add_direct")
  /\ cur' = r
  /\ k' = 0
  /\ head' = free_head
  /\ last' = free_head
  /\ UNCHANGED <<fields, desc, avail, used, next, original_free_head, outstanding, enabled,
                 shared, device, notified, interrupt, history>>

\* One iteration of the loop of add_direct, write_desc included.
AddDirect ==
  LET n == Len(Bufs(cur))
      d == SetBuf(desc_shadow[free_head], Bufs(cur)[k + 1], IsWrite(cur, k + 1), {"NEXT"})
  IN  /\ pc = "add_direct"
      /\ k < n
      /\ desc_shadow' = [desc_shadow EXCEPT ![free_head] = d]
      /\ desc' = [desc EXCEPT ![free_head] = d]
      /\ shared' = shared \cup {Bufs(cur)[k + 1]}
      /\ last' = free_head
      /\ free_head' = d.next
      /\ k' = k + 1
      /\ chain' = [chain EXCEPT ![head] = Append(@, free_head)]
      /\ free' = Rest(free)
      /\ UNCHANGED <<num_used, avail_idx, last_used_idx, indirect_lists, avail, used,
                     pc, cur, head, next, original_free_head, outstanding, enabled, device,
                     notified, interrupt>>

AddDirectEndCountingChains ==
  LET d == [desc_shadow[last] EXCEPT !.flags = @ \ {"NEXT"}]
  IN  /\ pc = "add_direct"
      /\ k = Len(Bufs(cur))
      /\ desc_shadow' = [desc_shadow EXCEPT ![last] = d]
      /\ desc' = [desc EXCEPT ![last] = d]
      /\ num_used' = num_used + 1
      /\ k' = 0
      /\ Goto("avail_ring")
      /\ UNCHANGED <<free_head, avail_idx, last_used_idx, indirect_lists, avail, used,
                     cur, head, last, next, original_free_head, outstanding, enabled, shared,
                     device, notified, interrupt, history>>

\* The end of add_direct: the last descriptor loses NEXT.
AddDirectEnd ==
  LET d == [desc_shadow[last] EXCEPT !.flags = @ \ {"NEXT"}]
  IN  /\ pc = "add_direct"
      /\ k = Len(Bufs(cur))
      /\ desc_shadow' = [desc_shadow EXCEPT ![last] = d]
      /\ desc' = [desc EXCEPT ![last] = d]
      /\ num_used' = num_used + k
      /\ k' = 0
      /\ Goto("avail_ring")
      /\ UNCHANGED <<free_head, avail_idx, last_used_idx, indirect_lists, avail, used,
                     cur, head, last, next, original_free_head, outstanding, enabled, shared,
                     device, notified, interrupt, history>>

\* An entry of the zeroed list, linked to the one after it.
Zeroed(i) == [addr |-> None, flags |-> {}, next |-> i]

IndirectListUnterminated(r) ==
  [i \in 1 .. Len(Bufs(r)) |-> SetBuf(Zeroed(i), Bufs(r)[i], IsWrite(r, i), {"NEXT"})]

\* The boxed list that add_indirect fills; the last entry has no NEXT.
IndirectList(r) ==
  [i \in 1 .. Len(Bufs(r)) |->
     SetBuf(Zeroed(i), Bufs(r)[i], IsWrite(r, i), IF i < Len(Bufs(r)) THEN {"NEXT"} ELSE {})]

\* A list is not Rust's None.
ASSUME ListAssumption == \A r \in Requests : IndirectList(r) # None

\* add_indirect; it panics when the head already has a list.
AddIndirect ==
  LET d == SetBuf(desc_shadow[head], ListAddr, FALSE, {"INDIRECT"})
  IN  /\ pc = "add_indirect"
      /\ shared' = shared \cup {Bufs(cur)[i] : i \in 1 .. Len(Bufs(cur))}
      /\ IF indirect_lists[head] # None
         THEN /\ Goto("panic")
              /\ UNCHANGED <<fields, desc, history>>
         ELSE /\ Goto("avail_ring")
              /\ indirect_lists' = [indirect_lists EXCEPT ![head] = IndirectList(cur)]
              /\ free_head' = desc_shadow[head].next
              /\ desc_shadow' = [desc_shadow EXCEPT ![head] = d]
              /\ desc' = [desc EXCEPT ![head] = d]
              /\ num_used' = num_used + 1
              /\ chain' = [chain EXCEPT ![head] = <<head>>]
              /\ free' = Rest(free)
              /\ UNCHANGED <<avail_idx, last_used_idx>>
      /\ UNCHANGED <<avail, used, cur, k, head, last, next, original_free_head,
                     outstanding, enabled, device, notified, interrupt>>

\* add writes the head to the available ring, before the write barrier.
AddRing ==
  /\ pc = "avail_ring"
  /\ avail' = [avail EXCEPT !.ring[Slot(avail_idx)] = head]
  /\ Goto("avail_idx")
  /\ UNCHANGED <<fields, desc, used, cur, k, head, last, next, original_free_head,
                 outstanding, enabled, shared, device, notified, interrupt, history>>

\* add publishes the new index and returns the head as the token.
AddPublish ==
  /\ pc = "avail_idx"
  /\ avail_idx' = Inc(avail_idx)
  /\ avail' = [avail EXCEPT !.idx = Inc(avail_idx)]
  /\ outstanding' = [outstanding EXCEPT ![head] = cur]
  /\ Goto("notify")
  /\ UNCHANGED <<num_used, free_head, desc_shadow, last_used_idx, indirect_lists, desc,
                 used, cur, k, head, last, next, original_free_head, shared, enabled, device,
                 notified, interrupt, history>>

\* Every caller of add asks should_notify after it, and notifies if it says so.
Notify ==
  /\ pc = "notify"
  /\ notified' = (notified \/ should_notify)
  /\ Return
  /\ UNCHANGED <<fields, desc, avail, used, outstanding, enabled, shared, device, interrupt,
                 history>>

-----------------------------------------------------------------------------
(* pop_used *)

\* pop_used up to the body of recycle_descriptors.  NotReady and WrongToken are
\* early returns that change nothing.
PopBegin(token) ==
  /\ pc = "idle"
  /\ outstanding[token] # None
  /\ can_pop
  /\ used.ring[Slot(last_used_idx)] = token
  /\ original_free_head' = free_head
  /\ free_head' = token
  /\ head' = token
  /\ cur' = outstanding[token]
  /\ next' = token
  /\ Goto(IF "INDIRECT" \in desc_shadow[token].flags THEN "recycle_indirect" ELSE "recycle")
  /\ UNCHANGED <<num_used, desc_shadow, avail_idx, last_used_idx, indirect_lists, desc,
                 avail, used, k, last, outstanding, enabled, shared, device, notified, interrupt,
                 history>>

\* One iteration of the loop of recycle_descriptors over a direct chain; the
\* last descriptor of the chain is linked to the old free list.
Recycle ==
  LET paddr == desc_shadow[next].addr
      d == UnsetBuf(desc_shadow[next])
      recycled == IF DescNext(d) = None THEN Relink(d) ELSE d
  IN  /\ pc = "recycle"
      /\ k < Len(Bufs(cur))
      /\ IF next = None
         THEN /\ Goto("panic")
              /\ UNCHANGED <<desc_shadow, num_used, next, desc, shared, k>>
         ELSE /\ desc_shadow' = [desc_shadow EXCEPT ![next] = recycled]
              /\ num_used' = num_used - 1
              /\ next' = DescNext(d)
              /\ desc' = [desc EXCEPT ![next] = recycled]
              /\ shared' = shared \ {paddr}
              /\ k' = k + 1
              /\ UNCHANGED pc
      /\ UNCHANGED <<free_head, avail_idx, last_used_idx, indirect_lists, avail, used, cur,
                     head, last, original_free_head, outstanding, enabled, device, notified,
                     interrupt, history>>

PopEndInPlace ==
  /\ UNCHANGED last_used_idx
  /\ avail' = IF event_idx THEN [avail EXCEPT !.used_event = last_used_idx] ELSE avail
  /\ outstanding' = [outstanding EXCEPT ![head] = None]
  /\ chain' = [chain EXCEPT ![head] = <<>>]
  /\ free' = chain[head] \o free
  /\ Return

PopEndWithoutEvent ==
  /\ last_used_idx' = Inc(last_used_idx)
  /\ avail' = avail
  /\ outstanding' = [outstanding EXCEPT ![head] = None]
  /\ chain' = [chain EXCEPT ![head] = <<>>]
  /\ free' = chain[head] \o free
  /\ Return

\* The end of pop_used, after recycle_descriptors.
PopEnd ==
  /\ last_used_idx' = Inc(last_used_idx)
  /\ avail' = IF event_idx THEN [avail EXCEPT !.used_event = Inc(last_used_idx)] ELSE avail
  /\ outstanding' = [outstanding EXCEPT ![head] = None]
  /\ chain' = [chain EXCEPT ![head] = <<>>]
  /\ free' = chain[head] \o free
  /\ Return

\* recycle_descriptors has visited every buffer; it panics when the chain goes on.
RecycleEnd ==
  /\ pc = "recycle"
  /\ k = Len(Bufs(cur))
  /\ IF next # None
     THEN /\ Goto("panic")
          /\ UNCHANGED <<last_used_idx, avail, outstanding, history, cur, k, head, last, next,
                         original_free_head>>
     ELSE PopEnd
  /\ UNCHANGED <<num_used, free_head, desc_shadow, avail_idx, indirect_lists, desc, used,
                 shared, enabled, device, notified, interrupt>>

RecycleIndirectKeepingList ==
  LET list == indirect_lists[head]
  IN  /\ pc = "recycle_indirect"
      /\ desc_shadow' = [desc_shadow EXCEPT ![head] = Relink(UnsetBuf(@))]
      /\ num_used' = num_used - 1
      /\ shared' = shared \ {list[i].addr : i \in 1 .. Len(list)}
      /\ PopEnd
      /\ UNCHANGED <<indirect_lists, free_head, avail_idx, desc, used, enabled, device, notified,
                     interrupt>>

RecycleIndirectWithoutUnshare ==
  /\ pc = "recycle_indirect"
  /\ indirect_lists' = [indirect_lists EXCEPT ![head] = None]
  /\ desc_shadow' = [desc_shadow EXCEPT ![head] = Relink(UnsetBuf(@))]
  /\ num_used' = num_used - 1
  /\ PopEnd
  /\ UNCHANGED <<shared, free_head, avail_idx, desc, used, enabled, device, notified, interrupt>>

\* recycle_descriptors of an indirect descriptor; it panics when there is no
\* list or the list has another length.  The shared table is not rewritten.
RecycleIndirect ==
  LET list == indirect_lists[head]
      d == Relink(UnsetBuf(desc_shadow[head]))
  IN  /\ pc = "recycle_indirect"
      /\ IF list = None \/ Len(list) # Len(Bufs(cur))
         THEN /\ Goto("panic")
              /\ UNCHANGED <<fields, avail, shared, outstanding, history, cur, k, head, last,
                             next, original_free_head>>
         ELSE /\ indirect_lists' = [indirect_lists EXCEPT ![head] = None]
              /\ desc_shadow' = [desc_shadow EXCEPT ![head] = d]
              /\ num_used' = num_used - 1
              /\ shared' = shared \ {list[i].addr : i \in 1 .. Len(list)}
              /\ PopEnd
              /\ UNCHANGED <<free_head, avail_idx>>
      /\ UNCHANGED <<desc, used, enabled, device, notified, interrupt>>

\* set_dev_notify, which does nothing with VIRTIO_F_EVENT_IDX.
SetDevNotify(enable) ==
  /\ sleeping
  /\ pc = "idle"
  /\ enabled' = (event_idx \/ enable)
  /\ avail' = IF event_idx THEN avail ELSE [avail EXCEPT !.flags = IF enable THEN 0 ELSE 1]
  /\ UNCHANGED <<fields, desc, used, call, outstanding, shared, device, notified,
                 interrupt, history>>

-----------------------------------------------------------------------------
(* The caller between calls: it sleeps only when it waits for a buffer, has  *)
(* not disabled notifications and has seen nothing to pop.  It wakes when it *)
(* is interrupted, and may wake for another reason.                          *)

Sleep ==
  /\ sleeping
  /\ pc = "idle"
  /\ \E t \in Desc : outstanding[t] # None
  /\ ~can_pop
  /\ enabled
  /\ Goto("asleep")
  /\ UNCHANGED <<fields, desc, avail, used, cur, k, head, last, next, original_free_head,
                 outstanding, enabled, shared, device, notified, interrupt, history>>

Wake ==
  /\ pc = "asleep"
  /\ interrupt' = FALSE
  /\ Goto("idle")
  /\ UNCHANGED <<fields, desc, avail, used, cur, k, head, last, next, original_free_head,
                 outstanding, enabled, shared, device, notified, history>>

-----------------------------------------------------------------------------
(* The device *)

driverVars == <<fields, desc, avail, call, outstanding, enabled, shared, history>>

\* It takes the next head of the available ring.
DeviceTake ==
  /\ device.state = "awake"
  /\ device.avail_idx # avail.idx
  /\ device' = [device EXCEPT !.avail_idx = Inc(@),
                              !.held = @ \cup {avail.ring[Slot(device.avail_idx)]}]
  /\ UNCHANGED <<driverVars, used, notified, interrupt>>

\* It returns a chain and interrupts unless the driver suppressed that.
DeviceUse(h) ==
  /\ h \in device.held
  /\ device' = [device EXCEPT !.held = @ \ {h}]
  /\ used' = [used EXCEPT !.ring[Slot(used.idx)] = h, !.idx = Inc(used.idx)]
  /\ interrupt' = (interrupt \/ IF event_idx THEN avail.used_event = used.idx
                                            ELSE avail.flags = 0)
  /\ UNCHANGED <<driverVars, notified>>

\* It suppresses notifications while it is polling: with the flag or, with
\* VIRTIO_F_EVENT_IDX, by asking for one only after a queue's worth of buffers.
DeviceSuppress ==
  /\ sleeping
  /\ device.state = "awake"
  /\ used' = IF event_idx
             THEN [used EXCEPT !.avail_event = (device.avail_idx + SIZE - 1) % IndexModulus]
             ELSE [used EXCEPT !.flags = 1]
  /\ UNCHANGED <<driverVars, device, notified, interrupt>>

\* It asks for a notification of the next buffer, then looks once more, then
\* sleeps until it is notified.
DeviceArm ==
  /\ sleeping
  /\ device.state = "awake"
  /\ device.avail_idx = avail.idx
  /\ used' = IF event_idx THEN [used EXCEPT !.avail_event = device.avail_idx]
                          ELSE [used EXCEPT !.flags = 0]
  /\ device' = [device EXCEPT !.state = "armed"]
  /\ UNCHANGED <<driverVars, notified, interrupt>>

DeviceCheck ==
  /\ device.state = "armed"
  /\ device' = [device EXCEPT !.state = IF device.avail_idx = avail.idx THEN "asleep" ELSE "awake"]
  /\ UNCHANGED <<driverVars, used, notified, interrupt>>

DeviceWake ==
  /\ device.state = "asleep"
  /\ notified
  /\ notified' = FALSE
  /\ device' = [device EXCEPT !.state = "awake"]
  /\ UNCHANGED <<driverVars, used, interrupt>>

-----------------------------------------------------------------------------
Driver ==
  \/ \E r \in Requests : AddBegin(r)
  \/ AddDirect \/ AddDirectEnd \/ AddIndirect \/ AddRing \/ AddPublish \/ Notify
  \/ \E t \in Desc : PopBegin(t)
  \/ Recycle \/ RecycleEnd \/ RecycleIndirect
  \/ \E enable \in BOOLEAN : SetDevNotify(enable)
  \/ Sleep \/ Wake

Device ==
  \/ DeviceTake
  \/ \E h \in Desc : DeviceUse(h)
  \/ DeviceSuppress \/ DeviceArm \/ DeviceCheck \/ DeviceWake

Next == Driver \/ Device

Spec == Init /\ [][Next]_vars

-----------------------------------------------------------------------------
(* Properties *)

\* The types of the fields of VirtQueue, of the shared memory and of the calls.
TypeOK ==
  /\ num_used \in 0 .. SIZE
  /\ free_head \in Desc
  /\ desc_shadow \in [Desc -> Descriptor]
  /\ avail_idx \in Index /\ last_used_idx \in Index
  /\ desc \in [Desc -> Descriptor]
  /\ avail \in [ring : [Desc -> Desc], idx : Index, flags : {0, 1}, used_event : Index]
  /\ used \in [ring : [Desc -> Desc], idx : Index, flags : {0, 1}, avail_event : Index]
  /\ pc \in {"idle", "add_direct", "add_indirect", "avail_ring", "avail_idx", "notify",
             "recycle", "recycle_indirect", "asleep", "panic"}
  /\ cur \in Requests \cup {None}
  /\ k \in 0 .. SIZE
  /\ head \in Desc /\ last \in Desc /\ original_free_head \in Desc
  /\ next \in Desc \cup {None}
  /\ outstanding \in [Desc -> Requests \cup {None}]
  /\ enabled \in BOOLEAN
  /\ shared \subseteq Buffers
  /\ device \in [avail_idx : Index, held : SUBSET Desc, state : {"awake", "armed", "asleep"}]
  /\ notified \in BOOLEAN /\ interrupt \in BOOLEAN
  /\ free \in Seq(Desc)
  /\ chain \in [Desc -> Seq(Desc)]

\* Tokens in the part of a ring between a reader's index and a writer's index.
Window(ring, from, to) ==
  [i \in 1 .. (to - from) % IndexModulus |-> ring[Slot(from + i - 1)]]

Available == Window(avail.ring, device.avail_idx, avail.idx)
Returned == Window(used.ring, last_used_idx, used.idx)

\* What a device finds when it reads a table from its first descriptor: the
\* address of every descriptor of the chain and whether it may be written.
Seen(d) == <<d.addr, "WRITE" \in d.flags>>
Walk(table, first) ==
  LET at[i \in 1 .. SIZE] ==
        IF i = 1 THEN first
        ELSE LET d == table[at[i - 1]]
             IN  IF "NEXT" \in d.flags /\ d.next \in DOMAIN table THEN d.next ELSE at[i - 1]
  IN  at
ReadChain(table, first) ==
  LET at == Walk(table, first)
      ends == {i \in 1 .. SIZE : "NEXT" \notin table[at[i]].flags}
      n == CHOOSE i \in ends : \A j \in ends : i <= j
  IN  IF ends = {} THEN <<>> ELSE [i \in 1 .. n |-> Seen(table[at[i]])]

\* An indirect descriptor leads to the table of its list.
DeviceChain(h) ==
  IF "INDIRECT" \in desc[h].flags
  THEN ReadChain([i \in 0 .. Len(indirect_lists[h]) - 1 |-> indirect_lists[h][i + 1]], 0)
  ELSE ReadChain(desc, h)

\* What the caller asked for.
Asked(r) == [i \in 1 .. Len(Bufs(r)) |-> <<Bufs(r)[i], IsWrite(r, i)>>]

\* From the moment avail.idx is published until the device returns the chain,
\* the shared memory that the device reads describes exactly the buffers that
\* the caller passed to add, in order and with the right direction, whatever
\* the driver does in the meantime with other descriptors.
DeviceSeesRequest ==
  \A h \in Range(Available) \cup device.held :
    outstanding[h] # None /\ DeviceChain(h) = Asked(outstanding[h])

\* A free list f and chains c in which every descriptor occurs exactly once.
Accounted(f, c) ==
  /\ IsInjective(f)
  /\ \A h \in Desc : IsInjective(c[h])
  /\ \A h \in Desc : Range(f) \cap Range(c[h]) = {}
  /\ \A h, g \in Desc : h # g => Range(c[h]) \cap Range(c[g]) = {}
  /\ \A d \in Desc : d \in Range(f) \/ \E h \in Desc : d \in Range(c[h])

\* Every descriptor is in the free list once or in one chain once, and the
\* counter num_used (with the descriptors that the call in progress has moved
\* and not yet counted) says how many are not free: a descriptor is never
\* handed out while a chain uses it, and none is lost.
DescriptorsAccounted == Accounted(free, chain) /\ num_used + k + Len(free) = SIZE

\* The links really thread the free list: following desc_shadow.next from
\* free_head (from original_free_head while recycle_descriptors has already
\* moved free_head) visits all the free descriptors and no other.
FreeListLinked ==
  /\ \A i \in 1 .. Len(free) - 1 : desc_shadow[free[i]].next = free[i + 1]
  /\ Len(free) > 0 /\ pc # "panic" =>
       free[1] = IF pc \in {"recycle", "recycle_indirect"} THEN original_free_head ELSE free_head

\* The assertions of add_indirect, the unwrap and assertion of the indirect
\* branch of recycle_descriptors and the two panics of its loop ("Descriptor
\* chain was shorter/longer than expected.") cannot be reached.
NoPanic == pc # "panic"

\* Hal::unshare is called with "the value previously returned by the
\* corresponding share call": the address that recycle_descriptors finds in
\* the shadow (or in the indirect list) is the one add got for that buffer.
UnshareMatchesShare ==
  /\ pc = "recycle" /\ k < Len(Bufs(cur)) =>
       next # None /\ desc_shadow[next].addr = Bufs(cur)[k + 1]
  /\ pc = "recycle_indirect" =>
       /\ desc_shadow[head].addr = ListAddr
       /\ indirect_lists[head] # None
       /\ \A i \in 1 .. Len(Bufs(cur)) : indirect_lists[head][i].addr = Bufs(cur)[i]

\* Between calls exactly the buffers of the requests that were added and not
\* popped are shared with the device: none is left shared after pop_used, none
\* is unshared while the device may still access it.
SharedExactly ==
  pc \in {"idle", "asleep"} =>
    shared = UNION {Range(Bufs(outstanding[t])) : t \in {u \in Desc : outstanding[u] # None}}

\* add publishes avail.idx before should_notify reads the flags (or
\* avail_event), so a device that went to sleep without having seen a buffer
\* has a notification waiting as soon as the caller has asked should_notify.
NoLostNotification ==
  device.state = "asleep" /\ pc \in {"idle", "asleep"} /\ device.avail_idx # avail.idx
    => notified

\* "This will be false if the device has supressed notifications": with
\* VIRTIO_F_EVENT_IDX the device has suppressed them as long as avail_event is
\* the index of a buffer that is yet to be added.
SuppressionRespected ==
  pc = "notify" /\ event_idx /\ (used.avail_event - avail_idx) % IndexModulus < SIZE
    => ~should_notify

\* A caller that sleeps after it enabled notifications (set_dev_notify, or
\* used_event as pop_used left it) and saw nothing to pop is interrupted when
\* the device returns a buffer.
NoLostInterrupt == pc = "asleep" /\ can_pop => interrupt

-----------------------------------------------------------------------------
(* Fairness: a call that began goes on; the caller pops what can be popped   *)
(* and wakes when interrupted; the device works and wakes when notified.     *)

CallStep ==
  \/ AddDirect \/ AddDirectEnd \/ AddIndirect \/ AddRing \/ AddPublish \/ Notify
  \/ Recycle \/ RecycleEnd \/ RecycleIndirect

Fairness ==
  /\ WF_vars(CallStep)
  /\ WF_vars(\E t \in Desc : PopBegin(t))
  /\ WF_vars(interrupt /\ Wake)
  /\ WF_vars(DeviceTake)
  /\ \A h \in Desc : WF_vars(DeviceUse(h))
  /\ WF_vars(DeviceCheck)
  /\ WF_vars(DeviceWake)

FairSpec == Spec /\ Fairness

-----------------------------------------------------------------------------
(* What the invariants and the refinement of AbstractQueue say of a call      *)

\* Until AddPublish the call in progress has not taken anything.
Unpublished == pc \in {"add_direct", "add_indirect", "avail_ring", "avail_idx"}
=============================================================================
