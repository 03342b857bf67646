---------------------------- MODULE DeviceVirtQueue ----------------------------
(***************************************************************************)
(* DeviceVirtQueue (queue.rs): the device's half of a virtqueue.  poll     *)
(* takes chains that the device reads, wait_pop_add_notify chains that it  *)
(* writes; a chain that does not suit the call is popped and not returned. *)
(* pop_avail walks the chain one descriptor per step and maps each buffer  *)
(* with DeviceHal::dma_map, whose result "won't alias any other            *)
(* allocations or references in the program": an address not in use.       *)
(***************************************************************************)
EXTENDS Integers, Sequences, FiniteSetsExt

CONSTANTS
  SIZE,
  IndexModulus,
  None,
  Calls,           \* the calls made on this queue
  MaxMapFailures   \* dma_map fails at most this often

Desc == 0 .. SIZE - 1

VARIABLES
  \* shared memory: the driver writes desc and avail, the device used
  desc, avail, used,
  \* fields
  avail_idx, last_used_idx,
  desc_mapped,     \* [Desc -> [desc, vaddr] or None]: MappedDescriptor by token
  \* the call in progress
  pc, op, head, token,
  popped,          \* DescriptorBuffers: [read_buffers, write_buffers] of [addr, vaddr]
  result,          \* what the last call returned
  \* the HAL and the transport
  mapped,          \* addresses mapped with dma_map and not unmapped
  map_failures,
  interrupt,       \* a used buffer notification the driver has not seen
  \* history
  withheld         \* [Desc -> call that popped the chain and did not return it, or None]

fields == <<avail_idx, last_used_idx, desc_mapped>>
call == <<pc, op, head, token, popped, result>>
hal == <<mapped, map_failures>>
vars == <<desc, avail, used, fields, call, hal, interrupt, withheld>>

Inc(i) == (i + 1) % IndexModulus
Slot(i) == i % SIZE

NoBuffers == [read_buffers |-> <<>>, write_buffers |-> <<>>]

\* DeviceVirtQueue::new, on rings that the driver has just set up.
Init ==
  /\ avail_idx = 0 /\ last_used_idx = 0
  /\ desc_mapped = [d \in Desc |-> None]
  /\ pc = "idle" /\ op = None /\ head = 0 /\ token = 0
  /\ popped = NoBuffers /\ result = None
  /\ mapped = {} /\ map_failures = 0
  /\ withheld = [d \in Desc |-> None]

can_pop == avail_idx # avail.idx

should_notify == avail.flags = 0

Return(r) ==
  /\ pc' = "idle" /\ op' = None /\ head' = 0 /\ token' = 0
  /\ popped' = NoBuffers
  /\ result' = r

BeginAtNextSlot(c) ==
  /\ pc = "idle"
  /\ can_pop
  /\ op' = c
  /\ head' = avail.ring[Slot(avail_idx + 1)]
  /\ token' = head'
  /\ pc' = "pop_avail"
  /\ result' = None
  /\ UNCHANGED <<desc, avail, used, fields, popped, hal, interrupt, withheld>>

\* The call up to the loop of pop_avail; wait_pop_add_notify spins until it can
\* pop, poll returns None at once.
Begin(c) ==
  /\ pc = "idle"
  /\ can_pop
  /\ op' = c
  /\ head' = avail.ring[Slot(avail_idx)]
  /\ token' = head'
  /\ pc' = "pop_avail"
  /\ result' = None
  /\ UNCHANGED <<desc, avail, used, fields, popped, hal, interrupt, withheld>>

SuitsNothing(buffers) == "unsupported"

\* Whether the call can use the chain it popped.
Suits(buffers) ==
  CASE op = "poll" ->
         IF buffers.write_buffers # <<>> THEN "unsupported" ELSE "ok"
    [] op = "wait_pop_add_notify" ->
         IF buffers.write_buffers = <<>> THEN "not_ready"
         ELSE IF buffers.read_buffers # <<>> THEN "unsupported" ELSE "ok"

\* The rest of the call once pop_avail has the whole chain: avail_idx moves on,
\* and the call goes on with it or returns an error and keeps it.
Popped(buffers) ==
  /\ avail_idx' = Inc(avail_idx)
  /\ IF Suits(buffers) = "ok"
     THEN /\ pc' = "handle"
          /\ popped' = buffers
          /\ UNCHANGED <<op, head, token, result, withheld>>
     ELSE /\ withheld' = [withheld EXCEPT ![head] = op]
          /\ Return(Suits(buffers))

KeepWithoutUnmap(mapping) ==
  /\ mapped' = mapped \cup {mapping.vaddr}
  /\ desc_mapped' = [desc_mapped EXCEPT ![token] = mapping]

KeepDroppingBoth(mapping) ==
  /\ mapped' = mapped \ (IF desc_mapped[token] = None THEN {} ELSE {desc_mapped[token].vaddr})
  /\ desc_mapped' = [desc_mapped EXCEPT ![token] = None]

\* The mapping of a descriptor is kept in desc_mapped if it differs from the
\* one there, which is then dropped and unmapped; otherwise it is forgotten.
Keep(mapping) ==
  LET old == desc_mapped[token]
  IN  IF old = mapping
      THEN /\ mapped' = mapped \cup {mapping.vaddr}
           /\ UNCHANGED desc_mapped
      ELSE /\ mapped' = (mapped \cup {mapping.vaddr}) \ (IF old = None THEN {} ELSE {old.vaddr})
           /\ desc_mapped' = [desc_mapped EXCEPT ![token] = mapping]

\* One iteration of the loop of pop_avail.
Walk ==
  LET d == desc[token]
      vaddr == Min((0 .. SIZE) \ mapped)
      write == "WRITE" \in d.flags
      buffer == [addr |-> d.addr, vaddr |-> vaddr]
      buffers == IF write THEN [popped EXCEPT !.write_buffers = Append(@, buffer)]
                          ELSE [popped EXCEPT !.read_buffers = Append(@, buffer)]
  IN  /\ pc = "pop_avail"
      /\ IF "INDIRECT" \in d.flags
         THEN pc' = "panic" /\ UNCHANGED <<fields, op, head, token, popped, result, mapped, withheld>>
         ELSE /\ Keep([desc |-> d, vaddr |-> vaddr])
              /\ UNCHANGED last_used_idx
              /\ IF ~write /\ popped.write_buffers # <<>>
                 THEN Return("invalid_descriptor") /\ UNCHANGED <<avail_idx, withheld>>
                 ELSE IF "NEXT" \in d.flags
                 THEN /\ token' = d.next
                      /\ popped' = buffers
                      /\ UNCHANGED <<avail_idx, pc, op, head, result, withheld>>
                 ELSE Popped(buffers)
      /\ UNCHANGED <<desc, avail, used, map_failures, interrupt>>

\* dma_map returns an error, and so does the call; avail_idx is as before.
MapFails ==
  /\ pc = "pop_avail"
  /\ map_failures < MaxMapFailures
  /\ map_failures' = map_failures + 1
  /\ Return("dma_error")
  /\ UNCHANGED <<desc, avail, used, fields, mapped, interrupt, withheld>>

\* poll runs the handler on the contents of the read buffers, whatever it
\* returns; wait_pop_add_notify copies its inputs to the first write buffer.
\* Neither accesses the buffers again.
Handle ==
  /\ pc = "handle"
  /\ pc' = "used_ring"
  /\ popped' = NoBuffers
  /\ UNCHANGED <<desc, avail, used, fields, op, head, token, result, hal, interrupt, withheld>>

AddUsedRingInNextSlot ==
  /\ pc = "used_ring"
  /\ used' = [used EXCEPT !.ring[Slot(last_used_idx + 1)] = head]
  /\ pc' = "used_idx"
  /\ UNCHANGED <<desc, avail, fields, op, head, token, popped, result, hal, interrupt, withheld>>

\* add_used, up to the fence and after it.
AddUsedRing ==
  /\ pc = "used_ring"
  /\ used' = [used EXCEPT !.ring[Slot(last_used_idx)] = head]
  /\ pc' = "used_idx"
  /\ UNCHANGED <<desc, avail, fields, op, head, token, popped, result, hal, interrupt, withheld>>

AddUsedIdx ==
  /\ pc = "used_idx"
  /\ last_used_idx' = Inc(last_used_idx)
  /\ used' = [used EXCEPT !.idx = Inc(last_used_idx)]
  /\ pc' = "notify"
  /\ UNCHANGED <<desc, avail, avail_idx, desc_mapped, op, head, token, popped, result, hal,
                 interrupt, withheld>>

Notify ==
  /\ pc = "notify"
  /\ interrupt' = (interrupt \/ should_notify)
  /\ Return("ok")
  /\ UNCHANGED <<desc, avail, used, fields, hal, withheld>>

CallStep == Walk \/ MapFails \/ Handle \/ AddUsedRing \/ AddUsedIdx \/ Notify

Next == CallStep \/ \E c \in Calls : Begin(c)
=============================================================================
