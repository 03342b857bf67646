------------------------- MODULE VirtQueueRefinement --------------------------
(***************************************************************************)
(* VirtQueue implements AbstractQueue: the rings between the readers' and  *)
(* the writers' indices are its two sequences.                             *)
(***************************************************************************)
EXTENDS VirtQueue

Needs(r) == IF indirect THEN 1 ELSE Len(Bufs(r))

\* A call of add takes its descriptors, in one step, when it publishes the head.
Free == IF Unpublished THEN chain[head] \o free ELSE free
Chains == IF Unpublished THEN [chain EXCEPT ![head] = <<>>] ELSE chain
Awake == device.state # "asleep" \/ notified

View ==
  [free |-> Free, chain |-> Chains, request |-> outstanding, available |-> Available,
   held |-> device.held, returned |-> Returned, awake |-> Awake]

Abstract == INSTANCE AbstractQueue WITH Capacity <- SIZE, queue <- View

\* The two wrapping rings with their masked slots are FIFO queues without loss,
\* duplication or overwriting, each request comes back exactly once, the linked
\* free list is a stack of chains, should_notify wakes a device that has not
\* seen a buffer, and what is offered is eventually taken, returned and popped.
ImplementsAbstractQueue == Abstract!Spec
=============================================================================
