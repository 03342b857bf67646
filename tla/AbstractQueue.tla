----------------------------- MODULE AbstractQueue -----------------------------
(***************************************************************************)
(* What a virtqueue promises to its caller and to its device, with one     *)
(* step per operation.  Requests go to the device in the order in which    *)
(* they were added, the device hands them back in any order, and the       *)
(* caller gets each of them back once, in the order in which the device    *)
(* handed them back.  A request takes descriptors from the front of the    *)
(* free list, its first descriptor is its token, and popping it puts them  *)
(* back in front: the drivers that expect a buffer to keep its token when  *)
(* they pop it and add it again rely on that order.                        *)
(*                                                                         *)
(* The device drivers of the repository are modelled over this module, one *)
(* instance for each of their queues.                                      *)
(***************************************************************************)
EXTENDS Integers, Sequences

CONSTANTS
  Capacity,     \* number of descriptors
  Requests,
  None,
  Needs(_)      \* descriptors that a request takes

VARIABLE queue

Tokens == 0 .. Capacity - 1

(***************************************************************************)
(*   free       free descriptors, in the order in which they are taken     *)
(*   chain      the descriptors of the request with a token                *)
(*   request    the request with a token, None if there is none            *)
(*   available  tokens offered to the device                               *)
(*   held       tokens the device is working on                            *)
(*   returned   tokens handed back and not yet popped                      *)
(*   awake      the device looks for offered tokens                        *)
(***************************************************************************)
Empty ==
  [free |-> [i \in 1 .. Capacity |-> i - 1],
   chain |-> [t \in Tokens |-> <<>>],
   request |-> [t \in Tokens |-> None],
   available |-> <<>>,
   held |-> {},
   returned |-> <<>>,
   awake |-> TRUE]

Init == queue = Empty

Outstanding == {t \in Tokens : queue.request[t] # None}
Added == {queue.request[t] : t \in Outstanding}

\* Otherwise add returns QueueFull.
CanAdd(r) == Needs(r) <= Len(queue.free)

\* The token that add returns.
NextToken == Head(queue.free)

\* The queue with r added, and with the request of token t popped.
With(q, r) ==
  [q EXCEPT
     !.request[Head(q.free)] = r,
     !.chain[Head(q.free)] = SubSeq(q.free, 1, Needs(r)),
     !.free = SubSeq(@, Needs(r) + 1, Len(@)),
     !.available = Append(@, Head(q.free))]

\* A new queue to which each of a sequence of requests was added.
Filled(requests) ==
  LET q[i \in 0 .. Len(requests)] == IF i = 0 THEN Empty ELSE With(q[i - 1], requests[i])
  IN  q[Len(requests)]

Without(q, t) ==
  [q EXCEPT
     !.request[t] = None,
     !.chain[t] = <<>>,
     !.free = q.chain[t] \o @,
     !.returned = Tail(@)]

\* The device, which has something to take now, has been notified.
Notified(q) == [q EXCEPT !.awake = TRUE]

Add(r) ==
  /\ CanAdd(r)
  /\ r \notin Added
  /\ queue' = With(queue, r)

\* add followed by should_notify and notify, with which steps of the device in
\* between commute.
AddNotify(r) ==
  /\ CanAdd(r)
  /\ r \notin Added
  /\ queue' = Notified(With(queue, r))

\* should_notify, and notify if it says so: the device is awake unless it has
\* seen everything.
Notify ==
  \E awake \in {queue.awake, TRUE} :
    /\ queue.available # <<>> => awake
    /\ queue' = [queue EXCEPT !.awake = awake]

\* t is what peek_used returns; popping another token is a WrongToken error.
CanPop(t) == queue.returned # <<>> /\ Head(queue.returned) = t

Pop(t) ==
  /\ CanPop(t)
  /\ queue' = Without(queue, t)

\* The device.
Take ==
  /\ queue.awake
  /\ queue.available # <<>>
  /\ queue' = [queue EXCEPT !.held = @ \cup {Head(queue.available)},
                            !.available = Tail(@)]

Use(t) ==
  /\ t \in queue.held
  /\ queue' = [queue EXCEPT !.held = @ \ {t}, !.returned = Append(@, t)]

Sleep ==
  /\ queue.awake
  /\ queue.available = <<>>
  /\ queue' = [queue EXCEPT !.awake = FALSE]

Device == Take \/ Sleep \/ \E t \in Tokens : Use(t)

Next ==
  \/ \E r \in Requests : Add(r)
  \/ Notify
  \/ \E t \in Tokens : Pop(t)
  \/ Device

\* The device takes what is offered and finishes what it takes.
DeviceFairness == WF_queue(Take) /\ \A t \in Tokens : WF_queue(Use(t))

\* The caller asks should_notify after it adds, and pops what is returned.
Fairness ==
  /\ DeviceFairness
  /\ WF_queue(queue.available # <<>> /\ Notify)
  /\ WF_queue(\E t \in Tokens : Pop(t))

Safety == Init /\ [][Next]_queue
Spec == Safety /\ Fairness
=============================================================================
