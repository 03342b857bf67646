--------------------------------- MODULE Input ---------------------------------
(***************************************************************************)
(* VirtIOInput (input.rs): the event queue, whose SIZE buffers are the     *)
(* elements of event_buf.  The device writes the events 0, 1, 2, ... into  *)
(* the buffers it has, in its order.  Numbers wrap at Modulus, which is    *)
(* more than the buffers that can hold one.                                *)
(***************************************************************************)
EXTENDS Integers, Sequences

CONSTANTS SIZE, Modulus, None

Index == 0 .. SIZE - 1
Needs(b) == 1

VARIABLES
  queue,    \* event_queue
  driver    \* the fields below
vars == <<queue, driver>>

Queue == INSTANCE AbstractQueue WITH Capacity <- SIZE, Requests <- Index

(***************************************************************************)
(*   pc           where the caller is                                      *)
(*   token        the token that pop_pending_event popped                  *)
(*   event_buf    the buffers                                              *)
(*   event_saved  the last event that pop_pending_event returns            *)
(*   written      number of the next event of the device                   *)
(***************************************************************************)
InitReversed ==
  /\ queue = Queue!Notified(Queue!Filled([i \in 1 .. SIZE |-> SIZE - i]))
  /\ driver = [pc |-> "idle", token |-> 0, event_buf |-> [b \in Index |-> Modulus - 1],
               event_saved |-> Modulus - 1, written |-> 0]

\* new: all of event_buf is added, each at the token of its index.
Init ==
  /\ queue = Queue!Notified(Queue!Filled([i \in 1 .. SIZE |-> i - 1]))
  /\ driver = [pc |-> "idle", token |-> 0, event_buf |-> [b \in Index |-> Modulus - 1],
               event_saved |-> Modulus - 1, written |-> 0]

\* pop_pending_event: pop_used with event_buf[token], and the copy of it.
Pop(t) ==
  /\ driver.pc = "idle"
  /\ Queue!Pop(t)
  /\ driver' = [driver EXCEPT !.pc = "requeue", !.token = t, !.event_saved = driver.event_buf[t]]

\* The buffer is added again, and has to get the token it had.
Requeue ==
  /\ driver.pc = "requeue"
  /\ Queue!AddNotify(driver.token)
  /\ driver' = [driver EXCEPT !.pc = IF Queue!NextToken = driver.token THEN "idle" ELSE "panic"]

\* The device writes its next event into the buffer of the token.
DeviceUse(t) ==
  /\ Queue!Use(t)
  /\ driver' = [driver EXCEPT !.event_buf[queue.request[t]] = driver.written,
                              !.written = (@ + 1) % Modulus]

DeviceTake == (Queue!Take \/ Queue!Sleep) /\ UNCHANGED driver

Next ==
  \/ \E t \in Index : Pop(t) \/ DeviceUse(t)
  \/ Requeue
  \/ DeviceTake

-----------------------------------------------------------------------------
\* "This only works because nothing happen between `pop_used` and `add` that
\* affects the list of free descriptors": buffers keep their tokens, so that
\* the events come out of event_buf in the order in which the device wrote
\* them, none twice and none lost, although its buffers come back in any order.
EventsInOrder ==
  /\ driver.pc # "panic"
  /\ \A i \in DOMAIN queue.returned :
       driver.event_buf[queue.returned[i]] = (driver.event_saved + i) % Modulus
=============================================================================
