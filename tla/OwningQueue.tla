------------------------------ MODULE OwningQueue ------------------------------
(***************************************************************************)
(* OwningQueue (queue/owning.rs): a queue of SIZE device-writable buffers  *)
(* that are all kept with the device except for the one being handled.     *)
(* Buffer b is the b-th box that `new` allocates.  Everything the code     *)
(* relies on for memory safety is that a buffer keeps its token: pop takes *)
(* buffers[token] for the buffer that was added under that token, and      *)
(* add_buffer_to_queue asserts that add gives the same token again.        *)
(***************************************************************************)
EXTENDS Integers, Sequences

CONSTANTS SIZE, None

Index == 0 .. SIZE - 1

\* One output buffer and no inputs: one descriptor.
Needs(b) == 1

VARIABLES
  queue,    \* the wrapped VirtQueue
  buffers,  \* [Index -> Index or None]: the array of owned buffers
  pc,       \* where the owner of the queue is
  token     \* what peek_used returned; the loop counter of new

vars == <<queue, buffers, pc, token>>

Queue == INSTANCE AbstractQueue WITH Capacity <- SIZE, Requests <- Index

Init ==
  /\ Queue!Init
  /\ buffers = [i \in Index |-> None]
  /\ pc = "new"
  /\ token = 0

\* An iteration of new, on a queue nobody else has used.  If the assertion
\* fails the box is dropped with the device still owning it.
New ==
  /\ pc = "new"
  /\ Queue!Add(token)
  /\ IF Queue!NextToken = token
     THEN /\ buffers' = [buffers EXCEPT ![token] = token]
          /\ token' = (token + 1) % SIZE
          /\ pc' = IF token + 1 = SIZE THEN "notify" ELSE "new"
     ELSE pc' = "panic" /\ UNCHANGED <<buffers, token>>

NotifyForever ==
  /\ pc = "notify"
  /\ Queue!Notify
  /\ UNCHANGED <<buffers, pc, token>>

\* should_notify and notify: by the driver that called new, once the device is
\* live, and at the end of add_buffer_to_queue.
Notify ==
  /\ pc = "notify"
  /\ Queue!Notify
  /\ pc' = "idle"
  /\ UNCHANGED <<buffers, token>>

PopEarly ==
  /\ pc \in {"idle", "handler"}
  /\ \E t \in Index : Queue!Pop(t) /\ token' = t
  /\ pc' = "handler"
  /\ UNCHANGED buffers

\* pop, which passes buffers[token] to pop_used; poll then runs the handler.
Pop ==
  /\ pc = "idle"
  /\ \E t \in Index : Queue!Pop(t) /\ token' = t
  /\ pc' = "handler"
  /\ UNCHANGED buffers

\* poll after the handler returned Ok or Err: add_buffer_to_queue(token), an
\* error of which replaces the handler's result.
AddBufferToQueue ==
  /\ pc = "handler"
  /\ IF Queue!CanAdd(buffers[token])
     THEN /\ Queue!Add(buffers[token])
          /\ pc' = IF Queue!NextToken = token THEN "notify" ELSE "panic"
     ELSE pc' = "idle" /\ UNCHANGED queue
  /\ UNCHANGED <<buffers, token>>

Owner == New \/ Notify \/ Pop \/ AddBufferToQueue

Device == Queue!Device /\ UNCHANGED <<buffers, pc, token>>

Next == Owner \/ Device

Spec == Init /\ [][Next]_vars

TypeOK ==
  /\ queue \in [free : Seq(Index), chain : [Index -> Seq(Index)],
                request : [Index -> Index \cup {None}], available : Seq(Index),
                held : SUBSET Index, returned : Seq(Index), awake : BOOLEAN]
  /\ buffers \in [Index -> Index \cup {None}]
  /\ pc \in {"new", "notify", "idle", "handler", "panic"}
  /\ token \in Index

\* "We maintain a consistent mapping of tokens to buffers" (pop): whatever the
\* order in which the device returns the buffers, the buffer the device has
\* under a token is the one that pop will take for that token, and neither
\* assertion on the token can fail.
ConsistentTokens ==
  /\ pc # "panic"
  /\ \A t \in Queue!Outstanding : queue.request[t] = buffers[t]

\* Every buffer but the one in the handler's hands is with the device or waits
\* to be popped: poll never loses one, so add never reports QueueFull.
AllBuffersInQueue ==
  /\ pc \in {"notify", "idle"} => Queue!Outstanding = Index
  /\ pc = "handler" => Queue!Outstanding = Index \ {token}
=============================================================================
