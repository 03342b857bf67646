----------------------------------- MODULE Net -----------------------------------
(***************************************************************************)
(* VirtIONet (net/dev.rs) on VirtIONetRaw (net/dev_raw.rs): the receive    *)
(* queue and who owns its QUEUE_SIZE buffers.  The client keeps several    *)
(* received buffers at a time and recycles them in any order.  Buffer b is *)
(* the b-th RxBuffer of new; the transmit queue is modelled by Requests.   *)
(***************************************************************************)
EXTENDS Integers, Sequences, FiniteSets

CONSTANTS
  QUEUE_SIZE,
  MaxShort,     \* bounds the packets without a whole header
  None

Buffers == 0 .. QUEUE_SIZE - 1
Needs(b) == 1

VARIABLES
  queue,    \* recv_queue
  driver    \* the fields below
vars == <<queue, driver>>

Queue == INSTANCE AbstractQueue WITH Capacity <- QUEUE_SIZE, Requests <- Buffers

(***************************************************************************)
(*   rx_buffers  [tokens -> the buffer stored under the token, or None]    *)
(*   idx         [Buffers -> its idx field]                                *)
(*   client      the buffers that receive has returned                     *)
(*   dropped     the buffers lost to an error                              *)
(*   short       the buffers in which the device left less than a header   *)
(*   error       WrongToken was returned                                   *)
(***************************************************************************)
\* new: receive_begin for every buffer.
Init ==
  /\ queue = Queue!Notified(Queue!Filled([i \in 1 .. QUEUE_SIZE |-> i - 1]))
  /\ driver = [rx_buffers |-> [t \in Queue!Tokens |-> t], idx |-> [b \in Buffers |-> b],
               client |-> {}, dropped |-> {}, short |-> {}, error |-> FALSE]

WrongToken(d) == driver' = [d EXCEPT !.error = TRUE]

\* receive_complete pops the buffer; an IoError if it has no whole header.
\* The buffer has left rx_buffers already and is dropped with the error.
receive_complete(t, b) ==
  /\ queue' = Queue!Without(queue, t)
  /\ driver' = [driver EXCEPT !.rx_buffers[t] = None,
                              !.client = IF b \in driver.short THEN @ ELSE @ \cup {b},
                              !.dropped = IF b \in driver.short THEN @ \cup {b} ELSE @,
                              !.short = @ \ {b}]

\* receive, with t from poll_receive; NotReady if there is none.
receive(t) ==
  LET b == driver.rx_buffers[t]
  IN  /\ Queue!CanPop(t)
      /\ IF b = None \/ driver.idx[b] # t
         THEN WrongToken([driver EXCEPT !.rx_buffers[t] = None]) /\ UNCHANGED queue
         ELSE receive_complete(t, b)

RecycleUnderOldToken(b) ==
  /\ b \in driver.client
  /\ Queue!AddNotify(b)
  /\ driver' = [driver EXCEPT !.rx_buffers[driver.idx[b]] = b, !.client = @ \ {b}]

\* recycle_rx_buffer: receive_begin, and the buffer is stored under its new
\* token.
recycle_rx_buffer(b) ==
  LET new_token == Queue!NextToken
  IN  /\ b \in driver.client
      /\ Queue!AddNotify(b)
      /\ IF driver.rx_buffers[new_token] # None
         THEN WrongToken([driver EXCEPT !.client = @ \ {b}])
         ELSE driver' = [driver EXCEPT !.idx[b] = new_token, !.rx_buffers[new_token] = b,
                                       !.client = @ \ {b}]

\* The device writes a packet, or less than a header.
DeviceUse(t) ==
  /\ Queue!Use(t)
  /\ \E short \in SUBSET {queue.request[t]} :
       /\ Cardinality(driver.dropped \cup driver.short \cup short) <= MaxShort
       /\ driver' = [driver EXCEPT !.short = @ \cup short]

DeviceTake == (Queue!Take \/ Queue!Sleep) /\ UNCHANGED driver

Next ==
  \/ \E t \in Queue!Tokens : receive(t) \/ DeviceUse(t)
  \/ \E b \in Buffers : recycle_rx_buffer(b)
  \/ DeviceTake

-----------------------------------------------------------------------------
\* "We are passing the same buffer as we passed to `VirtQueue::add`": the
\* buffer that the device has under a token is the one stored under it, also
\* when the client recycles in another order than it received and buffers
\* change their tokens; other tokens have none, so that neither receive nor
\* recycle_rx_buffer reports WrongToken after its work is half done.  A buffer
\* that is not with the driver is with the client, or lost to a short packet.
BuffersUnderTheirTokens ==
  /\ ~driver.error
  /\ driver.rx_buffers = queue.request
  /\ \A t \in Queue!Outstanding : driver.idx[queue.request[t]] = t
  /\ Queue!Added = Buffers \ (driver.client \cup driver.dropped)
=============================================================================
