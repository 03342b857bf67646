-------------------------------- MODULE Console --------------------------------
(***************************************************************************)
(* VirtIOConsole (console.rs) with its embedded-io traits                  *)
(* (console/embedded_io.rs): the receive queue, which holds queue_buf_rx   *)
(* or nothing.  The device writes the bytes 0, 1, 2, ... up to             *)
(* PAGE_SIZE of them at a time; their numbers wrap at Modulus.             *)
(*                                                                         *)
(* The client makes any of the calls in any order, one at a time as they   *)
(* take &mut self.  Sending (send, send_bytes, write) is one blocking      *)
(* request at a time on a queue of its own, which it leaves empty again,   *)
(* and emergency_write one write to the configuration space: Requests and  *)
(* ConfigSpace model these.                                                *)
(***************************************************************************)
EXTENDS Integers, Sequences

CONSTANTS QUEUE_SIZE, PAGE_SIZE, Modulus, None

queue_buf_rx == "queue_buf_rx"
Needs(b) == 1

VARIABLES
  queue,    \* receiveq
  driver    \* the fields below
vars == <<queue, driver>>

Queue == INSTANCE AbstractQueue WITH Capacity <- QUEUE_SIZE, Requests <- {queue_buf_rx}

(***************************************************************************)
(*   cursor, pending_len, receive_token                                    *)
(*   buf            contents of queue_buf_rx                               *)
(*   written        the next byte of the device                            *)
(*   passed         bytes that the cursor has moved past, as the client    *)
(*                  took them with recv or consume                         *)
(*   call.len       while a call is in wait_for_receive, the bytes that it *)
(*                  has room for; otherwise 0                              *)
(*   call.out       the bytes that the last call to give any has given     *)
(*   call.at        `passed` when it was made                              *)
(*   call.consumes  has consume been called since?                         *)
(***************************************************************************)
Here == [queue |-> queue, driver |-> driver]
Set(s) == queue' = s.queue /\ driver' = s.driver

\* poll_retrieve and finish_receive, as functions of the state.
poll_retrieve(s) ==
  IF s.driver.receive_token = None /\ s.driver.cursor = s.driver.pending_len
  THEN [queue |-> Queue!Notified(Queue!With(s.queue, queue_buf_rx)),
        driver |-> [s.driver EXCEPT !.receive_token = Head(s.queue.free)]]
  ELSE s

finish_receive_twice(s) ==
  IF s.queue.returned # <<>> /\ Head(s.queue.returned) = s.driver.receive_token
  THEN [queue |-> Queue!Without(s.queue, s.driver.receive_token),
        driver |-> [s.driver EXCEPT !.pending_len = Len(s.driver.buf), !.receive_token = None]]
  ELSE s

finish_receive(s) ==
  IF s.queue.returned # <<>> /\ Head(s.queue.returned) = s.driver.receive_token
  THEN [queue |-> Queue!Without(s.queue, s.driver.receive_token),
        driver |-> [s.driver EXCEPT !.cursor = 0, !.pending_len = Len(s.driver.buf),
                                    !.receive_token = None]]
  ELSE s

\* new asks for the first data.
Init ==
  LET s == poll_retrieve(
             [queue |-> Queue!Empty,
              driver |-> [cursor |-> 0, pending_len |-> 0, receive_token |-> None, buf |-> <<>>,
                          written |-> 0, passed |-> 0,
                          call |-> [len |-> 0, out |-> <<>>, at |-> 0, consumes |-> FALSE]]])
  IN  queue = s.queue /\ driver = s.driver

Idle == driver.call.len = 0

\* consume has used up the buffer, and nothing has been asked for since.
Consumed ==
  /\ driver.receive_token = None /\ driver.cursor = driver.pending_len
  /\ driver.call.consumes

Unread(s) == s.driver.cursor # s.driver.pending_len

\* A call gives the client the n bytes from the cursor on,
Given(s, n) ==
  [s EXCEPT !.driver.call = [len |-> 0, out |-> [i \in 1 .. n |-> s.driver.buf[s.driver.cursor + i]],
                             at |-> s.driver.passed, consumes |-> FALSE]]

\* and the cursor moves past n bytes.
Taken(s, n) ==
  [s EXCEPT !.driver.cursor = @ + n, !.driver.passed = (@ + n) % Modulus]

RecvWithoutRetrieve(pop) ==
  LET s == finish_receive(Here)
      given == Given(s, 1)
  IN  /\ Idle
      /\ Set(IF ~Unread(s) THEN s ELSE IF pop THEN Taken(given, 1) ELSE given)

\* recv returns None, or the next byte, which it takes if pop.
recv(pop) ==
  LET s == finish_receive(Here)
      given == Given(s, 1)
  IN  /\ Idle
      /\ Set(IF ~Unread(s) THEN s ELSE IF pop THEN poll_retrieve(Taken(given, 1)) ELSE given)

\* ack_interrupt when there is a queue interrupt; and read_ready.
ack_interrupt == Idle /\ Set(finish_receive(Here))

\* wait_for_receive, called for len bytes,
wait_for_receive(len) ==
  /\ Idle
  /\ Set([poll_retrieve(Here) EXCEPT !.driver.call.len = len])

\* by read, which returns at once if there is no room for any, and by fill_buf.
read(len) == wait_for_receive(len)
fill_buf == wait_for_receive(PAGE_SIZE)

\* Once there are bytes, read copies what it has room for and fill_buf returns
\* all of them; neither moves the cursor.
WaitEnds ==
  LET s == IF Unread(Here) THEN Here ELSE finish_receive(Here)
      unread == s.driver.pending_len - s.driver.cursor
  IN  /\ ~Idle
      /\ Unread(s)
      /\ Set(Given(s, IF driver.call.len < unread THEN driver.call.len ELSE unread))

consume(amt) ==
  /\ Idle
  /\ driver.cursor + amt <= driver.pending_len
  /\ Set([Taken(Here, amt) EXCEPT !.driver.call.consumes = TRUE])

DeviceUse(n) ==
  /\ \E t \in Queue!Tokens : Queue!Use(t)
  /\ driver' = [driver EXCEPT !.buf = [i \in 1 .. n |-> (driver.written + i - 1) % Modulus],
                              !.written = (@ + n) % Modulus]

DeviceTake == (Queue!Take \/ Queue!Sleep) /\ UNCHANGED driver

Next ==
  \/ \E pop \in BOOLEAN : recv(pop)
  \/ ack_interrupt
  \/ \E len \in 1 .. PAGE_SIZE : read(len)
  \/ fill_buf
  \/ WaitEnds
  \/ \E amt \in 1 .. PAGE_SIZE : consume(amt)
  \/ \E n \in 1 .. PAGE_SIZE : DeviceUse(n)
  \/ DeviceTake

-----------------------------------------------------------------------------
\* What recv, read and fill_buf give the client begins with the byte after the
\* ones that recv and consume have moved the cursor past, and is in order.  The
\* bytes to come, in queue_buf_rx from the cursor on or, if the device has used
\* the buffer and finish_receive not yet seen it, from its start, are all those
\* that the device has written since: the buffer is with the device only when
\* the cursor has passed everything in it.  As read does not move the cursor, a
\* client that calls read again is given the same bytes again.
NextBytes ==
  LET unread == IF Unread(Here)
                THEN SubSeq(driver.buf, driver.cursor + 1, driver.pending_len)
                ELSE IF queue.returned # <<>> THEN driver.buf ELSE <<>>
      call == driver.call
  IN  /\ \A i \in DOMAIN call.out : call.out[i] = (call.at + i - 1) % Modulus
      /\ (driver.passed + Len(unread)) % Modulus = driver.written
      /\ \A i \in DOMAIN unread : unread[i] = (driver.passed + i - 1) % Modulus
      /\ Unread(Here) => Queue!Outstanding = {}
=============================================================================
