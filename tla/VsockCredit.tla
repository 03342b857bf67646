------------------------------ MODULE VsockCredit ------------------------------
(***************************************************************************)
(* Flow control of an established vsock connection between the crate's two *)
(* managers: VsockConnectionManager in the guest and                       *)
(* VsockDeviceConnectionManager in the host (vsock.rs and                  *)
(* connectionmanager.rs).  On each side some threads call send and one     *)
(* calls poll and recv, as the example of VsockConnectionManager proposes. *)
(* No client calls update_credit: the credit updates are those that poll   *)
(* answers requests with.                                                  *)
(*                                                                         *)
(* A step is what a thread does while it holds the lock of the connection  *)
(* or of a queue: headers are made under the first and queued under the    *)
(* second, so packets of two threads can overtake each other.  The guest   *)
(* waits in add_notify_wait_pop, holding the lock of the tx queue, until   *)
(* the host has taken its packet.  The host waits in wait_pop_add_notify   *)
(* for one of the buffers of the rx queue.                                 *)
(*                                                                         *)
(* Data is counted, not modelled.  The counters start at First, after as   *)
(* many bytes have been sent and read both ways.  The connection stays     *)
(* open: of the events of poll only those of an established connection     *)
(* (data, credit requests and credit updates) occur.                       *)
(***************************************************************************)
EXTENDS Integers, Sequences, FiniteSetsExt

CONSTANTS
  Senders,     \* threads that call send
  buf_alloc,   \* capacity of the receive buffer of the connection, on both sides
  RxBuffers,   \* buffers of the rx queue (QUEUE_SIZE)
  Modulus,     \* counters wrap here: 2^32 in the code
  First,       \* value of the counters at the start
  MaxBytes     \* bytes that each side sends, fewer than Modulus

ASSUME CreditAssumption ==
  /\ IsFiniteSet(Senders)
  /\ buf_alloc \in Nat \ {0} /\ RxBuffers \in Nat \ {0}
  /\ Modulus \in Nat /\ First \in 0 .. Modulus - 1
  /\ MaxBytes \in Nat /\ MaxBytes + buf_alloc < Modulus

Sides == {"guest", "host"}
Peer(s) == IF s = "guest" THEN "host" ELSE "guest"

Poller == "poller"
Threads == Senders \cup {Poller}

VARIABLES
  info,      \* [Sides -> ConnectionInfo]
  used,      \* [Sides -> bytes in the connection's RingBuffer]
  queue,     \* [Sides -> packets that the side has sent and its peer not yet polled]
  thread,    \* [Sides -> [Threads -> [pc, len, header]]]
  sent,      \* [Sides -> bytes in packets made so far]
  lost       \* [Sides -> bytes that did not fit the RingBuffer]

vars == <<info, used, queue, thread, sent, lost>>

Wrap(n) == n % Modulus

Ops == {"Rw", "CreditRequest", "CreditUpdate"}

\* new_header: the credit a packet carries.
NewHeader(s, op, len) == [op |-> op, len |-> len, fwd_cnt |-> info[s].fwd_cnt]
NoHeader == [op |-> "Rw", len |-> 0, fwd_cnt |-> 0]

Idle == [pc |-> "idle", len |-> 0, header |-> NoHeader]

Init ==
  /\ info = [s \in Sides |->
       [peer_fwd_cnt |-> First, tx_cnt |-> First, fwd_cnt |-> First,
        has_pending_credit_request |-> FALSE]]
  /\ used = [s \in Sides |-> 0]
  /\ queue = [s \in Sides |-> <<>>]
  /\ thread = [s \in Sides |-> [t \in Threads |-> Idle]]
  /\ sent = [s \in Sides |-> 0]
  /\ lost = [s \in Sides |-> 0]

peer_free_without_outstanding(s) == buf_alloc

\* saturating_sub of the wrapped difference; peer_buf_alloc is the peer's
\* capacity in every header.
peer_free(s) ==
  LET outstanding == Wrap(info[s].tx_cnt - info[s].peer_fwd_cnt)
  IN  IF outstanding > buf_alloc THEN 0 ELSE buf_alloc - outstanding

At(s, t, pc) == thread[s][t].pc = pc

Move(s, t, pc) == thread' = [thread EXCEPT ![s][t].pc = pc]

\* check_peer_buffer_is_sufficient: go on to send, ask for credit, or give up
\* because a request is pending, which changes nothing.
Check(s, t, len) ==
  /\ At(s, t, "idle")
  /\ IF peer_free(s) >= len
     THEN /\ thread' = [thread EXCEPT ![s][t] = [@ EXCEPT !.pc = "send", !.len = len]]
          /\ UNCHANGED info
     ELSE /\ ~info[s].has_pending_credit_request
          /\ info' = [info EXCEPT ![s].has_pending_credit_request = TRUE]
          /\ Move(s, t, "request_credit")
  /\ UNCHANGED <<used, queue, sent, lost>>

Transmitting(header) == [pc |-> "transmit", len |-> 0, header |-> header]

\* send locks the connection again: the header, and tx_cnt moves on.
Send(s, t) ==
  LET len == thread[s][t].len
  IN  /\ At(s, t, "send")
      /\ thread' = [thread EXCEPT ![s][t] = Transmitting(NewHeader(s, "Rw", len))]
      /\ info' = [info EXCEPT ![s].tx_cnt = Wrap(@ + len)]
      /\ sent' = [sent EXCEPT ![s] = @ + len]
      /\ UNCHANGED <<used, queue, lost>>

\* request_credit and credit_update make a header without data.
RequestCredit(s, t) ==
  /\ At(s, t, "request_credit")
  /\ thread' = [thread EXCEPT ![s][t] = Transmitting(NewHeader(s, "CreditRequest", 0))]
  /\ UNCHANGED <<info, used, queue, sent, lost>>

CreditUpdate(s, t) ==
  /\ At(s, t, "credit_update")
  /\ thread' = [thread EXCEPT ![s][t] = Transmitting(NewHeader(s, "CreditUpdate", 0))]
  /\ UNCHANGED <<info, used, queue, sent, lost>>

\* send_packet_to_queue of the guest: add_notify_wait_pop under the tx lock.
GuestTransmit(t) ==
  /\ At("guest", t, "transmit")
  /\ \A u \in Threads : ~At("guest", u, "wait")
  /\ queue' = [queue EXCEPT !["guest"] = Append(@, thread["guest"][t].header)]
  /\ Move("guest", t, "wait")
  /\ UNCHANGED <<info, used, sent, lost>>

GuestTransmitted(t) ==
  /\ At("guest", t, "wait")
  /\ queue["guest"] = <<>>
  /\ thread' = [thread EXCEPT !["guest"][t] = Idle]
  /\ UNCHANGED <<info, used, queue, sent, lost>>

\* send_packet_to_queue of the host: wait_pop_add_notify.
HostTransmit(t) ==
  /\ At("host", t, "transmit")
  /\ Len(queue["host"]) < RxBuffers
  /\ queue' = [queue EXCEPT !["host"] = Append(@, thread["host"][t].header)]
  /\ thread' = [thread EXCEPT !["host"][t] = Idle]
  /\ UNCHANGED <<info, used, sent, lost>>

UpdateForAnyEvent(i, header) ==
  [i EXCEPT !.peer_fwd_cnt = header.fwd_cnt]

\* update_for_event
UpdateForEvent(i, header) ==
  [i EXCEPT !.peer_fwd_cnt = header.fwd_cnt,
            !.has_pending_credit_request = @ /\ header.op # "CreditUpdate"]

PollKeepingAByteFree(s) ==
  LET header == Head(queue[Peer(s)])
      fits == header.len < buf_alloc - used[s]
  IN  /\ At(s, Poller, "idle")
      /\ queue[Peer(s)] # <<>>
      /\ queue' = [queue EXCEPT ![Peer(s)] = Tail(@)]
      /\ info' = [info EXCEPT ![s] = UpdateForEvent(@, header)]
      /\ used' = [used EXCEPT ![s] = IF fits THEN @ + header.len ELSE @]
      /\ lost' = [lost EXCEPT ![s] = IF fits THEN @ ELSE @ + header.len]
      /\ Move(s, Poller, IF header.op = "CreditRequest" THEN "credit_update" ELSE "idle")
      /\ UNCHANGED sent

\* poll: the next packet of the peer.  Data that does not fit the buffer is an
\* OutputBufferTooShort error and dropped; a CreditRequest is answered.
Poll(s) ==
  LET header == Head(queue[Peer(s)])
      fits == header.len <= buf_alloc - used[s]
  IN  /\ At(s, Poller, "idle")
      /\ queue[Peer(s)] # <<>>
      /\ queue' = [queue EXCEPT ![Peer(s)] = Tail(@)]
      /\ info' = [info EXCEPT ![s] = UpdateForEvent(@, header)]
      /\ used' = [used EXCEPT ![s] = IF fits THEN @ + header.len ELSE @]
      /\ lost' = [lost EXCEPT ![s] = IF fits THEN @ ELSE @ + header.len]
      /\ Move(s, Poller, IF header.op = "CreditRequest" THEN "credit_update" ELSE "idle")
      /\ UNCHANGED sent

RecvWithoutForwarding(s, len) ==
  LET bytes_read == IF len < used[s] THEN len ELSE used[s]
  IN  /\ At(s, Poller, "idle")
      /\ bytes_read > 0
      /\ used' = [used EXCEPT ![s] = @ - bytes_read]
      /\ UNCHANGED <<info, queue, thread, sent, lost>>

\* recv into a buffer of len bytes.
Recv(s, len) ==
  LET bytes_read == IF len < used[s] THEN len ELSE used[s]
  IN  /\ At(s, Poller, "idle")
      /\ bytes_read > 0
      /\ used' = [used EXCEPT ![s] = @ - bytes_read]
      /\ info' = [info EXCEPT ![s].fwd_cnt = Wrap(@ + bytes_read)]
      /\ UNCHANGED <<queue, thread, sent, lost>>

\* The client of a sender has more to send.
Checks(s, t) == \E len \in 1 .. buf_alloc : sent[s] + len <= MaxBytes /\ Check(s, t, len)

Receives(s) == \E len \in 1 .. buf_alloc : Recv(s, len)

\* The rest of a call.
Continue(s, t) ==
  \/ Send(s, t)
  \/ RequestCredit(s, t)
  \/ CreditUpdate(s, t)
  \/ s = "guest" /\ (GuestTransmit(t) \/ GuestTransmitted(t))
  \/ s = "host" /\ HostTransmit(t)

Next ==
  \E s \in Sides :
    \/ \E t \in Senders : Checks(s, t)
    \/ \E t \in Threads : Continue(s, t)
    \/ Poll(s) \/ Receives(s)

Spec == Init /\ [][Next]_vars

\* Calls go on, the clients keep sending, and the poller's loop polls as well
\* as reads.
FairSpec ==
  /\ Spec
  /\ \A s \in Sides :
       /\ \A t \in Senders : WF_vars(Checks(s, t))
       /\ \A t \in Threads : WF_vars(Continue(s, t))
       /\ SF_vars(Poll(s))
       /\ SF_vars(Receives(s))

-----------------------------------------------------------------------------
Counter == 0 .. Modulus - 1
Header == [op : Ops, len : 0 .. buf_alloc, fwd_cnt : Counter]

\* The types of the connections, packets and calls.
TypeOK ==
  /\ info \in [Sides -> [peer_fwd_cnt : Counter, tx_cnt : Counter, fwd_cnt : Counter,
                         has_pending_credit_request : BOOLEAN]]
  /\ used \in [Sides -> 0 .. buf_alloc]
  /\ \A s \in Sides : Len(queue[s]) <= (IF s = "guest" THEN 1 ELSE RxBuffers)
  /\ thread \in [Sides -> [Threads ->
       [pc : {"idle", "send", "request_credit", "credit_update", "transmit", "wait"},
        len : 0 .. buf_alloc, header : Header]]]

SumOver(f, S) == MapThenSumSet(LAMBDA x : f[x], S)

\* Bytes in packets that were made and are not yet queued.
Made(s) ==
  SumOver([t \in Threads |-> IF At(s, t, "transmit") THEN thread[s][t].header.len ELSE 0], Threads)
Queued(s) == SumOver([i \in DOMAIN queue[s] |-> queue[s][i].len], DOMAIN queue[s])

\* The bytes that a side has sent and its peer not yet read.
Unread(s) == Made(s) + Queued(s) + used[Peer(s)]

\* tx_cnt and the peer's fwd_cnt, which wrap, differ by exactly the bytes that
\* are on their way or unread: none is counted twice or not at all, by any
\* interleaving of the two lock sections of send with poll and recv.
BytesAccounted ==
  \A s \in Sides :
    Wrap(info[s].tx_cnt - info[Peer(s)].fwd_cnt) = Unread(s) + lost[Peer(s)]

\* A sender never believes its peer to have more space than it has, although
\* the fwd_cnt it has seen last may be older than one it saw before: headers
\* are made under one lock and queued under another.
CreditIsSafe == \A s \in Sides : peer_free(s) <= buf_alloc - Unread(s)

\* The receive buffer never overflows: send fails with
\* InsufficientBufferSpaceInPeer ("Peer has insufficient buffer space, try
\* again later") before the peer would drop data with OutputBufferTooShort.
NothingLost == \A s \in Sides : lost[s] = 0

\* "Try again later" ends: senders that retry after
\* InsufficientBufferSpaceInPeer send everything, and everything is read, even
\* if no credit update is sent unasked.
EverythingArrives == <>(\A s \in Sides : sent[s] = MaxBytes /\ Unread(s) = 0)
=============================================================================
