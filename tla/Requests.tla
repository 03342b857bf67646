-------------------------------- MODULE Requests --------------------------------
(***************************************************************************)
(* Requests that a driver makes on a queue on behalf of its caller: those  *)
(* of VirtIOBlk (blk.rs), VirtIORng (rng.rs) and VirtIONetRaw              *)
(* (net/dev_raw.rs), the senders of VirtIOConsole (console.rs) and         *)
(* VirtIOSocket (vsock.rs), and the commands of VirtIOSound (sound.rs) and *)
(* VirtIOGpu (gpu.rs).                                                     *)
(*                                                                         *)
(* A caller blocks in every call, in add_notify_wait_pop or receive_wait,  *)
(* or it begins requests, polls, and completes them with the token it was  *)
(* given.  It does not do both on one queue: a blocking call "assumes that *)
(* the device isn't processing any other buffers at the same time".  Which *)
(* sector, and which bytes, is left out; the device finishes requests in   *)
(* any order.  A buffer of a wrong length is refused, by an assertion or   *)
(* InvalidParam, before anything happens.                                  *)
(***************************************************************************)
EXTENDS Integers, Sequences, Functions

CONSTANTS
  SIZE,
  MaxRequests,   \* requests of a type that are begun at a time
  None

\* The requests and the descriptors that they take: header, data and answer,
\* as far as there are such.
Descriptors ==
  [In |-> 3, Out |-> 3, GetId |-> 3, Flush |-> 2,
   Entropy |-> 1,
   Packet |-> 2, EmptyPacket |-> 1, Transmit |-> 1, Receive |-> 1,
   Text |-> 1,
   VsockHeader |-> 1, VsockPacket |-> 2,
   Control |-> 2, Cursor |-> 1]

\* The queues, and what is sent on them by callers that block and by others.
Blocking ==
  [blk |-> {"In", "Out", "GetId", "Flush"}, rng |-> {"Entropy"},
   net_tx |-> {"Packet", "EmptyPacket"}, net_rx |-> {"Receive"}, console |-> {"Text"},
   vsock |-> {"VsockHeader", "VsockPacket"}, control |-> {"Control"}, cursor |-> {"Cursor"}]

NonBlocking == [blk |-> {"In", "Out"}, net_tx |-> {"Transmit"}, net_rx |-> {"Receive"}]

Requests == [type : DOMAIN Descriptors, nr : 1 .. MaxRequests]
Needs(r) == Descriptors[r.type]

VARIABLES
  queue,
  driver    \* the fields below
vars == <<queue, driver>>

Queue == INSTANCE AbstractQueue WITH Capacity <- SIZE

(***************************************************************************)
(*   device, blocks   which queue, and which kind of caller                *)
(*   flush            BlkFeature::FLUSH was negotiated                     *)
(*   call             the request of the blocking call, None between calls *)
(*   token            [requests -> the token of the caller, or None]       *)
(*   status           [requests -> what the device answered]               *)
(*   result           the last result: its request, and Ok or the error    *)
(***************************************************************************)
Init ==
  /\ Queue!Init
  /\ \E device \in DOMAIN Blocking, blocks, flush \in BOOLEAN :
       /\ blocks \/ device \in DOMAIN NonBlocking
       /\ device # "blk" => flush
       /\ LET types == IF blocks THEN Blocking[device] ELSE NonBlocking[device]
              mine == [type : types, nr : 1 .. IF blocks THEN 1 ELSE MaxRequests]
          IN  driver = [device |-> device, blocks |-> blocks, flush |-> flush, call |-> None,
                        token |-> [r \in mine |-> None], status |-> [r \in mine |-> "NOT_READY"],
                        result |-> [request |-> None, is |-> "Ok"]]

Mine == DOMAIN driver.token
InCall == driver.call # None

\* RespStatus into Result; the answers of the other devices carry none.
Result(status) ==
  CASE status = "OK" -> "Ok"
    [] status = "UNSUPPORTED" -> "Unsupported"
    [] status = "NOT_READY" -> "NotReady"
    [] OTHER -> "IoError"

Returns(r, result) ==
  [driver EXCEPT !.call = None, !.token[r] = None, !.result = [request |-> r, is |-> result]]

-----------------------------------------------------------------------------
(***************************************************************************)
(* Requests that are begun and completed.                                  *)
(***************************************************************************)
\* add, should_notify and notify; otherwise QueueFull.  The caller provides
\* other buffers for each request.
Begin(r) ==
  /\ ~driver.blocks
  /\ driver.token[r] = None
  /\ Queue!AddNotify(r)
  /\ driver' = [driver EXCEPT !.token[r] = Queue!NextToken, !.status[r] = "NOT_READY"]

read_blocks_nb(r) == r.type = "In" /\ Begin(r)
write_blocks_nb(r) == r.type = "Out" /\ Begin(r)
transmit_begin(r) == r.type = "Transmit" /\ Begin(r)
receive_begin(r) == r.type = "Receive" /\ Begin(r)

CompleteAny(r) ==
  /\ ~driver.blocks
  /\ driver.token[r] # None
  /\ \E t \in Queue!Tokens : Queue!Pop(t)
  /\ driver' = Returns(r, Result(driver.status[r]))

\* pop_used with the token of the request, after peek_used, poll_transmit or
\* poll_receive has returned that token.
Complete(r) ==
  /\ ~driver.blocks
  /\ driver.token[r] # None
  /\ Queue!Pop(driver.token[r])
  /\ driver' = Returns(r, Result(driver.status[r]))

complete_read_blocks(r) == r.type = "In" /\ Complete(r)
complete_write_blocks(r) == r.type = "Out" /\ Complete(r)
transmit_complete(r) == r.type = "Transmit" /\ Complete(r)

\* A packet shorter than a header is an IoError.
receive_complete(r) == r.type = "Receive" /\ Complete(r)

-----------------------------------------------------------------------------
(***************************************************************************)
(* Blocking requests.                                                      *)
(***************************************************************************)
\* The first half of add_notify_wait_pop.
Call(r) ==
  /\ driver.blocks
  /\ ~InCall
  /\ Queue!AddNotify(r)
  /\ driver' = [driver EXCEPT !.call = r, !.token[r] = Queue!NextToken,
                              !.status[r] = "NOT_READY"]

\* VirtIOBlk.  Without the feature, flush is ignored.
read_blocks(r) == r.type = "In" /\ Call(r)
write_blocks(r) == r.type = "Out" /\ Call(r)
device_id(r) == r.type = "GetId" /\ Call(r)

flush(r) ==
  /\ r.type = "Flush"
  /\ IF driver.flush THEN Call(r)
     ELSE /\ driver.blocks /\ ~InCall
          /\ driver' = [driver EXCEPT !.result = [request |-> None, is |-> "Ok"]]
          /\ UNCHANGED queue

request_entropy(r) == r.type = "Entropy" /\ Call(r)

\* VirtIONetRaw::send and receive_wait, up to its loop.
send(r) == r.type \in {"Packet", "EmptyPacket"} /\ Call(r)
receive_wait(r) == r.type = "Receive" /\ Call(r)

\* VirtIOConsole::send, send_bytes and the two Write traits.
send_bytes(r) == r.type = "Text" /\ Call(r)

send_packet_to_tx_queue(r) == r.type \in {"VsockHeader", "VsockPacket"} /\ Call(r)

\* VirtIOSound::request and VirtIOGpu::request; VirtIOGpu::cursor_request.
request(r) == r.type = "Control" /\ Call(r)
cursor_request(r) == r.type = "Cursor" /\ Call(r)

ReturnRetrying(r) ==
  /\ driver.call = r
  /\ Queue!CanPop(driver.token[r])
  /\ IF driver.status[r] = "IO_ERR"
     THEN /\ queue' = Queue!Notified(Queue!With(Queue!Without(queue, driver.token[r]), r))
          /\ driver' = [driver EXCEPT !.status[r] = "NOT_READY"]
     ELSE Queue!Pop(driver.token[r]) /\ driver' = Returns(r, Result(driver.status[r]))

\* The second half of add_notify_wait_pop: it goes on once anything can be
\* popped.
Return(r) ==
  /\ driver.call = r
  /\ queue.returned # <<>>
  /\ IF Queue!CanPop(driver.token[r])
     THEN Queue!Pop(driver.token[r]) /\ driver' = Returns(r, Result(driver.status[r]))
     ELSE UNCHANGED queue /\ driver' = Returns(r, "WrongToken")

-----------------------------------------------------------------------------
\* What a device answers: a status, or for the network a length.
Statuses ==
  CASE driver.device = "blk" -> {"OK", "IO_ERR", "UNSUPPORTED"}
    [] driver.device = "net_rx" -> {"OK", "SHORT"}
    [] OTHER -> {"OK"}

DeviceUse(t) ==
  /\ Queue!Use(t)
  /\ \E status \in Statuses : driver' = [driver EXCEPT !.status[queue.request[t]] = status]

DeviceTake == (Queue!Take \/ Queue!Sleep) /\ UNCHANGED driver

Begins(r) == read_blocks_nb(r) \/ write_blocks_nb(r) \/ transmit_begin(r) \/ receive_begin(r)

Completes(r) ==
  complete_read_blocks(r) \/ complete_write_blocks(r) \/ transmit_complete(r) \/ receive_complete(r)

Calls(r) ==
  \/ read_blocks(r) \/ write_blocks(r) \/ device_id(r) \/ flush(r)
  \/ request_entropy(r) \/ send(r) \/ receive_wait(r) \/ send_bytes(r)
  \/ send_packet_to_tx_queue(r) \/ request(r) \/ cursor_request(r)

Next ==
  \/ \E r \in Mine : Begins(r) \/ Completes(r) \/ Calls(r) \/ Return(r)
  \/ \E t \in Queue!Tokens : DeviceUse(t)
  \/ DeviceTake

-----------------------------------------------------------------------------
\* Whatever the order in which the device finishes them, a request whose
\* buffers the caller still lends is in the queue under the caller's token,
\* and when a call returns ("We don't return until the same token has been
\* popped"; "Once it has, the caller must call `complete_read_blocks` with the
\* same buffers") its buffers are out of the queue and its result is the
\* device's answer to this very request.
EachRequestItsAnswer ==
  /\ \A r \in Mine : driver.token[r] # None => queue.request[driver.token[r]] = r
  /\ Queue!Added = {r \in Mine : driver.token[r] # None}
  /\ LET r == driver.result.request
     IN  r # None /\ driver.token[r] = None => driver.result.is # "NotReady" /\
                                               driver.result.is = Result(driver.status[r])
=============================================================================
