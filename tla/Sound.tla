---------------------------------- MODULE Sound ----------------------------------
(***************************************************************************)
(* VirtIOSound (sound.rs): one output stream, the transmit queue with the  *)
(* blocking pcm_xfer and with pcm_xfer_nb and pcm_xfer_ok in any order,    *)
(* and the control requests, which are blocking and answered at once.  The *)
(* event queue is an OwningQueue.                                          *)
(*                                                                         *)
(* pcm_xfer returns at the first error and may leave periods in the queue, *)
(* which later calls find there beside those of pcm_xfer_nb.  The device   *)
(* writes their status to where `statuses` of that call was, which may be  *)
(* the array of a later one: a status that is read may be any.             *)
(***************************************************************************)
EXTENDS Integers, Sequences, FiniteSets

CONSTANTS
  QUEUE_SIZE,
  MaxPeriods,   \* periods of the frames of a transfer
  MaxLeft,      \* bounds the calls that have left periods in the queue
  None

Slots == 0 .. QUEUE_SIZE - 1

\* A period on its way.  With indirect descriptors it takes one descriptor;
\* otherwise one for each buffer: stream id, frames and status in pcm_xfer,
\* where slot is the element of `statuses`, and two in pcm_xfer_nb.  The calls
\* of pcm_xfer with periods in the queue are told apart by their numbers.
Calls == 0 .. MaxLeft
Transfers == [period : 1 .. MaxPeriods, slot : Slots, call : Calls, indirect : BOOLEAN]
               \cup [period : 1 .. MaxPeriods, slot : {None}, call : {None}, indirect : BOOLEAN]
Needs(r) == IF r.indirect THEN 1 ELSE IF r.slot = None THEN 2 ELSE 3

VARIABLES
  queue,    \* tx_queue
  driver    \* the fields below
vars == <<queue, driver>>

Queue == INSTANCE AbstractQueue WITH Capacity <- QUEUE_SIZE, Requests <- Transfers

(***************************************************************************)
(*   indirect      negotiated                                              *)
(*   jacks         number of jacks, of the configuration space             *)
(*   set_up, jack_infos, pcm_infos, chmap_infos: the last three are None   *)
(*                 or the number of infos                                  *)
(*   pcm_states    its length                                              *)
(*   setup         pcm_parameters[stream].setup                            *)
(*   token_buf     [tokens -> the period stored under it, or None]         *)
(* and of pcm_xfer:                                                        *)
(*   call, pc      its number; the half of the loop it is in, or its result*)
(*   next, ended   the next of remaining_buffers, whether there is none    *)
(*   head, tail, tokens, buffers                                           *)
(*   played        periods that the device has finished with               *)
(*   lost          its tokens that it left in the queue when it returned Ok*)
(*   panic         where a call has panicked, or None                      *)
(***************************************************************************)
NoTransfer ==
  [call |-> 0, pc |-> "Ok", next |-> 1, ended |-> FALSE, head |-> 0, tail |-> 0,
   tokens |-> [i \in Slots |-> 0], buffers |-> [i \in Slots |-> None],
   played |-> {}, lost |-> {}]

\* new
Init ==
  /\ Queue!Init
  /\ \E indirect \in BOOLEAN, jacks \in 0 .. 1 :
       driver = [indirect |-> indirect, jacks |-> jacks, set_up |-> FALSE, panic |-> None,
                 jack_infos |-> None, pcm_infos |-> None, chmap_infos |-> None, pcm_states |-> 0,
                 setup |-> FALSE, token_buf |-> [t \in Queue!Tokens |-> None],
                 xfer |-> NoTransfer]

Idle == driver.xfer.pc \notin {"add", "pop"}
InTransfer == driver.xfer.pc \in {"add", "pop"}

\* The tokens of pcm_xfer_nb, and those of a call of pcm_xfer.
OfNb == {t \in Queue!Outstanding : queue.request[t].call = None}
Of(call) == {t \in Queue!Outstanding : queue.request[t].call = call}
Mine == Of(driver.xfer.call)

-----------------------------------------------------------------------------
(***************************************************************************)
(* Control requests.                                                       *)
(***************************************************************************)
\* The number of infos, or None for an IoError.
jack_info(d) == {None, d.jacks}
pcm_info == {None, 1}
chmap_info == {None, 0}

\* The infos that set_up stores when the device refuses to give them.
OrEmpty(infos) == IF infos = None THEN 0 ELSE infos

\* set_up, whose callers then set self.set_up: the device may refuse to say
\* what jacks and channel maps there are, but has to answer for the streams.
set_up(d) ==
  {LET s == [d EXCEPT !.jack_infos = OrEmpty(jacks)]
   IN  IF streams = None THEN [driver |-> s, ok |-> FALSE]
       ELSE [driver |-> [s EXCEPT !.set_up = TRUE, !.pcm_infos = streams,
                                  !.chmap_infos = OrEmpty(chmaps), !.pcm_states = @ + 1],
             ok |-> TRUE] : jacks \in jack_info(d), streams \in pcm_info, chmaps \in chmap_info}

\* What every call begins with.
Ready == IF driver.set_up THEN {[driver |-> driver, ok |-> TRUE]} ELSE set_up(driver)

\* An unwrap or an index that fails.
Unless(panics, where, d) == IF panics THEN [d EXCEPT !.panic = where] ELSE d

\* pcm_prepare, pcm_release, pcm_start and pcm_stop: a request, nothing else.
StreamCommand ==
  /\ Idle
  /\ \E s \in Ready : driver' = s.driver
  /\ UNCHANGED queue

\* output_streams, input_streams, rates_supported, formats_supported,
\* channel_range_supported, features_supported: a look at pcm_infos.
Query ==
  /\ Idle
  /\ \E s \in Ready :
       driver' = Unless(s.ok /\ s.driver.pcm_infos = None, "pcm_infos", s.driver)
  /\ UNCHANGED queue

\* jack_remap of the one jack; InvalidParam if there is none.
jack_remap ==
  /\ Idle
  /\ \E s \in Ready :
       driver' = Unless(s.ok /\ s.driver.jacks > 0 /\ s.driver.jack_infos \in {None, 0},
                        "jack_infos", s.driver)
  /\ UNCHANGED queue

\* The parameters are kept if the device accepts them.
pcm_set_params(accepted) ==
  /\ Idle
  /\ \E s \in Ready :
       driver' = IF s.ok /\ accepted THEN [s.driver EXCEPT !.setup = TRUE] ELSE s.driver
  /\ UNCHANGED queue

-----------------------------------------------------------------------------
(***************************************************************************)
(* Transfers.                                                              *)
(***************************************************************************)
available_desc ==
  IF driver.indirect THEN IF queue.free = <<>> THEN 0 ELSE QUEUE_SIZE
  ELSE Len(queue.free)

\* pcm_xfer up to its loop; the frames have any number of periods.
pcm_xfer ==
  /\ Idle
  /\ \E c \in Calls : Of(c) = {}
  /\ \E s \in Ready :
       driver' = IF s.ok /\ s.driver.setup
                 THEN [s.driver EXCEPT !.xfer =
                         [NoTransfer EXCEPT !.call = CHOOSE c \in Calls : Of(c) = {},
                                            !.pc = "add"]]
                 ELSE s.driver
  /\ UNCHANGED queue

Increment(i) == (i + 1) % QUEUE_SIZE

\* The arrays go with the call, also if tokens are still in the queue.
Fails(result) == driver' = [driver EXCEPT !.xfer = [NoTransfer EXCEPT !.pc = result]]

Succeeds ==
  driver' = [driver EXCEPT
    !.xfer = [NoTransfer EXCEPT !.next = driver.xfer.next, !.played = driver.xfer.played,
                                !.lost = Mine]]

\* Add the next period, or find that there is none and end if all have been
\* popped.
AddNext ==
  LET x == driver.xfer
      r == [period |-> x.next, slot |-> x.head, call |-> x.call, indirect |-> driver.indirect]
  IN  \/ /\ ~x.ended /\ x.next <= MaxPeriods
         /\ Queue!AddNotify(r)
         /\ driver' = [driver EXCEPT !.xfer =
              [x EXCEPT !.pc = "pop", !.next = @ + 1, !.head = Increment(@),
                        !.tokens[x.head] = Queue!NextToken, !.buffers[x.head] = x.next]]
      \/ /\ UNCHANGED queue
         /\ IF x.head = x.tail THEN Succeeds
            ELSE driver' = [driver EXCEPT !.xfer.pc = "pop", !.xfer.ended = TRUE]

SkipAdd == UNCHANGED queue /\ driver' = [driver EXCEPT !.xfer.pc = "pop"]

\* The first half of the loop.
XferAdd ==
  /\ driver.xfer.pc = "add"
  /\ IF available_desc >= 3 THEN AddNext ELSE SkipAdd

XferPopAny ==
  LET x == driver.xfer
  IN  /\ x.pc = "pop"
      /\ IF queue.returned = <<>>
         THEN UNCHANGED queue /\ driver' = [driver EXCEPT !.xfer.pc = "add"]
         ELSE /\ Queue!Pop(Head(queue.returned))
              /\ driver' = [driver EXCEPT !.xfer.pc = "add", !.xfer.tail = Increment(@)]

\* The second half: pop with the token, buffer and status at the tail, where
\* the unwrap panics if nothing has been added there; the status is SOk or not.
XferPop ==
  LET x == driver.xfer
      token == x.tokens[x.tail]
  IN  /\ x.pc = "pop"
      /\ IF queue.returned = <<>>
         THEN UNCHANGED queue /\ driver' = [driver EXCEPT !.xfer.pc = "add"]
         ELSE IF x.buffers[x.tail] = None
         THEN UNCHANGED queue /\ driver' = [driver EXCEPT !.panic = "buffers"]
         ELSE IF ~Queue!CanPop(token)
         THEN UNCHANGED queue /\ Fails("WrongToken")
         ELSE /\ Queue!Pop(token)
              /\ \/ Fails("IoError")
                 \/ driver' = [driver EXCEPT !.xfer.pc = "add", !.xfer.tail = Increment(@)]

pcm_xfer_nb(period) ==
  LET r == [period |-> period, slot |-> None, call |-> None, indirect |-> driver.indirect]
  IN  /\ Idle
      /\ r \notin Queue!Added
      /\ \E s \in Ready :
           IF s.ok /\ s.driver.setup /\ Queue!CanAdd(r)
           THEN /\ Queue!AddNotify(r)
                /\ driver' = [s.driver EXCEPT !.token_buf[Queue!NextToken] = period]
           ELSE UNCHANGED queue /\ driver' = s.driver

\* With a token from pcm_xfer_nb.  If the device has not finished it an error,
\* which changes nothing.
pcm_xfer_ok(token) ==
  /\ Idle
  /\ driver.token_buf[token] # None
  /\ Queue!Pop(token)
  /\ driver' = [driver EXCEPT !.token_buf[token] = None]

\* The device plays a period.
DeviceUse(t) ==
  /\ Queue!Use(t)
  /\ driver' = IF InTransfer /\ t \in Mine
               THEN [driver EXCEPT !.xfer.played = @ \cup {queue.request[t].period}] ELSE driver

DeviceTake == (Queue!Take \/ Queue!Sleep) /\ UNCHANGED driver

\* After a panic the driver is not used any more.
Panicked == driver.panic # None /\ UNCHANGED vars

Next ==
  \/ Panicked
  \/ /\ driver.panic = None
     /\ \/ StreamCommand \/ Query \/ jack_remap
        \/ \E accepted \in BOOLEAN : pcm_set_params(accepted)
        \/ pcm_xfer \/ XferAdd \/ XferPop
        \/ \E n \in 1 .. 2 : pcm_xfer_nb(n)
        \/ \E t \in Queue!Tokens : pcm_xfer_ok(t) \/ DeviceUse(t)
        \/ DeviceTake

-----------------------------------------------------------------------------
\* "The same buffers passed to `add` are passed to `pop_used` by using `tail`",
\* also when head has come round to tail and when the periods of pcm_xfer_nb and
\* of calls that returned early are in the queue: the arrays of pcm_xfer hold
\* for each of its tokens its own period and status, what it pops is its own,
\* and the unwrap fails only when the device has finished a period of another
\* call.  When it returns Ok every period of it has been played and given back.
\* token_buf holds what pcm_xfer_nb added.
EveryPeriodPlayed ==
  LET x == driver.xfer
      token == x.tokens[x.tail]
  IN  /\ InTransfer =>
           /\ \A t \in Mine : LET r == queue.request[t]
                             IN  x.tokens[r.slot] = t /\ x.buffers[r.slot] = r.period
           /\ x.buffers[x.tail] # None /\ Queue!CanPop(token) =>
                token \in Mine /\ queue.request[token].slot = x.tail
      /\ x.pc = "Ok" => x.played = 1 .. x.next - 1 /\ x.lost = {}
      /\ driver.panic = "buffers" => Head(queue.returned) \notin Mine
      /\ OfNb = {t \in Queue!Tokens : driver.token_buf[t] # None}
      /\ \A t \in OfNb : driver.token_buf[t] = queue.request[t].period

\* set_up, which the next call does again when it has failed, leaves everything
\* there that the calls unwrap, and one state for the one stream.  Of the calls
\* that unwrap what it left only jack_remap panics, if the device has jacks and
\* did not give their infos.
SetUpOnce ==
  /\ driver.set_up => /\ None \notin {driver.jack_infos, driver.pcm_infos, driver.chmap_infos}
                      /\ driver.pcm_states = 1
  /\ ~driver.set_up => driver.pcm_states = 0 /\ ~driver.setup
  /\ driver.panic \notin {None, "buffers"} =>
       driver.panic = "jack_infos" /\ driver.jack_infos < driver.jacks
=============================================================================
