--------------------------- MODULE ConnectionManager ---------------------------
(***************************************************************************)
(* The connections of VsockConnectionManagerCommon (connectionmanager.rs): *)
(* client threads that connect, listen, accept, send, read and close, and  *)
(* threads that poll for the packets of peers.                             *)
(*                                                                         *)
(* A step is what a thread does while it holds the lock `inner` of the     *)
(* table, or between two of its locks: poll keeps `inner` while it waits   *)
(* for the lock of the receive queue and handles the packet, poll_direct   *)
(* takes the lock of the queue first and `inner` for a part of the         *)
(* callback.  Packets are sent without `inner`, on a connection that other *)
(* threads may meanwhile have removed, and a send may fail.  A program     *)
(* calls poll or poll_direct: one that calls both, from two threads, can   *)
(* have each of them wait for the lock that the other one holds.           *)
(*                                                                         *)
(* Peers are not constrained: any packet may come at any time.  Data is    *)
(* counted in units of one packet, and credit is left to VsockCredit.      *)
(* Packets that do not parse or are for another CID are left out: the      *)
(* callback returns for them as for those of unknown connections.          *)
(***************************************************************************)
EXTENDS Integers, Sequences, FiniteSetsExt

CONSTANTS
  Clients,         \* threads that make the other calls
  Pollers,         \* threads that call poll or poll_direct
  Peers,
  Ports,           \* local ports
  Capacity,        \* per_connection_buffer_capacity
  MaxConnections,  \* bounds the Connections that exist at a time
  MaxPackets,      \* bounds the packets of the peers
  MaxFailures,     \* bounds the sends that fail
  None

Threads == Clients \cup Pollers
Keys == Peers \X Ports
Ids == 1 .. MaxConnections

\* What from_header makes of the operation of a packet.  Update: Connected or
\* CreditUpdate, which leave the table alone.
Events == {"ConnectionRequest", "Update", "Reset", "Shutdown", "Received", "CreditRequest"}

\* Rust's None is neither a connection's addresses nor a packet.
ASSUME ConnectionAssumption ==
  /\ MaxConnections \in Nat
  /\ None \notin Keys
  /\ None \notin [key : Keys, event : Events]

VARIABLES
  direct,           \* does the program call poll_direct and accept, or poll?
  connection,       \* [Ids -> Connection]
  connections,      \* inner.connections
  listening_ports,
  offered,          \* new_connection of events that poll_direct returned
  thread,           \* what the threads are doing
  packets,          \* packets received so far
  failures,         \* sends that failed so far
  owed              \* connections with a Shutdown not yet answered by a Rst

vars == <<direct, connection, connections, listening_ports, offered,
          thread, packets, failures, owed>>

Idle == [pc |-> "idle", id |-> 0, sends |-> None, packet |-> None]

\* Connection::new
NewConnection(key) == [key |-> key, used |-> 0, peer_requested_shutdown |-> FALSE]

Init ==
  /\ direct \in BOOLEAN
  /\ connection = [i \in Ids |-> NewConnection(None)]
  /\ connections = <<>>
  /\ listening_ports \in SUBSET Ports
  /\ offered = {}
  /\ thread = [t \in Threads |-> Idle]
  /\ packets = 0
  /\ failures = 0
  /\ owed = {}

At(t, pc) == thread[t].pc = pc

\* The locks: poll holds `inner` and waits for that of the receive queue;
\* poll_direct holds the latter during its callback.
InnerFree == \A t \in Threads : ~At(t, "poll")
QueueFree == \A t \in Threads : ~At(t, "direct") /\ ~At(t, "deliver")

\* The connections that something refers to.
Live == Range(connections) \cup offered \cup {thread[t].id : t \in Threads}
Fresh == Min(Ids \ Live)

\* The last Arc of a connection goes.
DropUnreferenced ==
  connection' = [i \in Ids |-> IF i \in Live' THEN connection[i] ELSE NewConnection(None)]

\* get_connection, get_connection_for_event: the index of the first connection
\* with these addresses, 0 if there is none.
get_connection(key) ==
  LET found == {i \in DOMAIN connections : connection[connections[i]].key = key}
  IN  IF found = {} THEN 0 ELSE Min(found)

swap_remove(i) ==
  [j \in 1 .. Len(connections) - 1 |->
     IF j = i THEN connections[Len(connections)] ELSE connections[j]]

Goto(t, pc, id, sends) ==
  thread' = [thread EXCEPT ![t] = [pc |-> pc, id |-> id, sends |-> sends, packet |-> None]]

Return(t) == thread' = [thread EXCEPT ![t] = Idle]

Rejects(t, id) == Goto(t, "transmit", id, "Rst")

-----------------------------------------------------------------------------
(***************************************************************************)
(* Calls of the client.                                                    *)
(***************************************************************************)
Call(t) == At(t, "idle") /\ InnerFree

listen(t, port) ==
  /\ Call(t)
  /\ listening_ports' = listening_ports \cup {port}
  /\ UNCHANGED <<direct, connection, connections, offered, thread,
                 packets, failures, owed>>

unlisten(t, port) ==
  /\ Call(t)
  /\ listening_ports' = listening_ports \ {port}
  /\ UNCHANGED <<direct, connection, connections, offered, thread,
                 packets, failures, owed>>

ConnectUnchecked(t, key) ==
  /\ Call(t)
  /\ Ids \ Live # {}
  /\ connection' = [connection EXCEPT ![Fresh] = NewConnection(key)]
  /\ connections' = Append(connections, Fresh)
  /\ Goto(t, "transmit", Fresh, "Request")
  /\ UNCHANGED <<direct, listening_ports, offered, packets, failures, owed>>

\* connect up to the request, which is sent without the lock; otherwise
\* ConnectionExists.
connect(t, key) ==
  /\ Call(t)
  /\ get_connection(key) = 0
  /\ Ids \ Live # {}
  /\ connection' = [connection EXCEPT ![Fresh] = NewConnection(key)]
  /\ connections' = Append(connections, Fresh)
  /\ Goto(t, "transmit", Fresh, "Request")
  /\ UNCHANGED <<direct, listening_ports, offered, packets, failures, owed>>

\* accept of a connection that poll_direct returned.
accept(t, id) ==
  /\ Call(t)
  /\ id \in offered
  /\ offered' = offered \ {id}
  /\ connections' = Append(connections, id)
  /\ Goto(t, "transmit", id, "Response")
  /\ UNCHANGED <<direct, connection, listening_ports, packets, failures, owed>>

\* The client forgets the connection of a request: it is dropped.
decline(id) ==
  /\ id \in offered
  /\ offered' = offered \ {id}
  /\ UNCHANGED <<direct, connections, listening_ports, thread, packets, failures, owed>>
  /\ DropUnreferenced

\* Look up the connection under the lock and send one packet of it; otherwise
\* NotConnected.
transmit_on(t, key) ==
  LET i == get_connection(key)
  IN  /\ Call(t)
      /\ i # 0
      /\ Goto(t, "transmit", connections[i], "Rw")
      /\ UNCHANGED <<direct, connection, connections, listening_ports, offered,
                     packets, failures, owed>>

send(t, key) == transmit_on(t, key)
update_credit(t, key) == transmit_on(t, key)
shutdown(t, key) == transmit_on(t, key)

RecvKeepingTheConnection(t, key) ==
  LET i == get_connection(key)
      id == connections[i]
  IN  /\ Call(t)
      /\ i # 0
      /\ connection[id].used > 0
      /\ connection' = [connection EXCEPT ![id].used = @ - 1]
      /\ UNCHANGED <<direct, connections, thread, listening_ports, offered,
                     packets, failures, owed>>

\* recv.  The last of the data of a peer that has gone ends the connection.
recv(t, key) ==
  LET i == get_connection(key)
      id == connections[i]
      used == IF connection[id].used = 0 THEN 0 ELSE connection[id].used - 1
  IN  /\ Call(t)
      /\ i # 0
      /\ connection' = [connection EXCEPT ![id].used = used]
      /\ IF connection[id].peer_requested_shutdown /\ used = 0
         THEN connections' = swap_remove(i) /\ Rejects(t, id)
         ELSE UNCHANGED <<connections, thread>>
      /\ UNCHANGED <<direct, listening_ports, offered, packets, failures, owed>>

force_close(t, key) ==
  LET i == get_connection(key)
  IN  /\ Call(t)
      /\ i # 0
      /\ connections' = swap_remove(i)
      /\ Rejects(t, connections[i])
      /\ UNCHANGED <<direct, connection, listening_ports, offered, packets,
                     failures, owed>>

-----------------------------------------------------------------------------
(***************************************************************************)
(* Sending: send_packet_to_queue returns Ok or an error.  connect and      *)
(* accept take back the connection that they added, the other calls pass   *)
(* the error on.                                                           *)
(***************************************************************************)
Transmitted(t) ==
  /\ At(t, "transmit")
  /\ owed' = IF thread[t].sends = "Rst" THEN owed \ {thread[t].id} ELSE owed
  /\ Return(t)
  /\ UNCHANGED <<direct, connections, listening_ports, offered, packets, failures>>
  /\ DropUnreferenced

\* Is the thread in connect or accept, rather than in poll or another call?
Opening(t) ==
  thread[t].sends = "Request" \/ (direct /\ thread[t].sends = "Response")

TransmitFails(t) ==
  /\ At(t, "transmit")
  /\ failures < MaxFailures
  /\ failures' = failures + 1
  /\ owed' = IF thread[t].sends = "Rst" THEN owed \ {thread[t].id} ELSE owed
  /\ IF Opening(t) THEN Goto(t, "undo", thread[t].id, None) ELSE Return(t)
  /\ UNCHANGED <<direct, connections, listening_ports, offered, packets>>
  /\ DropUnreferenced

UndoLast(t) ==
  /\ At(t, "undo")
  /\ InnerFree
  /\ connections' = SubSeq(connections, 1, Len(connections) - 1)
  /\ owed' = owed \ {thread[t].id}
  /\ Return(t)
  /\ UNCHANGED <<direct, listening_ports, offered, packets, failures>>
  /\ DropUnreferenced

\* Every other entry, in the same order.
retain(id) ==
  LET kept[i \in 0 .. Len(connections)] ==
        IF i = 0 THEN <<>>
        ELSE IF connections[i] = id THEN kept[i - 1]
        ELSE Append(kept[i - 1], connections[i])
  IN  kept[Len(connections)]

\* connect and accept after an error.
Undo(t) ==
  /\ At(t, "undo")
  /\ InnerFree
  /\ connections' = retain(thread[t].id)
  /\ owed' = owed \ {thread[t].id}
  /\ Return(t)
  /\ UNCHANGED <<direct, listening_ports, offered, packets, failures>>
  /\ DropUnreferenced

-----------------------------------------------------------------------------
(***************************************************************************)
(* poll: the callback and the match on the event, with `inner` held.  The  *)
(* entry is that of the callback, since the lock is not given up between.  *)
(***************************************************************************)
\* What is at the head of the receive queue: a packet, or nothing.
Packets == IF packets < MaxPackets THEN [key : Keys, event : Events] \cup {None} ELSE {None}

Takes(t, pc, packet) ==
  /\ packets' = IF packet = None THEN packets ELSE packets + 1
  /\ thread' = [thread EXCEPT ![t] = [Idle EXCEPT !.pc = pc, !.packet = packet]]

\* poll takes `inner`; the packet is the one it will find in the queue.
PollLocks(t) ==
  /\ ~direct
  /\ Call(t)
  /\ \E packet \in Packets : Takes(t, "poll", packet)
  /\ UNCHANGED <<direct, connection, connections, listening_ports, offered, failures, owed>>

Polled(t) == At(t, "poll") /\ QueueFree

PollEmpty(t) ==
  /\ Polled(t)
  /\ thread[t].packet = None
  /\ Return(t)
  /\ UNCHANGED <<direct, connection, connections, listening_ports, offered, packets, failures,
                 owed>>

PolledEvent(t, event) ==
  /\ Polled(t)
  /\ thread[t].packet # None
  /\ thread[t].packet.event = event

\* The key of the packet, and its connection.
Key(t) == thread[t].packet.key
Index(t) == get_connection(Key(t))
Polling(t) == connections[Index(t)]

\* Events of connections we do not know about.
PollUnknown(t) ==
  /\ \E event \in Events \ {"ConnectionRequest"} : PolledEvent(t, event)
  /\ Index(t) = 0
  /\ Return(t)
  /\ UNCHANGED <<direct, connection, connections, listening_ports, offered, packets, failures,
                 owed>>

\* A request is added to the connections unless it has one, and accepted, or
\* rejected and removed again.  An error while accepting it leaves it there.
PollRequest(t) ==
  LET id == IF Index(t) = 0 THEN Fresh ELSE Polling(t)
  IN  /\ PolledEvent(t, "ConnectionRequest")
      /\ Index(t) = 0 => Ids \ Live # {}
      /\ connection' = IF Index(t) = 0
                       THEN [connection EXCEPT ![id] = NewConnection(Key(t))] ELSE connection
      /\ IF Key(t)[2] \in listening_ports
         THEN /\ connections' = IF Index(t) = 0 THEN Append(connections, id) ELSE connections
              /\ Goto(t, "transmit", id, "Response")
         ELSE /\ connections' = IF Index(t) = 0 THEN connections ELSE swap_remove(Index(t))
              /\ Rejects(t, id)
      /\ UNCHANGED <<direct, listening_ports, offered, packets, failures, owed>>

\* Data that does not fit is an OutputBufferTooShort error, and dropped.
Received(id) ==
  connection' = [connection EXCEPT ![id].used = IF @ < Capacity THEN @ + 1 ELSE @]

PollReceived(t) ==
  /\ PolledEvent(t, "Received")
  /\ Index(t) # 0
  /\ Received(Polling(t))
  /\ Return(t)
  /\ UNCHANGED <<direct, connections, listening_ports, offered, packets, failures, owed>>

PollDisconnectedAtOnce(t, reason) ==
  /\ PolledEvent(t, reason)
  /\ Index(t) # 0
  /\ owed' = IF reason = "Shutdown" THEN owed \cup {Polling(t)} ELSE owed
  /\ connections' = swap_remove(Index(t))
  /\ IF reason = "Shutdown" THEN Rejects(t, Polling(t)) ELSE Return(t)
  /\ UNCHANGED <<direct, listening_ports, offered, packets, failures>>
  /\ DropUnreferenced

\* The connection is removed once its data has been read, by recv if there is
\* any left.  A Shutdown is answered when it is removed.
PollDisconnected(t, reason) ==
  /\ PolledEvent(t, reason)
  /\ Index(t) # 0
  /\ owed' = IF reason = "Shutdown" THEN owed \cup {Polling(t)} ELSE owed
  /\ IF connection[Polling(t)].used = 0
     THEN /\ connections' = swap_remove(Index(t))
          /\ IF reason = "Shutdown" THEN Rejects(t, Polling(t)) ELSE Return(t)
          /\ UNCHANGED offered
          /\ DropUnreferenced
     ELSE /\ connection' = [connection EXCEPT ![Polling(t)].peer_requested_shutdown = TRUE]
          /\ Return(t)
          /\ UNCHANGED <<connections, offered>>
  /\ UNCHANGED <<direct, listening_ports, packets, failures>>

\* A CreditRequest is answered, the other events only update the credit.
PollCredit(t) ==
  /\ \E event \in {"CreditRequest", "Update"} :
       /\ PolledEvent(t, event)
       /\ Index(t) # 0
       /\ IF event = "CreditRequest" THEN Goto(t, "transmit", Polling(t), "CreditUpdate")
          ELSE Return(t)
  /\ UNCHANGED <<direct, connection, connections, listening_ports, offered, packets, failures,
                 owed>>

poll(t) ==
  \/ PollLocks(t) \/ PollEmpty(t) \/ PollUnknown(t) \/ PollRequest(t) \/ PollReceived(t)
  \/ \E reason \in {"Reset", "Shutdown"} : PollDisconnected(t, reason)
  \/ PollCredit(t)

-----------------------------------------------------------------------------
(***************************************************************************)
(* poll_direct: the callback runs with the lock of the queue held, takes   *)
(* `inner` for the lookup and not for the delivery.                        *)
(***************************************************************************)
DirectLocks(t) ==
  /\ direct
  /\ At(t, "idle") /\ QueueFree
  /\ \E packet \in Packets \ {None} : Takes(t, "direct", packet)
  /\ UNCHANGED <<direct, connection, connections, listening_ports, offered, failures, owed>>

Looking(t) == At(t, "direct") /\ InnerFree

\* The connection of a request is handed out and not added.
DirectRequest(t) ==
  LET key == thread[t].packet.key
  IN  /\ Looking(t)
      /\ thread[t].packet.event = "ConnectionRequest"
      /\ IF key[2] \in listening_ports
         THEN /\ Ids \ Live # {}
              /\ connection' = [connection EXCEPT ![Fresh] = NewConnection(key)]
              /\ offered' = offered \cup {Fresh}
         ELSE UNCHANGED <<connection, offered>>
      /\ Return(t)
      /\ UNCHANGED <<direct, connections, listening_ports, packets, failures, owed>>

\* Unknown connections are ignored, a reset removes the connection.
DirectLookup(t) ==
  LET packet == thread[t].packet
      i == get_connection(packet.key)
  IN  /\ Looking(t)
      /\ packet.event # "ConnectionRequest"
      /\ connections' = IF i # 0 /\ packet.event = "Reset" THEN swap_remove(i) ELSE connections
      /\ IF i = 0 \/ packet.event = "Reset" THEN Return(t)
         ELSE thread' = [thread EXCEPT ![t].pc = "deliver", ![t].id = connections[i]]
      /\ UNCHANGED <<direct, listening_ports, offered, packets, failures, owed>>
      /\ DropUnreferenced

\* The connection may have left the table by now.
DirectDeliver(t) ==
  /\ At(t, "deliver")
  /\ IF thread[t].packet.event = "Received" THEN Received(thread[t].id)
     ELSE UNCHANGED connection
  /\ Return(t)
  /\ UNCHANGED <<direct, connections, listening_ports, offered, packets, failures,
                 owed>>

poll_direct(t) == DirectLocks(t) \/ DirectRequest(t) \/ DirectLookup(t) \/ DirectDeliver(t)

-----------------------------------------------------------------------------
Client(t) ==
  \/ \E port \in Ports : listen(t, port) \/ unlisten(t, port)
  \/ \E id \in Ids : accept(t, id) \/ decline(id)
  \/ \E key \in Keys :
       \/ connect(t, key) \/ recv(t, key) \/ force_close(t, key)
       \/ send(t, key) \/ update_credit(t, key) \/ shutdown(t, key)

Sending(t) == Transmitted(t) \/ TransmitFails(t) \/ Undo(t)

Next ==
  \/ \E t \in Clients : Client(t)
  \/ \E t \in Pollers : poll(t) \/ poll_direct(t)
  \/ \E t \in Threads : Sending(t)

Spec == Init /\ [][Next]_vars

\* As in the example, one thread goes on polling and another reading whatever
\* connection has data, and sends end.  `inner` is a Lock of the embedder, which
\* is assumed to give it to a thread that keeps asking for it at some time.
FairSpec ==
  /\ Spec
  /\ \A t \in Pollers : SF_vars(poll(t) \/ poll_direct(t) \/ Sending(t))
  /\ \A t \in Clients : SF_vars(Sending(t)) /\ SF_vars(\E key \in Keys : recv(t, key))
-----------------------------------------------------------------------------
Entries == Range(connections)

\* "ConnectionExists": with poll, which looks up and adds connections under
\* one lock, no two connections have the same addresses, whatever the threads
\* that connect, the requests of peers and failing sends do in between.
UniqueConnections ==
  ~direct => \A i, j \in DOMAIN connections :
    connection[connections[i]].key = connection[connections[j]].key => i = j

\* The addresses that a step of the thread is about: those of the connection
\* it works on or of the packet that it polls.
About(t) ==
  IF At(t, "poll") \/ At(t, "direct") THEN Key(t) ELSE connection[thread[t].id].key

\* A connection is removed only by what happens on it: in particular a failing
\* connect or accept takes back its own entry, although entries may have moved
\* since it was added.
OthersKept ==
  [][\A t \in Threads : thread'[t] # thread[t] /\ ~At(t, "idle") =>
       \A id \in Entries \ Range(connections') : connection[id].key = About(t)]_vars

\* The steps that may remove a connection whatever unread data it has: the
\* client closes it or reads the last of its data, the call that opened it
\* fails, poll_direct meets a reset of it, or poll a request for it on a port
\* that nobody listens to any more.
Loses(id) ==
  LET key == connection[id].key
  IN  \/ \E t \in Clients :
           force_close(t, key) \/ (recv(t, key) /\ connection'[id].used = 0)
      \/ \E t \in Threads : Undo(t) /\ thread[t].id = id
      \/ \E t \in Pollers :
           \/ DirectLookup(t) /\ Key(t) = key /\ thread[t].packet.event = "Reset"
           \/ PollRequest(t) /\ Key(t) = key /\ key[2] \notin listening_ports

\* "Wait until client reads all data before removing connection": nothing else
\* removes a connection with unread data, in particular no Shutdown and no Reset
\* that poll receives, whatever other threads do on it.
UnreadDataKept ==
  [][\A id \in Entries \ Range(connections') : connection[id].used = 0 \/ Loses(id)]_vars

\* "The peer sent a SHUTDOWN request, but we haven't yet responded with a RST":
\* with a client that reads, the Shutdowns of connections that poll knows are
\* all answered or the sends of their answers fail, even if the connection is
\* requested again, reset, or closed by another thread in the meantime.
ShutdownAnswered == owed # {} ~> owed = {}

\* "If the requested connection already exists or the CID isn't ours, ignore
\* it": a request that poll receives for a connection in the table leaves the
\* table as it is.  The lookup before that comment has already taken the
\* connection, so that it is never reached for one that exists.
RequestIgnored ==
  [][\A t \in Pollers : PollRequest(t) /\ Index(t) # 0 => connections' = connections]_vars
=============================================================================
