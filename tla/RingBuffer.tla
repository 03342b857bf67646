------------------------------- MODULE RingBuffer -------------------------------
(***************************************************************************)
(* RingBuffer (connectionmanager.rs): the bytes of a connection that were  *)
(* received and not yet read.  driver holds its fields; contents, which no *)
(* step reads but to maintain it, is the queue of bytes that the buffer    *)
(* stands for, and out is the last call.                                   *)
(***************************************************************************)
EXTENDS Integers, Sequences

CONSTANTS
  Capacity,   \* buffer.len(), at least 1
  Bytes,      \* values of a byte
  MaxLen      \* longest slice that is added or read into

VARIABLE driver

r == driver
Positions == 0 .. Capacity - 1
MinOf(a, b) == IF a < b THEN a ELSE b

\* RingBuffer::new: the buffer is zeroed.
Init ==
  driver = [buffer |-> [i \in Positions |-> CHOOSE b \in Bytes : TRUE], used |-> 0, start |-> 0,
            contents |-> <<>>, out |-> [call |-> "new", result |-> 0, bytes |-> <<>>]]

free == Capacity - r.used

CopyWithoutWrap(bytes, first_available, before) ==
  [i \in Positions |->
     IF i \in first_available .. first_available + before - 1
     THEN bytes[i - first_available + 1]
     ELSE r.buffer[i]]

\* The two copies of add, to first_available and on, and after the wraparound.
Copy(bytes, first_available, before) ==
  [i \in Positions |->
     IF i \in first_available .. first_available + before - 1
     THEN bytes[i - first_available + 1]
     ELSE IF i < Len(bytes) - before
     THEN bytes[before + i + 1]
     ELSE r.buffer[i]]

add(bytes) ==
  LET first_available == (r.start + r.used) % Capacity
      before == MinOf(Len(bytes), Capacity - first_available)
      out(result) == [call |-> "add", result |-> result, bytes |-> bytes]
  IN  driver' =
        IF Len(bytes) > free
        THEN [driver EXCEPT !.out = out(FALSE)]
        ELSE [driver EXCEPT !.buffer = Copy(bytes, first_available, before),
                            !.used = @ + Len(bytes), !.contents = @ \o bytes, !.out = out(TRUE)]

\* Where drain starts the next time.
NextStart(bytes_read) == (r.start + bytes_read) % Capacity

\* drain into a slice of len bytes, in two copies too.
drain(len) ==
  LET bytes_read == MinOf(r.used, len)
      before == MinOf(bytes_read, Capacity - r.start)
      bytes == [i \in 1 .. Capacity |-> r.buffer[i - 1]]
      read == SubSeq(bytes, r.start + 1, r.start + before) \o SubSeq(bytes, 1, bytes_read - before)
  IN  driver' = [driver EXCEPT !.used = @ - bytes_read, !.start = NextStart(bytes_read),
                   !.contents = SubSeq(@, bytes_read + 1, Len(@)),
                   !.out = [call |-> "drain", result |-> bytes_read, bytes |-> read]]

Next ==
  \/ \E len \in 0 .. MaxLen : \E bytes \in [1 .. len -> Bytes] : add(bytes)
  \/ \E len \in 0 .. MaxLen : drain(len)

Spec == Init /\ [][Next]_driver

\* drain returns the oldest bytes, and says how many; add refuses exactly what
\* does not fit.
FirstInFirstOut ==
  LET out == driver'.out
  IN  /\ out.call = "drain" => r.contents = out.bytes \o driver'.contents /\ out.result = Len(out.bytes)
      /\ out.call = "add" => (out.result <=> Len(r.contents) + Len(out.bytes) <= Capacity)
=============================================================================
