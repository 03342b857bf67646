---------------------------- MODULE DriverProofs ----------------------------
(***************************************************************************)
(* The drivers over AbstractQueue, for every queue size: an inductive      *)
(* invariant of each, from the facts of DataStructureProofs, with one lemma*)
(* for each of its steps.                                                  *)
(***************************************************************************)
EXTENDS DataStructureProofs, Drivers

-----------------------------------------------------------------------------
(* OwningQueue *)

Tokens == 0 .. SIZE - 1

OwningInv ==
  /\ buffers \in [Tokens -> Tokens \cup {None}] /\ token \in Tokens
  /\ \/ /\ pc = "new" /\ Adding(queue, token, SIZE, None)
        /\ \A t \in Tokens : t < token => buffers[t] = t
     \/ /\ pc \in {"notify", "idle"} /\ Full(queue, Tokens, None)
        /\ \A t \in Tokens : buffers[t] = t
     \/ /\ pc = "handler" /\ AllBut(queue, token, Tokens, None)
        /\ \A t \in Tokens : buffers[t] = t

LEMMA Constants == SIZE \in Nat /\ SIZE # 0 /\ None \notin Tokens /\ 0 \in Tokens
  BY DriverAssumption DEF Tokens

LEMMA OwningInit == ASSUME Owning!Init PROVE OwningInv
<1>1. queue = EmptyQueue(SIZE, None)
  BY DEF Owning!Init, Owning!Queue!Init, Owning!Queue!Empty, Owning!Queue!Tokens, EmptyQueue
<1>2. /\ buffers = [i \in Tokens |-> None] /\ pc = "new" /\ token = 0
  BY DEF Owning!Init, Owning!Index, Tokens
<1>3. Adding(queue, 0, SIZE, None)
  <2>1. queue = Started(SIZE, 0, None) /\ OneInv(queue, Tokens, Tokens, None)
    BY <1>1, Constants, StartedEmpty, EmptyInv, SMTT(30) DEF Tokens
  <2>2. queue.free = Counting(SIZE, 0) /\ queue.request = [t \in Tokens |-> IF t < 0 THEN t ELSE None]
    BY <2>1, Zenon DEF Started, Tokens
  <2> QED BY <2>1, <2>2, Zenon DEF Adding, Tokens
<1>4. \A t \in Tokens : ~(t < 0)
  BY Constants DEF Tokens
<1>5. buffers \in [Tokens -> Tokens \cup {None}]
  BY <1>2, Zenon
<1> QED BY <1>2, <1>3, <1>4, <1>5, Constants, Zenon DEF OwningInv

\* An iteration of new: the assertion on the token holds.
LEMMA OwningNew == ASSUME OwningInv, Owning!New PROVE OwningInv'
<1>1. /\ pc = "new" /\ queue' = Offered(queue, token, 1)
      /\ IF Head(queue.free) = token
         THEN /\ buffers' = [buffers EXCEPT ![token] = token]
              /\ token' = (token + 1) % SIZE
              /\ pc' = IF token + 1 = SIZE THEN "notify" ELSE "new"
         ELSE pc' = "panic" /\ UNCHANGED <<buffers, token>>
  BY Zenon DEF Owning!New, Owning!Queue!Add, Owning!Queue!With, Owning!Queue!NextToken, Owning!Needs, Offered
<1>2. /\ buffers \in [Tokens -> Tokens \cup {None}] /\ token \in Tokens
      /\ Adding(queue, token, SIZE, None) /\ \A t \in Tokens : t < token => buffers[t] = t
  BY <1>1, Zenon DEF OwningInv
<1>3. /\ Head(queue.free) = token
      /\ token + 1 = SIZE => Full(queue', Tokens, None)
      /\ token + 1 # SIZE => Adding(queue', token + 1, SIZE, None)
  <2>1. SIZE \in Nat /\ None \notin 0 .. SIZE - 1 /\ token \in 0 .. SIZE - 1
    BY <1>2, Constants, Zenon DEF Tokens
  <2> QED BY <1>1, <1>2, <2>1, AddingOffered, Zenon DEF Tokens
<1>4. /\ buffers' = [buffers EXCEPT ![token] = token] /\ token' = (token + 1) % SIZE
      /\ pc' = IF token + 1 = SIZE THEN "notify" ELSE "new"
  BY <1>1, <1>3, Zenon
<1>5. buffers' \in [Tokens -> Tokens \cup {None}]
  BY <1>2, <1>4, Zenon
<1>6. /\ buffers'[token] = token
      /\ \A t \in Tokens : t # token => buffers'[t] = buffers[t]
  BY <1>2, <1>4, Zenon
<1>7. token' = IF token + 1 = SIZE THEN 0 ELSE token + 1
  <2>1. SIZE > 0 /\ token \in 0 .. SIZE - 1
    BY <1>2, Constants DEF Tokens
  <2> QED BY <1>4, <2>1, Constants, Wrapped, ZenonT(40)
<1>8. \A t \in Tokens : t <= token => buffers'[t] = t
  BY <1>2, <1>6, Constants, SMTT(30) DEF Tokens
<1>9. CASE token + 1 = SIZE
  <2>1. \A t \in Tokens : buffers'[t] = t
    BY <1>2, <1>8, <1>9, Constants, SMTT(30) DEF Tokens
  <2>2. token' \in Tokens /\ pc' = "notify" /\ Full(queue', Tokens, None)
    BY <1>3, <1>4, <1>7, <1>9, Constants, Zenon
  <2> QED BY <1>5, <2>1, <2>2, Zenon DEF OwningInv
<1>10. CASE token + 1 # SIZE
  <2>1. token' = token + 1 /\ pc' = "new" /\ Adding(queue', token', SIZE, None)
    BY <1>3, <1>4, <1>7, <1>10, Zenon
  <2>2. token' \in Tokens /\ \A t \in Tokens : t < token' => buffers'[t] = t
    BY <2>1, <1>2, <1>8, <1>10, Constants, SMTT(30) DEF Tokens
  <2> QED BY <1>5, <2>1, <2>2, Zenon DEF OwningInv
<1> QED BY <1>9, <1>10

\* Notifications and steps of the device leave every buffer under its token.
LEMMA OwningQuiet ==
  ASSUME OwningInv, SameRequests(queue, queue', Tokens, Tokens, None),
         pc' = pc \/ (pc = "notify" /\ pc' = "idle"), UNCHANGED <<buffers, token>>
  PROVE  OwningInv'
<1>1. /\ Full(queue, Tokens, None) => Full(queue', Tokens, None)
      /\ \A t : AllBut(queue, t, Tokens, None) => AllBut(queue', t, Tokens, None)
  BY SameFull
<1>2. Adding(queue, token, SIZE, None) => Adding(queue', token, SIZE, None)
  BY Zenon DEF SameRequests, Adding, Tokens
<1> QED BY <1>1, <1>2, Zenon DEF OwningInv

LEMMA OwningQueueInv == ASSUME OwningInv PROVE OneInv(queue, Tokens, Tokens, None)
  BY Zenon DEF OwningInv, Full, AllBut, Adding, Tokens

LEMMA OwningNotify == ASSUME OwningInv, Owning!Notify PROVE OwningInv'
<1>1. OneInv(queue, Tokens, Tokens, None)
  BY OwningQueueInv
<1>2. /\ \E awake \in {queue.awake, TRUE} : queue' = Awake(queue, awake)
      /\ pc = "notify" /\ pc' = "idle" /\ UNCHANGED <<buffers, token>>
  BY Zenon DEF Owning!Notify, Owning!Queue!Notify, Awake
<1>3. queue.awake \in BOOLEAN /\ TRUE \in BOOLEAN
  BY <1>1 DEF OneInv, QueueInv, Queues
<1>4. \E awake \in BOOLEAN : queue' = Awake(queue, awake)
  BY <1>2, <1>3, Zenon
<1>5. SameRequests(queue, queue', Tokens, Tokens, None)
  <2>1. AfterQuietStep(queue, queue', Tokens, Tokens, None)
    BY <1>1, <1>4, QuietOne, Zenon
  <2> QED BY <2>1, Zenon DEF AfterQuietStep
<1> QED BY <1>2, <1>5, OwningQuiet, Zenon

LEMMA OwningDevice == ASSUME OwningInv, Owning!Device PROVE OwningInv'
<1>1. OneInv(queue, Tokens, Tokens, None)
  BY OwningQueueInv
<1>2. /\ UNCHANGED <<buffers, pc, token>>
      /\ \/ queue.available # <<>> /\ queue' = TakenUp(queue)
         \/ queue' = Awake(queue, FALSE)
         \/ \E t \in queue.held : queue' = GivenBack(queue, t)
  BY Zenon DEF Owning!Device, Owning!Queue!Device, Owning!Queue!Take, Owning!Queue!Sleep, Owning!Queue!Use,
               TakenUp, Awake, GivenBack
<1>3. SameRequests(queue, queue', Tokens, Tokens, None)
  <2>1. CASE \E t \in queue.held : queue' = GivenBack(queue, t)
    <3>1. PICK t \in queue.held : queue' = GivenBack(queue, t)
      BY <2>1, Zenon
    <3>2. AfterGiveOne(queue, queue', t, Tokens, Tokens, None)
      BY <1>1, <3>1, GivenOne, Zenon
    <3> QED BY <3>2, Zenon DEF AfterGiveOne
  <2>2. CASE \/ queue.available # <<>> /\ queue' = TakenUp(queue)
             \/ queue' = Awake(queue, FALSE)
    <3>1. \/ queue.available # <<>> /\ queue' = TakenUp(queue)
          \/ \E awake \in BOOLEAN : queue' = Awake(queue, awake)
      BY <2>2, Zenon
    <3>2. AfterQuietStep(queue, queue', Tokens, Tokens, None)
      BY <1>1, <3>1, QuietOne, Zenon
    <3> QED BY <3>2, Zenon DEF AfterQuietStep
  <2> QED BY <1>2, <2>1, <2>2, Zenon
<1> QED BY <1>2, <1>3, OwningQuiet, Zenon

\* poll takes a buffer, whose token is now the only free one,
LEMMA OwningPop == ASSUME OwningInv, Owning!Pop PROVE OwningInv'
<1>1. PICK t \in Tokens : /\ queue.returned # <<>> /\ t = Head(queue.returned)
                          /\ queue' = Popped(queue, t, None) /\ token' = t
                          /\ pc = "idle" /\ pc' = "handler" /\ buffers' = buffers
  BY Zenon DEF Owning!Pop, Owning!Index, Owning!Queue!Pop, Owning!Queue!CanPop, Owning!Queue!Without,
               Popped, Tokens
<1>2. /\ buffers \in [Tokens -> Tokens \cup {None}]
      /\ Full(queue, Tokens, None) /\ \A u \in Tokens : buffers[u] = u
  BY <1>1, Zenon DEF OwningInv
<1>3. AllBut(queue', t, Tokens, None)
  BY <1>1, <1>2, Constants, FullPopped, ZenonT(40)
<1> QED BY <1>1, <1>2, <1>3, Zenon DEF OwningInv

\* and add_buffer_to_queue gives it the token it had.
LEMMA OwningAdd == ASSUME OwningInv, Owning!AddBufferToQueue PROVE OwningInv'
<1>1. /\ pc = "handler" /\ buffers' = buffers /\ token' = token
      /\ IF 1 <= Len(queue.free)
         THEN /\ queue' = Offered(queue, buffers[token], 1)
              /\ pc' = IF Head(queue.free) = token THEN "notify" ELSE "panic"
         ELSE pc' = "idle" /\ UNCHANGED queue
  BY Zenon DEF Owning!AddBufferToQueue, Owning!Queue!CanAdd, Owning!Queue!Add, Owning!Queue!With,
               Owning!Queue!NextToken, Owning!Needs, Offered
<1>2. /\ buffers \in [Tokens -> Tokens \cup {None}] /\ token \in Tokens
      /\ AllBut(queue, token, Tokens, None) /\ \A t \in Tokens : buffers[t] = t
  BY <1>1, Zenon DEF OwningInv
<1>3. Len(queue.free) = 1 /\ Head(queue.free) = token
  <2>1. queue.free = <<token>>
    BY <1>2, Zenon DEF AllBut
  <2> QED BY <2>1
<1>4. queue' = Offered(queue, token, 1) /\ pc' = "notify"
  BY <1>1, <1>2, <1>3, SMTT(30)
<1>5. Full(queue', Tokens, None)
  BY <1>2, <1>4, Constants, AllButOffered, Zenon
<1> QED BY <1>1, <1>2, <1>4, <1>5, Zenon DEF OwningInv

\* poll never loses a buffer, and each keeps its token: pop takes for a token
\* the buffer that was added under it, and neither assertion of owning.rs on
\* the token fails, for every queue size.
THEOREM OwningQueueKeepsBuffers == DriverSpec => []OwnedBuffersKept
<1>1. DriverInit => (kind = "owning" => OwningInv)
  BY OwningInit DEF DriverInit
<1>2. (kind = "owning" => OwningInv) /\ [DriverNext]_vars => (kind = "owning" => OwningInv)'
  <2> SUFFICES ASSUME kind = "owning" => OwningInv, [DriverNext]_vars, kind' = "owning"
               PROVE  OwningInv'
    OBVIOUS
  <2>1. CASE UNCHANGED vars
    BY <2>1 DEF vars, OwningInv
  <2>2. CASE DriverNext
    <3>1. OwningInv /\ Owning!Next
      BY <2>2, Zenon DEF DriverNext
    <3> QED BY <3>1, OwningNew, OwningNotify, OwningPop, OwningAdd, OwningDevice, Zenon
            DEF Owning!Next, Owning!Owner
  <2> QED BY <2>1, <2>2
<1>3. (kind = "owning" => OwningInv) => OwnedBuffersKept
  <2> SUFFICES ASSUME kind = "owning", OwningInv
               PROVE  Owning!ConsistentTokens /\ Owning!AllBuffersInQueue
    BY DEF OwnedBuffersKept
  <2>1. Owning!Index = Tokens /\ Owning!Queue!Outstanding = {t \in Tokens : queue.request[t] # None}
    BY Zenon DEF Owning!Index, Owning!Queue!Outstanding, Owning!Queue!Tokens, Tokens
  <2>2. CASE pc = "new"
    <3>1. \A t \in Tokens : queue.request[t] # None => queue.request[t] = buffers[t]
      BY <2>2, Zenon DEF OwningInv, Adding, Tokens
    <3> QED BY <2>1, <2>2, <3>1, Zenon DEF Owning!ConsistentTokens, Owning!AllBuffersInQueue
  <2>3. CASE pc \in {"notify", "idle"}
    <3>1. \A t \in Tokens : queue.request[t] # None /\ queue.request[t] = buffers[t]
      BY <2>3, Constants, Zenon DEF OwningInv, Full
    <3> QED BY <2>1, <2>3, <3>1, Zenon DEF Owning!ConsistentTokens, Owning!AllBuffersInQueue
  <2>4. CASE pc = "handler"
    <3>1. /\ queue.request[token] = None
          /\ \A t \in Tokens : t # token => queue.request[t] # None /\ queue.request[t] = buffers[t]
      BY <2>4, Constants, Zenon DEF OwningInv, AllBut
    <3> QED BY <2>1, <2>4, <3>1, Zenon DEF Owning!ConsistentTokens, Owning!AllBuffersInQueue
  <2> QED BY <2>2, <2>3, <2>4, Zenon DEF OwningInv
<1> QED BY <1>1, <1>2, <1>3, PTL DEF DriverSpec

-----------------------------------------------------------------------------
(* VirtIOInput *)

InputDriver ==
  [pc |-> driver.pc, token |-> driver.token, event_buf |-> driver.event_buf,
   event_saved |-> driver.event_saved, written |-> driver.written]

InputInv ==
  /\ driver = InputDriver
  /\ Numbered(queue.returned, driver.event_buf, driver.event_saved, driver.written, Tokens, Modulus)
  /\ \/ driver.pc = "idle" /\ Full(queue, Tokens, None)
     \/ driver.pc = "requeue" /\ AllBut(queue, driver.token, Tokens, None)

LEMMA InputModulus == Modulus \in Nat /\ Modulus > 0
  BY DriverAssumption

LEMMA InputInit == ASSUME Input!Init PROVE InputInv
<1> DEFINE s == [i \in 1 .. SIZE |-> i - 1]
           e == EmptyQueue(SIZE, None)
           f == CHOOSE g : g = [i \in 0 .. Len(s) |-> IF i = 0 THEN e ELSE Offered(g[i - 1], s[i], 1)]
<1>1. Len(s) = SIZE /\ \A i \in 1 .. SIZE : s[i] = i - 1
  BY Constants
<1>2. Input!Queue!Empty = e
  BY Zenon DEF Input!Queue!Empty, Input!Queue!Tokens, EmptyQueue
<1>3. \A q, r : Input!Queue!With(q, r) = Offered(q, r, 1)
  BY Zenon DEF Input!Queue!With, Input!Needs, Offered
<1>4. Input!Queue!Filled(s) = f[Len(s)]
  BY <1>2, <1>3, Zenon DEF Input!Queue!Filled
<1>5. queue = Awake(f[Len(s)], TRUE)
  BY <1>4, Zenon DEF Input!Init, Input!Queue!Notified, Awake
<1> HIDE DEF s
<1>6. f[Len(s)] = Started(SIZE, SIZE, None)
  BY <1>1, Constants, StartedLoop, Zenon
<1>7. Full(queue, Tokens, None) /\ queue.returned = <<>>
  <2>1. queue = Awake(Started(SIZE, SIZE, None), TRUE)
    BY <1>5, <1>6, Zenon
  <2> QED BY <2>1, Constants, StartedFull, Zenon DEF Tokens
<1>8. driver = [pc |-> "idle", token |-> 0, event_buf |-> [b \in Tokens |-> Modulus - 1],
                event_saved |-> Modulus - 1, written |-> 0]
  BY Zenon DEF Input!Init, Input!Index, Tokens
<1>9. /\ driver = InputDriver /\ driver.pc = "idle" /\ driver.event_buf = [b \in Tokens |-> Modulus - 1]
      /\ driver.event_saved = Modulus - 1 /\ driver.written = 0
  BY <1>8, Zenon DEF InputDriver
<1>10. Numbered(queue.returned, driver.event_buf, driver.event_saved, driver.written, Tokens, Modulus)
  BY <1>7, <1>9, InputModulus, NumberedStart, Zenon
<1> QED BY <1>7, <1>9, <1>10, Zenon DEF InputInv

LEMMA InputReturned == ASSUME InputInv PROVE OneInv(queue, Tokens, Tokens, None) /\ queue.returned \in Seq(Tokens)
<1>1. OneInv(queue, Tokens, Tokens, None)
  BY Zenon DEF InputInv, Full, AllBut
<1>2. queue.returned \in Seq(Tokens)
  BY <1>1 DEF OneInv, QueueInv, Queues
<1> QED BY <1>1, <1>2

LEMMA InputPop == ASSUME InputInv, NEW t \in Tokens, Input!Pop(t) PROVE InputInv'
<1>1. /\ driver.pc = "idle" /\ queue.returned # <<>> /\ t = Head(queue.returned)
      /\ queue' = Popped(queue, t, None)
      /\ driver' = [driver EXCEPT !.pc = "requeue", !.token = t, !.event_saved = driver.event_buf[t]]
  BY Zenon DEF Input!Pop, Input!Queue!Pop, Input!Queue!CanPop, Input!Queue!Without, Popped
<1>2. /\ driver = InputDriver /\ Full(queue, Tokens, None)
      /\ Numbered(queue.returned, driver.event_buf, driver.event_saved, driver.written, Tokens, Modulus)
  BY <1>1, Zenon DEF InputInv
<1>3. AllBut(queue', t, Tokens, None) /\ queue'.returned = Tail(queue.returned) /\ t = queue.returned[1]
  BY <1>1, <1>2, Constants, FullPopped, SMTT(30)
<1>4. driver' = [pc |-> "requeue", token |-> t, event_buf |-> driver.event_buf,
                 event_saved |-> driver.event_buf[t], written |-> driver.written]
  BY <1>1, <1>2, Zenon DEF InputDriver
<1>5. /\ driver' = InputDriver' /\ driver'.pc = "requeue" /\ driver'.token = t
      /\ driver'.event_buf = driver.event_buf /\ driver'.event_saved = driver.event_buf[t]
      /\ driver'.written = driver.written
  BY <1>4, Zenon DEF InputDriver
<1>6. Numbered(Tail(queue.returned), driver.event_buf, driver.event_buf[queue.returned[1]],
               driver.written, Tokens, Modulus)
  BY <1>1, <1>2, InputReturned, InputModulus, NumberedNext, Zenon
<1>7. Numbered(queue'.returned, driver'.event_buf, driver'.event_saved, driver'.written, Tokens, Modulus)
  BY <1>3, <1>5, <1>6, Zenon
<1> QED BY <1>3, <1>5, <1>7, Zenon DEF InputInv, Tokens

LEMMA InputRequeue == ASSUME InputInv, Input!Requeue PROVE InputInv'
<1>1. /\ driver.pc = "requeue" /\ queue' = Awake(Offered(queue, driver.token, 1), TRUE)
      /\ driver' = [driver EXCEPT !.pc = IF Head(queue.free) = driver.token THEN "idle" ELSE "panic"]
  BY Zenon DEF Input!Requeue, Input!Queue!AddNotify, Input!Queue!With, Input!Queue!Notified,
               Input!Queue!NextToken, Input!Needs, Offered, Awake
<1>2. /\ driver = InputDriver /\ AllBut(queue, driver.token, Tokens, None)
      /\ Numbered(queue.returned, driver.event_buf, driver.event_saved, driver.written, Tokens, Modulus)
  BY <1>1, Zenon DEF InputInv
<1>3. Full(queue', Tokens, None) /\ queue'.returned = queue.returned /\ Head(queue.free) = driver.token
  <2>1. PICK t : t = driver.token
    OBVIOUS
  <2>2. PICK p : p = queue'
    OBVIOUS
  <2>3. /\ AllBut(queue, t, Tokens, None) /\ None \notin Tokens
        /\ p = Offered(queue, t, 1) \/ p = Awake(Offered(queue, t, 1), TRUE)
    BY <1>1, <1>2, <2>1, <2>2, Constants, Zenon
  <2>4. Full(p, Tokens, None) /\ p.returned = queue.returned /\ Len(queue.free) = 1 /\ Head(queue.free) = t
    BY <2>3, AllButOffered, Zenon
  <2> QED BY <2>1, <2>2, <2>4, Zenon
<1>4. driver' = [pc |-> "idle", token |-> driver.token, event_buf |-> driver.event_buf,
                 event_saved |-> driver.event_saved, written |-> driver.written]
  BY <1>1, <1>2, <1>3, Zenon DEF InputDriver
<1>5. /\ driver' = InputDriver' /\ driver'.pc = "idle" /\ driver'.event_buf = driver.event_buf
      /\ driver'.event_saved = driver.event_saved /\ driver'.written = driver.written
  BY <1>4, Zenon DEF InputDriver
<1>6. Numbered(queue'.returned, driver'.event_buf, driver'.event_saved, driver'.written, Tokens, Modulus)
  BY <1>2, <1>3, <1>5, Zenon
<1> QED BY <1>3, <1>5, <1>6, Zenon DEF InputInv, Tokens

\* The device writes its next event to a buffer that holds none that is still to be read.
LEMMA InputDeviceUse == ASSUME InputInv, NEW t, Input!DeviceUse(t) PROVE InputInv'
<1>1. /\ t \in queue.held /\ queue' = GivenBack(queue, t)
      /\ driver' = [driver EXCEPT !.event_buf[queue.request[t]] = driver.written,
                                  !.written = (@ + 1) % Modulus]
  BY Zenon DEF Input!DeviceUse, Input!Queue!Use, GivenBack
<1>2. /\ driver = InputDriver
      /\ Numbered(queue.returned, driver.event_buf, driver.event_saved, driver.written, Tokens, Modulus)
  BY Zenon DEF InputInv
<1>3. /\ SameRequests(queue, queue', Tokens, Tokens, None)
      /\ t \in Tokens /\ queue.request[t] # None /\ t \notin Range(queue.returned)
      /\ queue'.returned = Append(queue.returned, t)
  <2>1. AfterGiveOne(queue, queue', t, Tokens, Tokens, None)
    BY <1>1, InputReturned, GivenOne, SMTT(30)
  <2> QED BY <2>1, Zenon DEF AfterGiveOne
<1>4. queue.request[t] = t
  BY <1>3, Zenon DEF InputInv, Full, AllBut
<1>5. driver' = [driver EXCEPT !.event_buf = [driver.event_buf EXCEPT ![t] = driver.written],
                               !.written = (driver.written + 1) % Modulus]
  BY <1>1, <1>4, Zenon
<1>6. driver' = [pc |-> driver.pc, token |-> driver.token,
                 event_buf |-> [driver.event_buf EXCEPT ![t] = driver.written],
                 event_saved |-> driver.event_saved, written |-> (driver.written + 1) % Modulus]
  BY <1>2, <1>5, Zenon DEF InputDriver
<1>7. /\ driver' = InputDriver' /\ driver'.pc = driver.pc /\ driver'.token = driver.token
      /\ driver'.event_buf = [driver.event_buf EXCEPT ![t] = driver.written]
      /\ driver'.event_saved = driver.event_saved /\ driver'.written = (driver.written + 1) % Modulus
  BY <1>6, Zenon DEF InputDriver
<1>8. Numbered(Append(queue.returned, t), [driver.event_buf EXCEPT ![t] = driver.written],
               driver.event_saved, (driver.written + 1) % Modulus, Tokens, Modulus)
  BY <1>2, <1>3, InputReturned, InputModulus, NumberedWrite, ZenonT(40)
<1>9. Numbered(queue'.returned, driver'.event_buf, driver'.event_saved, driver'.written, Tokens, Modulus)
  BY <1>3, <1>7, <1>8, Zenon
<1>10. /\ Full(queue, Tokens, None) => Full(queue', Tokens, None)
       /\ \A u : AllBut(queue, u, Tokens, None) => AllBut(queue', u, Tokens, None)
  BY <1>3, SameFull
<1> QED BY <1>7, <1>9, <1>10, Zenon DEF InputInv, Tokens

LEMMA InputDeviceTake == ASSUME InputInv, Input!DeviceTake PROVE InputInv'
<1>1. /\ UNCHANGED driver
      /\ \/ queue.available # <<>> /\ queue' = TakenUp(queue)
         \/ queue' = Awake(queue, FALSE)
  BY Zenon DEF Input!DeviceTake, Input!Queue!Take, Input!Queue!Sleep, TakenUp, Awake
<1>2. \/ queue.available # <<>> /\ queue' = TakenUp(queue)
      \/ \E awake \in BOOLEAN : queue' = Awake(queue, awake)
  BY <1>1, Zenon
<1>3. SameRequests(queue, queue', Tokens, Tokens, None) /\ queue'.returned = queue.returned
  <2>1. AfterQuietStep(queue, queue', Tokens, Tokens, None)
    BY <1>2, InputReturned, QuietOne, SMTT(30)
  <2> QED BY <2>1, Zenon DEF AfterQuietStep
<1>4. /\ Full(queue, Tokens, None) => Full(queue', Tokens, None)
      /\ \A u : AllBut(queue, u, Tokens, None) => AllBut(queue', u, Tokens, None)
  BY <1>3, SameFull
<1> QED BY <1>1, <1>3, <1>4, Zenon DEF InputInv, InputDriver, Tokens

\* pop_pending_event returns the events in the order in which the device wrote
\* them, none twice and none lost, and its assertion on the token that add
\* returns never fails, for every queue size and however the device orders the
\* buffers it hands back.
THEOREM InputEventsInOrder == DriverSpec => []EventsInOrder
<1>1. DriverInit => (kind = "input" => InputInv)
  BY InputInit DEF DriverInit
<1>2. (kind = "input" => InputInv) /\ [DriverNext]_vars => (kind = "input" => InputInv)'
  <2> SUFFICES ASSUME kind = "input" => InputInv, [DriverNext]_vars, kind' = "input"
               PROVE  InputInv'
    OBVIOUS
  <2>1. CASE UNCHANGED vars
    BY <2>1 DEF vars, InputInv, InputDriver
  <2>2. CASE DriverNext
    <3>1. InputInv /\ Input!Next
      BY <2>2, Zenon DEF DriverNext
    <3> QED BY <3>1, InputPop, InputRequeue, InputDeviceUse, InputDeviceTake, Zenon
            DEF Input!Next, Input!Index, Tokens
  <2> QED BY <2>1, <2>2, SMTT(30)
<1>3. (kind = "input" => InputInv) => EventsInOrder
  <2> SUFFICES ASSUME kind = "input", InputInv PROVE Input!EventsInOrder
    BY DEF EventsInOrder
  <2>1. driver.pc # "panic"
    BY DEF InputInv
  <2>2. DOMAIN queue.returned = 1 .. Len(queue.returned)
    BY InputReturned
  <2> QED BY <2>1, <2>2, Zenon DEF InputInv, Numbered, Input!EventsInOrder
<1> QED BY <1>1, <1>2, <1>3, PTL DEF DriverSpec

-----------------------------------------------------------------------------
(* VirtIONet *)

NetDriver ==
  [rx_buffers |-> driver.rx_buffers, idx |-> driver.idx, client |-> driver.client,
   dropped |-> driver.dropped, short |-> driver.short, error |-> driver.error]

NetInv ==
  /\ driver = NetDriver /\ ~driver.error
  /\ OneInv(queue, Tokens, Tokens, None)
  /\ driver.rx_buffers = queue.request
  /\ Stored(queue.request, driver.idx, driver.client, driver.dropped, Tokens, None)

LEMMA NetInit == ASSUME Net!Init PROVE NetInv
<1> DEFINE s == [i \in 1 .. SIZE |-> i - 1]
           e == EmptyQueue(SIZE, None)
           f == CHOOSE g : g = [i \in 0 .. Len(s) |-> IF i = 0 THEN e ELSE Offered(g[i - 1], s[i], 1)]
<1>1. Len(s) = SIZE /\ \A i \in 1 .. SIZE : s[i] = i - 1
  BY Constants
<1>2. Net!Queue!Empty = e
  BY Zenon DEF Net!Queue!Empty, Net!Queue!Tokens, EmptyQueue
<1>3. \A q, r : Net!Queue!With(q, r) = Offered(q, r, 1)
  BY Zenon DEF Net!Queue!With, Net!Needs, Offered
<1>4. Net!Queue!Filled(s) = f[Len(s)]
  BY <1>2, <1>3, Zenon DEF Net!Queue!Filled
<1>5. queue = Awake(f[Len(s)], TRUE)
  BY <1>4, Zenon DEF Net!Init, Net!Queue!Notified, Awake
<1> HIDE DEF s
<1>6. f[Len(s)] = Started(SIZE, SIZE, None)
  BY <1>1, Constants, StartedLoop, Zenon
<1>7. Full(queue, Tokens, None)
  <2>1. queue = Awake(Started(SIZE, SIZE, None), TRUE)
    BY <1>5, <1>6, Zenon
  <2> QED BY <2>1, Constants, StartedFull, Zenon DEF Tokens
<1>8. OneInv(queue, Tokens, Tokens, None) /\ \A t \in Tokens : queue.request[t] = t
  BY <1>7, Zenon DEF Full
<1>9. driver = [rx_buffers |-> [t \in Tokens |-> t], idx |-> [b \in Tokens |-> b],
                client |-> {}, dropped |-> {}, short |-> {}, error |-> FALSE]
  BY Zenon DEF Net!Init, Net!Buffers, Net!Queue!Tokens, Tokens
<1>10. /\ driver = NetDriver /\ ~driver.error
       /\ driver.rx_buffers = [t \in Tokens |-> t] /\ driver.idx = [t \in Tokens |-> t]
       /\ driver.client = {} /\ driver.dropped = {}
  BY <1>9, Zenon DEF NetDriver
<1>11. queue.request = [t \in Tokens |-> t] /\ queue.request \in [Tokens -> Tokens \cup {None}]
  <2>1. queue.request \in [Tokens -> Tokens \cup {None}]
    BY <1>8 DEF OneInv, QueueInv, Queues
  <2> QED BY <1>8, <2>1, Zenon
<1>12. Stored(queue.request, driver.idx, driver.client, driver.dropped, Tokens, None)
  BY <1>10, <1>11, Zenon DEF Stored
<1> QED BY <1>8, <1>10, <1>11, <1>12, Zenon DEF NetInv

\* receive finds the buffer of the token, which its idx confirms.
LEMMA NetReceive == ASSUME NetInv, NEW t \in Tokens, Net!receive(t) PROVE NetInv'
<1> DEFINE b == driver.rx_buffers[t]
           c == IF b \in driver.short THEN driver.client ELSE driver.client \cup {b}
           d == IF b \in driver.short THEN driver.dropped \cup {b} ELSE driver.dropped
           s == driver.short \ {b}
           request == [queue.request EXCEPT ![t] = None]
<1>1. queue.returned # <<>> /\ t = Head(queue.returned)
  BY Zenon DEF Net!receive, Net!Queue!CanPop
<1>2. /\ driver = NetDriver /\ ~driver.error /\ OneInv(queue, Tokens, Tokens, None)
      /\ driver.rx_buffers = queue.request
      /\ Stored(queue.request, driver.idx, driver.client, driver.dropped, Tokens, None)
  BY Zenon DEF NetInv
<1>3. queue.request[t] # None
  <2>1. PICK p : p = Popped(queue, t, None)
    OBVIOUS
  <2>2. AfterPopOne(queue, p, t, Tokens, Tokens, None)
    BY <1>1, <1>2, <2>1, PoppedOne, ZenonT(40)
  <2> QED BY <2>2, Zenon DEF AfterPopOne
<1>4. b = queue.request[t] /\ b # None /\ driver.idx[b] = t
  BY <1>2, <1>3, Zenon DEF Stored
<1>5. /\ queue' = Popped(queue, t, None)
      /\ driver' = [driver EXCEPT !.rx_buffers[t] = None,
                                  !.client = IF b \in driver.short THEN @ ELSE @ \cup {b},
                                  !.dropped = IF b \in driver.short THEN @ \cup {b} ELSE @,
                                  !.short = @ \ {b}]
  BY <1>4, Zenon DEF Net!receive, Net!receive_complete, Net!Queue!Without, Popped
<1>6. driver' = [driver EXCEPT !.rx_buffers = [driver.rx_buffers EXCEPT ![t] = None],
                               !.client = c, !.dropped = d, !.short = s]
  BY <1>5, Zenon
<1>7. OneInv(queue', Tokens, Tokens, None) /\ queue'.request = request
  <2>1. AfterPopOne(queue, queue', t, Tokens, Tokens, None)
    BY <1>1, <1>2, <1>5, PoppedOne, ZenonT(40)
  <2> QED BY <2>1, Zenon DEF AfterPopOne
<1>8. Stored(request, driver.idx, c, d, Tokens, None)
  <2>1. \/ c = driver.client \cup {queue.request[t]} /\ d = driver.dropped
        \/ c = driver.client /\ d = driver.dropped \cup {queue.request[t]}
    BY <1>4, Zenon
  <2> HIDE DEF c, d
  <2> QED BY <1>2, <1>3, <2>1, Constants, StoredTaken, ZenonT(40)
<1> HIDE DEF c, d, s
<1>9. driver' = [rx_buffers |-> [driver.rx_buffers EXCEPT ![t] = None], idx |-> driver.idx,
                 client |-> c, dropped |-> d, short |-> s, error |-> driver.error]
  BY <1>2, <1>6, Zenon DEF NetDriver
<1>10. /\ driver' = NetDriver' /\ ~driver'.error /\ driver'.rx_buffers = request
       /\ driver'.idx = driver.idx /\ driver'.client = c /\ driver'.dropped = d
  BY <1>2, <1>9, Zenon DEF NetDriver
<1> QED BY <1>7, <1>8, <1>10, Zenon DEF NetInv, Tokens

\* recycle_rx_buffer gets a token under which no buffer is stored.
LEMMA NetRecycle == ASSUME NetInv, NEW b, Net!recycle_rx_buffer(b) PROVE NetInv'
<1> DEFINE t == Head(queue.free)
           request == [queue.request EXCEPT ![t] = b]
           idx == [driver.idx EXCEPT ![b] = t]
           c == driver.client \ {b}
<1>1. /\ b \in driver.client /\ 1 <= Len(queue.free)
      /\ queue' = Awake(Offered(queue, b, 1), TRUE)
      /\ driver.rx_buffers[t] = None =>
           driver' = [driver EXCEPT !.idx[b] = t, !.rx_buffers[t] = b, !.client = @ \ {b}]
  BY Zenon DEF Net!recycle_rx_buffer, Net!Queue!AddNotify, Net!Queue!CanAdd, Net!Queue!With,
               Net!Queue!Notified, Net!Queue!NextToken, Net!Needs, Offered, Awake
<1>2. /\ driver = NetDriver /\ ~driver.error /\ OneInv(queue, Tokens, Tokens, None)
      /\ driver.rx_buffers = queue.request
      /\ Stored(queue.request, driver.idx, driver.client, driver.dropped, Tokens, None)
  BY Zenon DEF NetInv
<1>3. b \in Tokens /\ b # None /\ queue.free # <<>>
  <2>1. b \in Tokens
    BY <1>1, <1>2, Zenon DEF Stored
  <2>2. queue.free # <<>>
    BY <1>1
  <2> QED BY <2>1, <2>2, Constants, Zenon
<1>4. /\ OneInv(queue', Tokens, Tokens, None) /\ t \in Tokens /\ queue.request[t] = None
      /\ queue'.request = request
  <2>1. PICK p : p = queue'
    OBVIOUS
  <2>2. p = Offered(queue, b, 1) \/ p = Awake(Offered(queue, b, 1), TRUE)
    BY <1>1, <2>1, Zenon
  <2>3. AfterOfferOne(queue, p, t, b, Tokens, Tokens, None)
    BY <1>2, <1>3, <2>2, OfferedOne, Zenon
  <2> QED BY <2>1, <2>3, Zenon DEF AfterOfferOne
<1> HIDE DEF t
<1>5. driver' = [driver EXCEPT !.idx = idx, !.rx_buffers = [driver.rx_buffers EXCEPT ![t] = b],
                               !.client = c]
  BY <1>1, <1>2, <1>4, Zenon
<1>6. Stored(request, idx, c, driver.dropped, Tokens, None)
  BY <1>1, <1>2, <1>4, Constants, StoredGiven, Zenon
<1> HIDE DEF idx, c
<1>7. driver' = [rx_buffers |-> [driver.rx_buffers EXCEPT ![t] = b], idx |-> idx,
                 client |-> c, dropped |-> driver.dropped, short |-> driver.short,
                 error |-> driver.error]
  BY <1>2, <1>5, Zenon DEF NetDriver
<1>8. /\ driver' = NetDriver' /\ ~driver'.error /\ driver'.rx_buffers = request
      /\ driver'.idx = idx /\ driver'.client = c /\ driver'.dropped = driver.dropped
  BY <1>2, <1>7, Zenon DEF NetDriver
<1> QED BY <1>4, <1>6, <1>8, Zenon DEF NetInv, Tokens

LEMMA NetDeviceUse == ASSUME NetInv, NEW t, Net!DeviceUse(t) PROVE NetInv'
<1>1. /\ t \in queue.held /\ queue' = GivenBack(queue, t)
      /\ \E short : driver' = [driver EXCEPT !.short = @ \cup short]
  BY Zenon DEF Net!DeviceUse, Net!Queue!Use, GivenBack
<1>2. driver = NetDriver /\ ~driver.error /\ OneInv(queue, Tokens, Tokens, None)
  BY Zenon DEF NetInv
<1>3. OneInv(queue', Tokens, Tokens, None) /\ queue'.request = queue.request
  <2>1. AfterGiveOne(queue, queue', t, Tokens, Tokens, None)
    BY <1>1, <1>2, GivenOne, ZenonT(40)
  <2> QED BY <2>1, Zenon DEF AfterGiveOne, SameRequests
<1>4. PICK s : driver' = [driver EXCEPT !.short = s]
  BY <1>1, Zenon
<1>5. driver' = [rx_buffers |-> driver.rx_buffers, idx |-> driver.idx, client |-> driver.client,
                 dropped |-> driver.dropped, short |-> s, error |-> driver.error]
  BY <1>2, <1>4, Zenon DEF NetDriver
<1>6. /\ driver' = NetDriver' /\ ~driver'.error /\ driver'.rx_buffers = driver.rx_buffers
      /\ driver'.idx = driver.idx /\ driver'.client = driver.client /\ driver'.dropped = driver.dropped
  BY <1>2, <1>5, Zenon DEF NetDriver
<1> QED BY <1>3, <1>6, Zenon DEF NetInv, Tokens

LEMMA NetDeviceTake == ASSUME NetInv, Net!DeviceTake PROVE NetInv'
<1>1. /\ UNCHANGED driver
      /\ \/ queue.available # <<>> /\ queue' = TakenUp(queue)
         \/ queue' = Awake(queue, FALSE)
  BY Zenon DEF Net!DeviceTake, Net!Queue!Take, Net!Queue!Sleep, TakenUp, Awake
<1>2. \/ queue.available # <<>> /\ queue' = TakenUp(queue)
      \/ \E awake \in BOOLEAN : queue' = Awake(queue, awake)
  BY <1>1, Zenon
<1>3. OneInv(queue, Tokens, Tokens, None)
  BY Zenon DEF NetInv
<1>4. AfterQuietStep(queue, queue', Tokens, Tokens, None)
  BY <1>2, <1>3, QuietOne, ZenonT(40)
<1> QED BY <1>1, <1>4, Zenon DEF AfterQuietStep, SameRequests, NetInv, NetDriver, Tokens

\* VirtIONet keeps each receive buffer under the token the device has it under
\* and the buffer's idx names that token, while buffers change their tokens:
\* neither receive nor recycle_rx_buffer reports WrongToken, and a buffer that
\* is not with the driver is with the client, or was dropped after a packet
\* without a whole header.
THEOREM NetBuffersStored == DriverSpec => []BuffersUnderTheirTokens
<1>1. DriverInit => (kind = "net" => NetInv)
  BY NetInit DEF DriverInit
<1>2. (kind = "net" => NetInv) /\ [DriverNext]_vars => (kind = "net" => NetInv)'
  <2> SUFFICES ASSUME kind = "net" => NetInv, [DriverNext]_vars, kind' = "net"
               PROVE  NetInv'
    OBVIOUS
  <2>1. CASE UNCHANGED vars
    BY <2>1 DEF vars, NetInv, NetDriver
  <2>2. CASE DriverNext
    <3>1. NetInv /\ Net!Next
      BY <2>2, Zenon DEF DriverNext
    <3> QED BY <3>1, NetReceive, NetRecycle, NetDeviceUse, NetDeviceTake, Zenon
            DEF Net!Next, Net!Queue!Tokens, Tokens
  <2> QED BY <2>1, <2>2, SMTT(30)
<1>3. (kind = "net" => NetInv) => BuffersUnderTheirTokens
  <2> SUFFICES ASSUME kind = "net", NetInv PROVE Net!BuffersUnderTheirTokens
    BY DEF BuffersUnderTheirTokens
  <2>1. /\ ~driver.error /\ driver.rx_buffers = queue.request
        /\ Stored(queue.request, driver.idx, driver.client, driver.dropped, Tokens, None)
    BY Zenon DEF NetInv
  <2>2. /\ Net!Queue!Outstanding = {t \in Tokens : queue.request[t] # None}
        /\ Net!Queue!Added = {queue.request[t] : t \in {u \in Tokens : queue.request[u] # None}}
        /\ Net!Buffers = Tokens
    BY Zenon DEF Net!Queue!Outstanding, Net!Queue!Added, Net!Queue!Tokens, Net!Buffers, Tokens
  <2>3. \A t \in Tokens : queue.request[t] # None => driver.idx[queue.request[t]] = t
    BY <2>1, Zenon DEF Stored
  <2>4. {queue.request[t] : t \in {u \in Tokens : queue.request[u] # None}}
          = Tokens \ (driver.client \cup driver.dropped)
    BY <2>1, Constants, SMTT(30) DEF Stored
  <2> QED BY <2>1, <2>2, <2>3, <2>4, Zenon DEF Net!BuffersUnderTheirTokens
<1> QED BY <1>1, <1>2, <1>3, PTL DEF DriverSpec

-----------------------------------------------------------------------------
(* VirtIOConsole: an invariant of the queue and the driver as they are passed *)
(* from one function to the next                                              *)

ConsoleTokens == 0 .. 2 - 1

ConsoleFields(d) ==
  [cursor |-> d.cursor, pending_len |-> d.pending_len,
   receive_token |-> d.receive_token, buf |-> d.buf, written |-> d.written, passed |-> d.passed, call |-> d.call]

\* What a call gives is in order, from the byte after those taken before it.
InOrder(call) ==
  /\ call = [len |-> call.len, out |-> call.out, at |-> call.at, consumes |-> call.consumes]
  /\ call.len \in Nat
  /\ \A i \in DOMAIN call.out : call.out[i] = (call.at + i - 1) % Modulus

ConsoleInv(s) ==
  /\ s = [queue |-> s.queue, driver |-> s.driver]
  /\ s.driver = ConsoleFields(s.driver)
  /\ Receiving(s.queue, s.driver.receive_token, s.driver.buf, s.driver.cursor, s.driver.pending_len,
               s.driver.passed, s.driver.written, ConsoleTokens, {"queue_buf_rx"}, None, Modulus)
  /\ InOrder(s.driver.call)

LEMMA ConsoleConstants ==
  /\ None \notin ConsoleTokens /\ Modulus \in Nat /\ Modulus > 0
  /\ "queue_buf_rx" \in {"queue_buf_rx"} /\ "queue_buf_rx" # None
  BY DriverAssumption DEF ConsoleTokens

\* poll_retrieve offers the buffer only when nothing in it is unread,
LEMMA ConsolePolls == ASSUME NEW s, ConsoleInv(s) PROVE ConsoleInv(Console!poll_retrieve(s))
<1>0. PICK d : d = s.driver
  OBVIOUS
<1> DEFINE h == Head(s.queue.free)
           q == Awake(Offered(s.queue, "queue_buf_rx", 1), TRUE)
<1>e. PICK e : e = [d EXCEPT !.receive_token = h]
  BY Zenon
<1>f. PICK f : f = Console!poll_retrieve(s)
  OBVIOUS
<1>1. /\ s = [queue |-> s.queue, driver |-> d] /\ d = ConsoleFields(d)
      /\ Receiving(s.queue, d.receive_token, d.buf, d.cursor, d.pending_len, d.passed, d.written,
                   ConsoleTokens, {"queue_buf_rx"}, None, Modulus)
      /\ InOrder(d.call)
  BY <1>0, Zenon DEF ConsoleInv
<1>2. CASE d.receive_token = None /\ d.cursor = d.pending_len
  <2>1. f = [queue |-> q, driver |-> e]
    BY <1>0, <1>2, <1>e, <1>f, Zenon DEF Console!poll_retrieve, Console!Queue!Notified, Console!Queue!With, Console!Needs,
                       Console!queue_buf_rx, Awake, Offered
  <2>2. e = [cursor |-> d.cursor, pending_len |-> d.pending_len,
             receive_token |-> h, buf |-> d.buf, written |-> d.written, passed |-> d.passed, call |-> d.call]
    BY <1>1, <1>e, Zenon DEF ConsoleFields
  <2>3. /\ e = ConsoleFields(e) /\ e.receive_token = h /\ e.cursor = d.cursor
        /\ e.pending_len = d.cursor /\ e.buf = d.buf /\ e.written = d.written /\ e.passed = d.passed
      /\ e.call = d.call
    BY <1>2, <2>2, Zenon DEF ConsoleFields
  <2>4. Receiving(s.queue, None, d.buf, d.cursor, d.cursor, d.passed, d.written,
                  ConsoleTokens, {"queue_buf_rx"}, None, Modulus)
    BY <1>1, <1>2, Zenon
  <2>5. q = Offered(s.queue, "queue_buf_rx", 1) \/ q = Awake(Offered(s.queue, "queue_buf_rx", 1), TRUE)
    BY Zenon
  <2> HIDE DEF h, q
  <2>6. Receiving(q, h, d.buf, d.cursor, d.cursor, d.passed, d.written,
                  ConsoleTokens, {"queue_buf_rx"}, None, Modulus)
    BY <2>4, <2>5, ConsoleConstants, ReceivingAsks, ZenonT(30) DEF h
  <2>7. f.queue = q /\ f.driver = e /\ f = [queue |-> f.queue, driver |-> f.driver]
    BY <2>1, Zenon
  <2>8. ConsoleInv(f)
    BY <1>1, <2>3, <2>6, <2>7, Zenon DEF ConsoleInv
  <2> QED BY <2>8, <1>f, Zenon
<1>3. CASE ~(d.receive_token = None /\ d.cursor = d.pending_len)
  <2>1. f = s
    BY <1>0, <1>3, <1>f, Zenon DEF Console!poll_retrieve
  <2> QED BY <2>1, <1>f, Zenon
<1> QED BY <1>2, <1>3, Zenon

\* finish_receive starts at the first byte of what the device left in it,
LEMMA ConsoleFinishes == ASSUME NEW s, ConsoleInv(s) PROVE ConsoleInv(Console!finish_receive(s))
<1>0. PICK d : d = s.driver
  OBVIOUS
<1> DEFINE q == Popped(s.queue, d.receive_token, None)
<1>e. PICK e : e = [d EXCEPT !.cursor = 0, !.pending_len = Len(d.buf), !.receive_token = None]
  BY ZenonT(40)
<1>f. PICK f : f = Console!finish_receive(s)
  OBVIOUS
<1>1. /\ s = [queue |-> s.queue, driver |-> d] /\ d = ConsoleFields(d)
      /\ Receiving(s.queue, d.receive_token, d.buf, d.cursor, d.pending_len, d.passed, d.written,
                   ConsoleTokens, {"queue_buf_rx"}, None, Modulus)
      /\ InOrder(d.call)
  BY <1>0, Zenon DEF ConsoleInv
<1>2. CASE s.queue.returned # <<>> /\ Head(s.queue.returned) = d.receive_token
  <2>1. f = [queue |-> q, driver |-> e]
    BY <1>0, <1>2, <1>e, <1>f, Zenon DEF Console!finish_receive, Console!Queue!Without, Popped
  <2>2. e = [cursor |-> 0, pending_len |-> Len(d.buf),
             receive_token |-> None, buf |-> d.buf, written |-> d.written, passed |-> d.passed, call |-> d.call]
    BY <1>1, <1>e, Zenon DEF ConsoleFields
  <2>3. /\ e = ConsoleFields(e) /\ e.receive_token = None /\ e.cursor = 0
        /\ e.pending_len = Len(d.buf) /\ e.buf = d.buf /\ e.written = d.written /\ e.passed = d.passed
      /\ e.call = d.call
    BY <2>2, Zenon DEF ConsoleFields
  <2>4. Receiving(q, None, d.buf, 0, Len(d.buf), d.passed, d.written,
                  ConsoleTokens, {"queue_buf_rx"}, None, Modulus)
    BY <1>1, <1>2, ConsoleConstants, ReceivingFinishes, ZenonT(30)
  <2> HIDE DEF q
  <2>5. f.queue = q /\ f.driver = e /\ f = [queue |-> f.queue, driver |-> f.driver]
    BY <2>1, Zenon
  <2>6. ConsoleInv(f)
    BY <1>1, <2>3, <2>4, <2>5, Zenon DEF ConsoleInv
  <2> QED BY <2>6, <1>f, Zenon
<1>3. CASE ~(s.queue.returned # <<>> /\ Head(s.queue.returned) = d.receive_token)
  <2>1. f = s
    BY <1>0, <1>3, <1>f, Zenon DEF Console!finish_receive
  <2> QED BY <2>1, <1>f, Zenon
<1> QED BY <1>2, <1>3, Zenon

\* and the client takes bytes only up to its end.
LEMMA ConsoleTakes ==
  ASSUME NEW s, ConsoleInv(s), s.driver.cursor # s.driver.pending_len, NEW n \in Nat,
         s.driver.cursor + n <= s.driver.pending_len
  PROVE  ConsoleInv(Console!Taken(s, n))
<1>0. PICK d : d = s.driver
  OBVIOUS
<1> DEFINE c == d.cursor + n
           g == (d.passed + n) % Modulus
<1>e. PICK e : e = [d EXCEPT !.cursor = c, !.passed = g]
  OBVIOUS
<1>f. PICK f : f = Console!Taken(s, n)
  OBVIOUS
<1>1. /\ s = [queue |-> s.queue, driver |-> d] /\ d = ConsoleFields(d)
      /\ Receiving(s.queue, d.receive_token, d.buf, d.cursor, d.pending_len, d.passed, d.written,
                   ConsoleTokens, {"queue_buf_rx"}, None, Modulus)
      /\ InOrder(d.call)
  BY <1>0, Zenon DEF ConsoleInv
<1>2. f = [s EXCEPT !.driver = e]
  BY <1>0, <1>1, <1>e, <1>f, Zenon DEF Console!Taken
<1>3. f = [queue |-> s.queue, driver |-> e]
  BY <1>1, <1>2, Zenon
<1>4. e = [cursor |-> c, pending_len |-> d.pending_len,
           receive_token |-> d.receive_token, buf |-> d.buf, written |-> d.written, passed |-> g, call |-> d.call]
  BY <1>1, <1>e, Zenon DEF ConsoleFields
<1>5. /\ e = ConsoleFields(e) /\ e.receive_token = d.receive_token /\ e.cursor = c
      /\ e.pending_len = d.pending_len /\ e.buf = d.buf /\ e.written = d.written /\ e.passed = g
      /\ e.call = d.call
  BY <1>4, Zenon DEF ConsoleFields
<1>6. Receiving(s.queue, d.receive_token, d.buf, c, d.pending_len, g, d.written,
                ConsoleTokens, {"queue_buf_rx"}, None, Modulus)
  BY <1>0, <1>1, ConsoleConstants, ReceivingTakes, ZenonT(40)
<1> HIDE DEF c, g
<1>7. f.queue = s.queue /\ f.driver = e /\ f = [queue |-> f.queue, driver |-> f.driver]
  BY <1>3, Zenon
<1>8. ConsoleInv(f)
  BY <1>1, <1>5, <1>6, <1>7, Zenon DEF ConsoleInv
<1> QED BY <1>8, <1>f, Zenon

\* A call may give anything that is in order,
LEMMA ConsoleMoves ==
  ASSUME NEW s, ConsoleInv(s), NEW call, InOrder(call), NEW f, f = [s EXCEPT !.driver.call = call]
  PROVE  ConsoleInv(f)
<1>0. PICK d : d = s.driver
  OBVIOUS
<1>e. PICK e : e = [d EXCEPT !.call = call]
  BY Zenon
<1>g. PICK g : g = f
  OBVIOUS
<1>1. /\ s = [queue |-> s.queue, driver |-> d] /\ d = ConsoleFields(d)
      /\ Receiving(s.queue, d.receive_token, d.buf, d.cursor, d.pending_len, d.passed, d.written,
                   ConsoleTokens, {"queue_buf_rx"}, None, Modulus)
  BY <1>0, Zenon DEF ConsoleInv
<1>2. g = [s EXCEPT !.driver = e]
  BY <1>0, <1>1, <1>e, <1>g, Zenon
<1>3. g = [queue |-> s.queue, driver |-> e]
  BY <1>1, <1>2, Zenon
<1>4. e = [cursor |-> d.cursor, pending_len |-> d.pending_len, receive_token |-> d.receive_token,
           buf |-> d.buf, written |-> d.written, passed |-> d.passed, call |-> call]
  BY <1>1, <1>e, Zenon DEF ConsoleFields
<1>5. /\ e = ConsoleFields(e) /\ e.receive_token = d.receive_token /\ e.cursor = d.cursor
      /\ e.pending_len = d.pending_len /\ e.buf = d.buf /\ e.written = d.written
      /\ e.passed = d.passed /\ e.call = call
  BY <1>4, Zenon DEF ConsoleFields
<1>6. g.queue = s.queue /\ g.driver = e /\ g = [queue |-> g.queue, driver |-> g.driver]
  BY <1>3, Zenon
<1>7. InOrder(e.call)
  BY <1>5, Zenon
<1>8. ConsoleInv(g)
  BY <1>1, <1>5, <1>6, <1>7, Zenon DEF ConsoleInv
<1> QED BY <1>8, <1>g, Zenon

\* Whether there are unread bytes.
LEMMA ConsoleUnread ==
  ASSUME NEW s, ConsoleInv(s), s.driver.cursor # s.driver.pending_len
  PROVE  /\ Holds(s.driver.buf, s.driver.cursor, s.driver.pending_len, s.driver.passed,
                  s.driver.written, Modulus)
         /\ \A t \in ConsoleTokens : s.queue.request[t] = None
         /\ s.driver.cursor + 1 <= s.driver.pending_len
<1>1. /\ Holds(s.driver.buf, s.driver.cursor, s.driver.pending_len, s.driver.passed,
               s.driver.written, Modulus)
      /\ \A t \in ConsoleTokens : s.queue.request[t] = None
  BY Zenon DEF ConsoleInv, Receiving
<1>2. PICK c, p, n : /\ c = s.driver.cursor /\ p = s.driver.pending_len /\ n = Len(s.driver.buf)
  BY Zenon
<1>3. c \in 0 .. p /\ p \in 0 .. n /\ c # p
  BY <1>1, <1>2, Zenon DEF Holds
<1>4. c + 1 <= p
  BY <1>3
<1> QED BY <1>1, <1>2, <1>4, Zenon

\* as the unread bytes are.
LEMMA ConsoleGives ==
  ASSUME NEW s, ConsoleInv(s), s.driver.cursor # s.driver.pending_len, NEW n,
         \A i \in 1 .. n : i \in 1 .. s.driver.pending_len - s.driver.cursor
  PROVE  ConsoleInv(Console!Given(s, n))
<1> DEFINE out == [i \in 1 .. n |-> s.driver.buf[s.driver.cursor + i]]
<1>1. PICK call : call = [len |-> 0, out |-> out, at |-> s.driver.passed, consumes |-> FALSE]
  BY Zenon
<1>2. \A i \in 1 .. s.driver.pending_len - s.driver.cursor :
        s.driver.buf[s.driver.cursor + i] = (s.driver.passed + i - 1) % Modulus
  BY ConsoleUnread, Zenon DEF Holds
<1>3. DOMAIN out = 1 .. n /\ \A i \in 1 .. n : out[i] = s.driver.buf[s.driver.cursor + i]
  BY Zenon
<1> HIDE DEF out
<1>4. call.len = 0 /\ call.out = out /\ call.at = s.driver.passed /\ call.consumes = FALSE
  BY <1>1, Zenon
<1>5. 0 \in Nat
  OBVIOUS
<1>6. InOrder(call)
  BY <1>1, <1>2, <1>3, <1>4, <1>5, Zenon DEF InOrder
<1>7. PICK f : f = [s EXCEPT !.driver.call = call]
  BY Zenon
<1>8. Console!Given(s, n) = f
  BY <1>1, <1>7, Zenon DEF Console!Given, out
<1> QED BY <1>6, <1>7, <1>8, ConsoleMoves, Zenon

\* The room of a call and whether consume was called do not matter to what
\* was given.
LEMMA ConsoleCall ==
  ASSUME NEW s, ConsoleInv(s), NEW call,
         \/ \E len \in Nat : call = [s.driver.call EXCEPT !.len = len]
         \/ call = [s.driver.call EXCEPT !.consumes = TRUE]
  PROVE  InOrder(call)
<1>1. PICK x : x = s.driver.call
  OBVIOUS
<1>2. /\ x = [len |-> x.len, out |-> x.out, at |-> x.at, consumes |-> x.consumes] /\ x.len \in Nat
      /\ \A i \in DOMAIN x.out : x.out[i] = (x.at + i - 1) % Modulus
  BY <1>1, Zenon DEF ConsoleInv, InOrder
<1>3. PICK len, consumes :
        len \in Nat /\ call = [len |-> len, out |-> x.out, at |-> x.at, consumes |-> consumes]
  <2>1. CASE \E len \in Nat : call = [s.driver.call EXCEPT !.len = len]
    <3>1. PICK len \in Nat : call = [x EXCEPT !.len = len]
      BY <1>1, <2>1, Zenon
    <3>2. call = [len |-> len, out |-> x.out, at |-> x.at, consumes |-> x.consumes]
      BY <1>2, <3>1, Zenon
    <3> QED BY <3>2, Zenon
  <2>2. CASE call = [s.driver.call EXCEPT !.consumes = TRUE]
    <3>1. call = [x EXCEPT !.consumes = TRUE]
      BY <1>1, <2>2, Zenon
    <3>2. call = [len |-> x.len, out |-> x.out, at |-> x.at, consumes |-> TRUE]
      BY <1>2, <3>1, Zenon
    <3> QED BY <1>2, <3>2, Zenon
  <2> QED BY <2>1, <2>2, Zenon
<1>4. call.len = len /\ call.out = x.out /\ call.at = x.at /\ call.consumes = consumes
  BY <1>3, Zenon
<1> QED BY <1>2, <1>3, <1>4, Zenon DEF InOrder

ConsoleHere == ConsoleInv([queue |-> queue, driver |-> driver])

LEMMA ConsoleSet ==
  ASSUME NEW s, ConsoleInv(s), queue' = s.queue, driver' = s.driver
  PROVE  ConsoleHere'
<1>1. [queue |-> queue', driver |-> driver'] = s
  BY Zenon DEF ConsoleInv
<1> QED BY <1>1, Zenon DEF ConsoleHere, ConsoleInv, ConsoleFields, ConsoleTokens, InOrder

LEMMA ConsoleInit == ASSUME Console!Init PROVE ConsoleHere
<1>0. PICK call : call = [len |-> 0, out |-> <<>>, at |-> 0, consumes |-> FALSE]
  BY Zenon
<1>1. LET s == Console!poll_retrieve(
                 [queue |-> Console!Queue!Empty,
                  driver |-> [cursor |-> 0, pending_len |-> 0, receive_token |-> None, buf |-> <<>>,
                              written |-> 0, passed |-> 0, call |-> call]])
      IN  queue = s.queue /\ driver = s.driver
  BY <1>0, Zenon DEF Console!Init
<1>2. PICK d : d = [cursor |-> 0, pending_len |-> 0, receive_token |-> None, buf |-> <<>>,
                    written |-> 0, passed |-> 0, call |-> call]
  BY Zenon
<1>3. PICK q : q = EmptyQueue(2, None)
  OBVIOUS
<1>4. PICK s : s = [queue |-> q, driver |-> d]
  BY Zenon
<1>5. Console!Queue!Empty = q
  BY <1>3, Zenon DEF Console!Queue!Empty, Console!Queue!Tokens, EmptyQueue
<1>6. OneInv(q, ConsoleTokens, {"queue_buf_rx"}, None)
  <2>1. \A n \in Nat : OneInv(EmptyQueue(n, None), 0 .. n - 1, {"queue_buf_rx"}, None)
    BY EmptyInv, Zenon
  <2>2. 2 \in Nat
    OBVIOUS
  <2> QED BY <1>3, <2>1, <2>2, Zenon DEF ConsoleTokens
<1>7. q.free # <<>> /\ q.returned = <<>> /\ \A t \in ConsoleTokens : q.request[t] = None
  <2>1. /\ q.free = [i \in 1 .. 2 |-> i - 1] /\ q.returned = <<>>
        /\ q.request = [t \in ConsoleTokens |-> None]
    BY <1>3, Zenon DEF EmptyQueue, ConsoleTokens
  <2>2. [i \in 1 .. 2 |-> i - 1] # <<>>
    OBVIOUS
  <2> QED BY <2>1, <2>2, Zenon
<1>8. /\ d = ConsoleFields(d) /\ d.receive_token = None /\ d.buf = <<>> /\ d.cursor = 0
      /\ d.pending_len = 0 /\ d.written = 0 /\ d.passed = 0 /\ d.call = call
  BY <1>2, Zenon DEF ConsoleFields
<1>9. Holds(<<>>, 0, 0, 0, 0, Modulus)
  <2>1. /\ <<>> \in Seq(0 .. Modulus - 1) /\ 0 \in 0 .. Len(<<>>) /\ 0 \in 0 .. 0 /\ 0 \in 0 .. Modulus - 1
        /\ \A i \in 1 .. 0 - 0 : FALSE
    BY ConsoleConstants
  <2>2. 0 = (0 + (0 - 0)) % Modulus
    BY ConsoleConstants
  <2> QED BY <2>1, <2>2, Zenon DEF Holds
<1>10. Receiving(q, None, <<>>, 0, 0, 0, 0, ConsoleTokens, {"queue_buf_rx"}, None, Modulus)
  BY <1>6, <1>7, <1>9, Zenon DEF Receiving
<1>11. s.queue = q /\ s.driver = d /\ s = [queue |-> s.queue, driver |-> s.driver]
  BY <1>4, Zenon
<1>12. ConsoleInv(s)
  <2>1. 0 \in Nat /\ DOMAIN <<>> = {}
    OBVIOUS
  <2>2. call.len = 0 /\ call.out = <<>> /\ call.at = 0 /\ call.consumes = FALSE
    BY <1>0, Zenon
  <2>3. InOrder(call)
    BY <1>0, <2>1, <2>2, Zenon DEF InOrder
  <2> QED BY <1>8, <1>10, <1>11, <2>3, Zenon DEF ConsoleInv
<1>13. PICK f : f = Console!poll_retrieve(s)
  OBVIOUS
<1>14. ConsoleInv(f) /\ queue = f.queue /\ driver = f.driver
  BY <1>1, <1>2, <1>4, <1>5, <1>12, <1>13, ConsolePolls, Zenon
<1>15. [queue |-> queue, driver |-> driver] = f
  BY <1>14, Zenon DEF ConsoleInv
<1> QED BY <1>14, <1>15, Zenon DEF ConsoleHere

LEMMA ConsoleRecv == ASSUME ConsoleHere, NEW pop, Console!recv(pop) PROVE ConsoleHere'
<1>1. PICK s : s = Console!finish_receive(Console!Here)
  OBVIOUS
<1>2. ConsoleInv(s)
  BY <1>1, ConsoleFinishes, Zenon DEF ConsoleHere, Console!Here
<1>g. PICK g : g = Console!Given(s, 1)
  OBVIOUS
<1>3. PICK f : f = IF ~Console!Unread(s) THEN s
                   ELSE IF pop THEN Console!poll_retrieve(Console!Taken(g, 1)) ELSE g
  OBVIOUS
<1>4. queue' = f.queue /\ driver' = f.driver
  BY <1>1, <1>g, <1>3, Zenon DEF Console!recv, Console!Set
<1>5. ASSUME Console!Unread(s)
      PROVE  ConsoleInv(g) /\ ConsoleInv(Console!poll_retrieve(Console!Taken(g, 1)))
  <2>1. s.driver.cursor # s.driver.pending_len
    BY <1>5, Zenon DEF Console!Unread
  <2>2. PICK c, p : c = s.driver.cursor /\ p = s.driver.pending_len
    OBVIOUS
  <2>3. c \in Int /\ p \in Int /\ c + 1 <= p
    BY <1>2, <2>1, <2>2, ConsoleUnread, SMTT(30) DEF Holds
  <2>4. 1 \in Nat /\ \A i \in 1 .. 1 : i \in 1 .. p - c
    BY <2>3
  <2>5. ConsoleInv(g)
    BY <1>2, <1>g, <2>1, <2>2, <2>4, ConsoleGives, Zenon
  <2>6. g.driver.cursor = c /\ g.driver.pending_len = p
    <3>1. PICK d : d = s.driver
      OBVIOUS
    <3>2. s = [queue |-> s.queue, driver |-> d] /\ d = ConsoleFields(d)
      BY <1>2, <3>1, Zenon DEF ConsoleInv
    <3> QED BY <1>g, <2>2, <3>1, <3>2, Zenon DEF Console!Given, ConsoleFields
  <2>7. ConsoleInv(Console!Taken(g, 1))
    BY <2>1, <2>2, <2>3, <2>4, <2>5, <2>6, ConsoleTakes, Zenon
  <2> QED BY <2>5, <2>7, ConsolePolls, Zenon
<1>6. ConsoleInv(f)
  BY <1>2, <1>3, <1>5, Zenon
<1> QED BY <1>4, <1>6, ConsoleSet, Zenon

LEMMA ConsoleAck == ASSUME ConsoleHere, Console!ack_interrupt PROVE ConsoleHere'
<1>1. PICK s : s = Console!finish_receive(Console!Here)
  OBVIOUS
<1>2. ConsoleInv(s)
  BY <1>1, ConsoleFinishes, Zenon DEF ConsoleHere, Console!Here
<1>3. queue' = s.queue /\ driver' = s.driver
  BY <1>1, Zenon DEF Console!ack_interrupt, Console!Set
<1> QED BY <1>2, <1>3, ConsoleSet, Zenon

LEMMA ConsoleWait == ASSUME ConsoleHere, NEW len \in Nat, Console!wait_for_receive(len) PROVE ConsoleHere'
<1>1. PICK s : s = Console!poll_retrieve(Console!Here)
  OBVIOUS
<1>2. ConsoleInv(s)
  BY <1>1, ConsolePolls, Zenon DEF ConsoleHere, Console!Here
<1>3. PICK call : call = [s.driver.call EXCEPT !.len = len]
  BY Zenon
<1>4. PICK f : f = [s EXCEPT !.driver.call = call]
  BY Zenon
<1>5. queue' = f.queue /\ driver' = f.driver
  BY <1>1, <1>3, <1>4, Zenon DEF Console!wait_for_receive, Console!Set
<1>6. InOrder(call)
  BY <1>2, <1>3, ConsoleCall, Zenon
<1>7. ConsoleInv(f)
  BY <1>2, <1>4, <1>6, ConsoleMoves, Zenon
<1> QED BY <1>5, <1>7, ConsoleSet, Zenon

LEMMA ConsoleWaitEnds == ASSUME ConsoleHere, Console!WaitEnds PROVE ConsoleHere'
<1>1. PICK s : s = IF Console!Unread(Console!Here) THEN Console!Here
                   ELSE Console!finish_receive(Console!Here)
  OBVIOUS
<1>2. ConsoleInv(s)
  BY <1>1, ConsoleFinishes, Zenon DEF ConsoleHere, Console!Here
<1>3. PICK len, unread, n : /\ len = driver.call.len
                            /\ unread = s.driver.pending_len - s.driver.cursor
                            /\ n = IF len < unread THEN len ELSE unread
  OBVIOUS
<1>4. PICK f : f = Console!Given(s, n)
  OBVIOUS
<1>5. queue' = f.queue /\ driver' = f.driver /\ s.driver.cursor # s.driver.pending_len
  BY <1>1, <1>3, <1>4, Zenon DEF Console!WaitEnds, Console!Set, Console!Unread
<1>6. len \in Nat
  <2>1. PICK h : h = [queue |-> queue, driver |-> driver]
    BY Zenon
  <2>2. h.driver = driver /\ ConsoleInv(h)
    BY <2>1, Zenon DEF ConsoleHere
  <2> QED BY <1>3, <2>2, Zenon DEF ConsoleInv, InOrder
<1>7. unread \in Int
  BY <1>2, <1>3, <1>5, ConsoleUnread, SMTT(30) DEF Holds
<1>8. \A i \in 1 .. n : i \in 1 .. unread
  BY <1>3, <1>6, <1>7
<1>9. ConsoleInv(f)
  BY <1>2, <1>3, <1>4, <1>5, <1>8, ConsoleGives, Zenon
<1> QED BY <1>5, <1>9, ConsoleSet, Zenon

LEMMA ConsoleConsume == ASSUME ConsoleHere, NEW amt \in 1 .. BufferSize, Console!consume(amt) PROVE ConsoleHere'
<1>1. PICK s : s = [queue |-> queue, driver |-> driver]
  BY ZenonT(30)
<1>2. s.queue = queue /\ s.driver = driver /\ ConsoleInv(s)
  BY <1>1, Zenon DEF ConsoleHere
<1>3. PICK g : g = Console!Taken(s, amt)
  OBVIOUS
<1>4. PICK call : call = [g.driver.call EXCEPT !.consumes = TRUE]
  BY Zenon
<1>5. PICK f : f = [g EXCEPT !.driver.call = call]
  BY Zenon
<1>6. /\ s.driver.cursor + amt <= s.driver.pending_len /\ queue' = f.queue /\ driver' = f.driver
  BY <1>1, <1>2, <1>3, <1>4, <1>5, Zenon DEF Console!consume, Console!Set, Console!Here
<1>7. CASE s.driver.cursor # s.driver.pending_len
  <2>1. amt \in Nat
    OBVIOUS
  <2>2. ConsoleInv(g)
    BY <1>2, <1>3, <1>6, <1>7, <2>1, ConsoleTakes, Zenon
  <2>3. InOrder(call)
    BY <1>4, <2>2, ConsoleCall, Zenon
  <2>4. ConsoleInv(f)
    BY <1>5, <2>2, <2>3, ConsoleMoves, Zenon
  <2> QED BY <1>6, <2>4, ConsoleSet, Zenon
<1>8. CASE s.driver.cursor = s.driver.pending_len
  <2>1. PICK c : c = s.driver.cursor
    OBVIOUS
  <2>2. c + amt <= c
    BY <1>6, <1>8, <2>1, Zenon
  <2>3. c \in Nat \/ Holds(s.driver.buf, c, c, s.driver.passed, s.driver.written, Modulus)
    BY <1>2, <1>8, <2>1, Zenon DEF ConsoleInv, Receiving
  <2>4. c \in Nat
    BY <2>3, SMTT(30) DEF Holds
  <2> QED BY <2>2, <2>4, SMTT(30)
<1> QED BY <1>7, <1>8, ZenonT(40)

\* The device writes into the buffer, in which nothing is unread.
LEMMA ConsoleDeviceUse ==
  ASSUME ConsoleHere, NEW n \in 1 .. BufferSize, Console!DeviceUse(n) PROVE ConsoleHere'
<1> DEFINE buf == [i \in 1 .. n |-> (driver.written + i - 1) % Modulus]
           written == (driver.written + n) % Modulus
<1>1. PICK t \in queue.held : queue' = GivenBack(queue, t)
  BY Zenon DEF Console!DeviceUse, Console!Queue!Use, GivenBack
<1>2. driver' = [driver EXCEPT !.buf = buf, !.written = written]
  BY Zenon DEF Console!DeviceUse
<1>3. /\ driver = ConsoleFields(driver)
      /\ Receiving(queue, driver.receive_token, driver.buf, driver.cursor, driver.pending_len,
                   driver.passed, driver.written, ConsoleTokens, {"queue_buf_rx"}, None, Modulus)
      /\ InOrder(driver.call)
  <2>1. PICK s : s = [queue |-> queue, driver |-> driver]
    BY ZenonT(30)
  <2>2. s.queue = queue /\ s.driver = driver /\ ConsoleInv(s)
    BY <2>1, Zenon DEF ConsoleHere
  <2> QED BY <2>2, Zenon DEF ConsoleInv
<1>4. n \in Nat
  OBVIOUS
<1>5. Receiving(queue', driver.receive_token, buf, driver.cursor, driver.pending_len, driver.passed,
                written, ConsoleTokens, {"queue_buf_rx"}, None, Modulus)
  BY <1>1, <1>3, <1>4, ConsoleConstants, ReceivingUsed
<1> HIDE DEF buf, written
<1>6. driver' = [cursor |-> driver.cursor,
                 pending_len |-> driver.pending_len, receive_token |-> driver.receive_token,
                 buf |-> buf, written |-> written, passed |-> driver.passed, call |-> driver.call]
  BY <1>2, <1>3, Zenon DEF ConsoleFields
<1>7. PICK d : d = driver'
  OBVIOUS
<1>8. /\ d = ConsoleFields(d) /\ d.receive_token = driver.receive_token /\ d.cursor = driver.cursor
      /\ d.pending_len = driver.pending_len /\ d.buf = buf /\ d.written = written
      /\ d.passed = driver.passed /\ d.call = driver.call
  BY <1>6, <1>7, Zenon DEF ConsoleFields
<1>9. PICK s : s = [queue |-> queue', driver |-> d]
  BY ZenonT(30)
<1>10. s.queue = queue' /\ s.driver = d /\ s = [queue |-> s.queue, driver |-> s.driver]
  BY <1>9, Zenon
<1>11. ConsoleInv(s)
  BY <1>3, <1>5, <1>8, <1>10, Zenon DEF ConsoleInv
<1> QED BY <1>7, <1>10, <1>11, ConsoleSet, Zenon

LEMMA ConsoleDeviceTake == ASSUME ConsoleHere, Console!DeviceTake PROVE ConsoleHere'
<1>1. PICK s : s = [queue |-> queue, driver |-> driver]
  BY Zenon
<1>2. s.queue = queue /\ s.driver = driver /\ ConsoleInv(s)
  BY <1>1, Zenon DEF ConsoleHere
<1>3. /\ driver' = driver
      /\ \/ queue.available # <<>> /\ queue' = TakenUp(queue)
         \/ \E awake \in BOOLEAN : queue' = Awake(queue, awake)
  BY Zenon DEF Console!DeviceTake, Console!Queue!Take, Console!Queue!Sleep, TakenUp, Awake
<1>4. OneInv(queue, ConsoleTokens, {"queue_buf_rx"}, None)
  BY <1>2, Zenon DEF ConsoleInv, Receiving
<1>5. AfterQuietStep(queue, queue', ConsoleTokens, {"queue_buf_rx"}, None)
  BY <1>3, <1>4, QuietOne, ZenonT(40)
<1>6. PICK f : f = [queue |-> queue', driver |-> driver]
  BY ZenonT(30)
<1>7. f.queue = queue' /\ f.driver = driver /\ f = [queue |-> f.queue, driver |-> f.driver]
  BY <1>6, Zenon
<1>8. ConsoleInv(f)
  <2>1. /\ driver = ConsoleFields(driver)
        /\ Receiving(queue, driver.receive_token, driver.buf, driver.cursor, driver.pending_len,
                     driver.passed, driver.written, ConsoleTokens, {"queue_buf_rx"}, None, Modulus)
        /\ InOrder(driver.call)
    BY <1>2, Zenon DEF ConsoleInv
  <2>2. Receiving(queue', driver.receive_token, driver.buf, driver.cursor, driver.pending_len,
                  driver.passed, driver.written, ConsoleTokens, {"queue_buf_rx"}, None, Modulus)
    BY <1>5, <2>1, ReceivingQuiet, ZenonT(40)
  <2> QED BY <1>7, <2>1, <2>2, Zenon DEF ConsoleInv
<1> QED BY <1>3, <1>7, <1>8, ConsoleSet, Zenon

\* Whatever the order of recv, read, fill_buf, consume and ack_interrupt, what
\* a call gives begins with the first byte that recv and consume have not taken,
\* and is in order; the bytes that follow those are all there, as the buffer
\* goes back to the device only when nothing in it is unread, for reads and
\* packets of every length.  read itself takes nothing.
THEOREM ConsoleBytesInOrder == DriverSpec => []NextBytes
<1>1. DriverInit => (kind = "console" => ConsoleHere)
  BY ConsoleInit, SMTT(30) DEF DriverInit
<1>2. (kind = "console" => ConsoleHere) /\ [DriverNext]_vars => (kind = "console" => ConsoleHere)'
  <2> SUFFICES ASSUME kind = "console" => ConsoleHere, [DriverNext]_vars, kind' = "console"
               PROVE  ConsoleHere'
    OBVIOUS
  <2>1. CASE UNCHANGED vars
    <3>1. ConsoleHere /\ queue' = queue /\ driver' = driver
      BY <2>1, Zenon DEF vars
    <3>2. PICK s : s = [queue |-> queue, driver |-> driver]
      BY ZenonT(30)
    <3>3. s.queue = queue /\ s.driver = driver /\ ConsoleInv(s)
      BY <3>1, <3>2, Zenon DEF ConsoleHere
    <3> QED BY <3>1, <3>3, ConsoleSet, Zenon
  <2>2. CASE DriverNext
    <3>1. ConsoleHere /\ Console!Next
      BY <2>2, Zenon DEF DriverNext
    <3>2. BufferSize \in Nat /\ \A len \in 1 .. BufferSize : len \in Nat
      BY DriverAssumption
    <3>3. ASSUME NEW len \in Nat, Console!read(len) \/ (Console!fill_buf /\ len = BufferSize)
          PROVE  ConsoleHere'
      BY <3>1, <3>3, ConsoleWait, Zenon DEF Console!read, Console!fill_buf
    <3> QED BY <3>1, <3>2, <3>3, ConsoleRecv, ConsoleAck, ConsoleWaitEnds, ConsoleConsume,
               ConsoleDeviceUse, ConsoleDeviceTake, Zenon DEF Console!Next
  <2> QED BY <2>1, <2>2, ZenonT(40)
<1>3. (kind = "console" => ConsoleHere) => NextBytes
  <2> SUFFICES ASSUME kind = "console", ConsoleHere PROVE Console!NextBytes
    BY DEF NextBytes
  <2>1. PICK s : s = [queue |-> queue, driver |-> driver]
    BY Zenon
  <2>2. s.queue = queue /\ s.driver = driver /\ ConsoleInv(s) /\ s = Console!Here
    BY <2>1, Zenon DEF ConsoleHere, Console!Here
  <2>c. \A i \in DOMAIN driver.call.out : driver.call.out[i] = (driver.call.at + i - 1) % Modulus
    BY <2>2, Zenon DEF ConsoleInv, InOrder
  <2>3. CASE driver.cursor # driver.pending_len
    <3> DEFINE unread == SubSeq(driver.buf, driver.cursor + 1, driver.pending_len)
    <3>1. /\ Holds(driver.buf, driver.cursor, driver.pending_len, driver.passed, driver.written, Modulus)
          /\ \A t \in ConsoleTokens : queue.request[t] = None
      BY <2>2, <2>3, ConsoleUnread, Zenon
    <3>2. PICK c, p : c = driver.cursor /\ p = driver.pending_len
      OBVIOUS
    <3>3. /\ driver.buf \in Seq(0 .. Modulus - 1) /\ p \in 0 .. Len(driver.buf) /\ c \in 0 .. p
          /\ \A i \in 1 .. p - c : driver.buf[c + i] = (driver.passed + i - 1) % Modulus
          /\ driver.written = (driver.passed + (p - c)) % Modulus
      BY <3>1, <3>2, Zenon DEF Holds
    <3>4. c + 1 \in 1 .. Len(driver.buf) + 1 /\ p \in (c + 1) - 1 .. Len(driver.buf)
      BY <3>3, SMTT(30)
    <3>5. /\ unread \in Seq(0 .. Modulus - 1) /\ Len(unread) = p - (c + 1) + 1
          /\ \A i \in 1 .. p - (c + 1) + 1 : unread[i] = driver.buf[(c + 1) + i - 1]
      <4>1. PICK b : b = driver.buf
        OBVIOUS
      <4>2. unread = SubSeq(b, c + 1, p) /\ b \in Seq(0 .. Modulus - 1)
        BY <3>2, <3>3, <4>1, Zenon
      <4>3. c + 1 \in 1 .. Len(b) + 1 /\ p \in (c + 1) - 1 .. Len(b)
        BY <3>4, <4>1, Zenon
      <4>4. /\ SubSeq(b, c + 1, p) \in Seq(0 .. Modulus - 1) /\ Len(SubSeq(b, c + 1, p)) = p - (c + 1) + 1
            /\ \A i \in 1 .. p - (c + 1) + 1 : SubSeq(b, c + 1, p)[i] = b[(c + 1) + i - 1]
        BY <4>2, <4>3, Part, Zenon
      <4> QED BY <4>1, <4>2, <4>4, Zenon
    <3> HIDE DEF unread
    <3>6. Len(unread) = p - c /\ DOMAIN unread = 1 .. p - c
      BY <3>3, <3>5, SMTT(30)
    <3>7. \A i \in 1 .. p - c : unread[i] = (driver.passed + i - 1) % Modulus
      <4> TAKE i \in 1 .. p - c
      <4>1. i \in 1 .. p - (c + 1) + 1 /\ (c + 1) + i - 1 = c + i
        BY <3>3
      <4> QED BY <3>3, <3>5, <4>1, Zenon
    <3>8. Console!Queue!Outstanding = {}
      BY <3>1, Zenon DEF Console!Queue!Outstanding, Console!Queue!Tokens, ConsoleTokens
    <3>9. Console!Unread(Console!Here)
      BY <2>2, <2>3, Zenon DEF Console!Unread
    <3> QED BY <2>c, <3>3, <3>6, <3>7, <3>8, <3>9, Zenon DEF Console!NextBytes, unread
  <2>4. CASE driver.cursor = driver.pending_len
    <3>1. ~Console!Unread(Console!Here)
      BY <2>2, <2>4, Zenon DEF Console!Unread
    <3>2. CASE queue.returned # <<>>
      <4>1. Holds(driver.buf, 0, Len(driver.buf), driver.passed, driver.written, Modulus)
        BY <2>2, <3>2, Zenon DEF ConsoleInv, Receiving
      <4>2. PICK n : n = Len(driver.buf)
        BY Zenon
      <4>3. /\ driver.buf \in Seq(0 .. Modulus - 1)
            /\ \A i \in 1 .. n - 0 : driver.buf[0 + i] = (driver.passed + i - 1) % Modulus
            /\ driver.written = (driver.passed + (n - 0)) % Modulus
        BY <4>1, <4>2, Zenon DEF Holds
      <4>4. n \in Nat /\ DOMAIN driver.buf = 1 .. n
        BY <4>2, <4>3
      <4>5. n - 0 = n /\ \A i \in 1 .. n : 0 + i = i
        BY <4>4, SMTT(30)
      <4> QED BY <2>c, <3>1, <3>2, <4>2, <4>3, <4>4, <4>5, Zenon DEF Console!NextBytes
    <3>3. CASE queue.returned = <<>>
      <4>1. driver.written = driver.passed /\ driver.passed \in 0 .. Modulus - 1
        <5>1. \/ driver.written = driver.passed /\ driver.passed \in 0 .. Modulus - 1
              \/ Holds(driver.buf, driver.cursor, driver.cursor, driver.passed, driver.written, Modulus)
          <6>1. Receiving(queue, driver.receive_token, driver.buf, driver.cursor, driver.cursor,
                          driver.passed, driver.written, ConsoleTokens, {"queue_buf_rx"}, None, Modulus)
            BY <2>2, <2>4, Zenon DEF ConsoleInv
          <6>2. PICK rt : rt = driver.receive_token
            OBVIOUS
          <6>3. queue.returned # <<rt>>
            BY <3>3
          <6> QED BY <3>3, <6>1, <6>2, <6>3, Zenon DEF Receiving
        <5>2. ASSUME Holds(driver.buf, driver.cursor, driver.cursor, driver.passed, driver.written, Modulus)
              PROVE  driver.written = driver.passed /\ driver.passed \in 0 .. Modulus - 1
          <6>1. driver.written = driver.passed
            BY <5>2, ConsoleConstants, HoldsNothing, Zenon
          <6> QED BY <6>1, <5>2, Zenon DEF Holds
        <5> QED BY <5>1, <5>2, Zenon
      <4>2. PICK g : g = driver.passed
        OBVIOUS
      <4>3. (g + Len(<<>>)) % Modulus = g
        BY <4>1, <4>2, ConsoleConstants, SMTT(30)
      <4>4. \A i \in DOMAIN <<>> : FALSE
        OBVIOUS
      <4> QED BY <2>c, <3>1, <3>3, <4>1, <4>2, <4>3, <4>4, Zenon DEF Console!NextBytes
    <3> QED BY <3>2, <3>3, Zenon
  <2> QED BY <2>3, <2>4, SMTT(30)
<1> QED BY <1>1, <1>2, <1>3, PTL DEF DriverSpec

-----------------------------------------------------------------------------
(* RingBuffer *)

\* The fields of the buffer, and its contents in the order of the positions.
LEMMA RingConstants == RingCapacity \in Nat \ {0} /\ RingBytes # {}
  BY DriverAssumption, SMTT(30)

RingTypeOK ==
  /\ driver = [buffer |-> driver.buffer, used |-> driver.used, start |-> driver.start, contents |-> driver.contents,
               out |-> driver.out]
  /\ driver.buffer \in [Ring!Positions -> RingBytes]
  /\ driver.used \in 0 .. RingCapacity
  /\ driver.start \in Ring!Positions
  /\ driver.contents \in Seq(RingBytes)

RingHeld ==
  /\ Len(driver.contents) = driver.used
  /\ \A i \in 1 .. driver.used : driver.contents[i] = driver.buffer[(driver.start + i - 1) % RingCapacity]

RingInv == RingTypeOK /\ RingHeld

LEMMA RingInit ==
  ASSUME Ring!Init
  PROVE  RingInv
<1>1. (CHOOSE b \in RingBytes : TRUE) \in RingBytes
  BY RingConstants, SMTT(30)
<1>2. RingTypeOK
  BY RingConstants, <1>1, SMTT(30) DEF Ring!Init, RingTypeOK, Ring!Positions
<1>3. RingHeld
  BY DEF Ring!Init, RingHeld
<1> QED
  BY <1>2, <1>3, ZenonT(40) DEF RingInv

LEMMA RingAdd ==
  ASSUME RingInv, NEW bytes \in Seq(RingBytes), Ring!add(bytes)
  PROVE  RingInv' /\ Ring!FirstInFirstOut
<1> DEFINE n == Len(bytes)
            f == (driver.start + driver.used) % RingCapacity
            b == Ring!MinOf(n, RingCapacity - f)
            copy == Ring!Copy(bytes, f, b)
            out(result) == [call |-> "add", result |-> result, bytes |-> bytes]
<1>1. n \in Nat /\ \A i \in 1 .. n : bytes[i] \in RingBytes
  OBVIOUS
<1>2. /\ driver.used \in 0 .. RingCapacity /\ driver.start \in 0 .. RingCapacity - 1 /\ driver.contents \in Seq(RingBytes)
      /\ driver.buffer \in [0 .. RingCapacity - 1 -> RingBytes] /\ Len(driver.contents) = driver.used
  BY DEF RingInv, RingTypeOK, RingHeld, Ring!Positions
<1>3. CASE n > Ring!free
  <2>1. driver' = [driver EXCEPT !.out = out(FALSE)]
    BY <1>3, SMTT(30) DEF Ring!add
  <2>2. driver' = [buffer |-> driver.buffer, used |-> driver.used, start |-> driver.start,
                   contents |-> driver.contents, out |-> out(FALSE)]
    BY <2>1, Zenon DEF RingInv, RingTypeOK, Ring!r
  <2> HIDE DEF n
  <2>3. RingInv'
    BY <2>2, SMTT(30) DEF RingInv, RingTypeOK, RingHeld, Ring!r, Ring!Positions
  <2>4. ~(Len(driver.contents) + n <= RingCapacity)
    BY RingConstants, <1>1, <1>2, <1>3, SMTT(30) DEF Ring!free, Ring!r
  <2>5. Ring!FirstInFirstOut
    <3>1. driver'.out.call = "add" /\ driver'.out.result = FALSE /\ driver'.out.bytes = bytes
      BY <2>2, SMTT(30)
    <3> QED
      BY <2>4, <3>1, ZenonT(40) DEF Ring!FirstInFirstOut, Ring!r, n
  <2> QED
    BY <2>3, <2>5, ZenonT(40)
<1>4. CASE ~(n > Ring!free)
  <2>1. driver' = [driver EXCEPT !.buffer = copy, !.used = @ + n, !.contents = @ \o bytes,
                                 !.out = out(TRUE)]
    BY <1>4, Zenon DEF Ring!add, Ring!r, Ring!free
  <2>2. driver' = [buffer |-> copy, used |-> driver.used + n, start |-> driver.start,
                   contents |-> driver.contents \o bytes, out |-> out(TRUE)]
    BY <2>1, Zenon DEF RingInv, RingTypeOK, Ring!r
  <2>3. n \in 0 .. RingCapacity - driver.used
    BY RingConstants, <1>1, <1>2, <1>4, SMTT(30) DEF Ring!free, Ring!r
  <2>4. /\ driver.contents \o bytes \in Seq(RingBytes)
        /\ Len(driver.contents \o bytes) = driver.used + n
        /\ \A i \in 1 .. driver.used : (driver.contents \o bytes)[i] = driver.contents[i]
        /\ \A i \in driver.used + 1 .. driver.used + n : (driver.contents \o bytes)[i] = bytes[i - driver.used]
    <3>1. /\ driver.contents \o bytes \in Seq(RingBytes)
          /\ Len(driver.contents \o bytes) = Len(driver.contents) + Len(bytes)
          /\ \A i \in 1 .. Len(driver.contents) : (driver.contents \o bytes)[i] = driver.contents[i]
          /\ \A i \in Len(driver.contents) + 1 .. Len(driver.contents) + Len(bytes) :
               (driver.contents \o bytes)[i] = bytes[i - Len(driver.contents)]
      <4>1. driver.contents \in Seq(RingBytes)
        BY <1>2, Zenon
      <4> QED
        BY <4>1, Concatenated, ZenonT(60)
    <3>2. Len(driver.contents) = driver.used
      BY <1>2, Zenon
    <3> QED
      BY <3>1, <3>2, ZenonT(60)
  <2>5. Placed(RingCapacity, driver.start, driver.used, n, f, b)
    BY RingConstants, <1>2, <2>3, AddPositions, Zenon DEF Ring!MinOf
  <2> HIDE DEF f, b
  <2>6. /\ copy \in [Ring!Positions -> RingBytes]
        /\ \A p \in 0 .. RingCapacity - 1 :
             /\ p \in f .. f + b - 1 => copy[p] = bytes[p - f + 1]
             /\ p \notin f .. f + b - 1 /\ p < n - b => copy[p] = bytes[b + p + 1]
             /\ p \notin f .. f + b - 1 /\ ~(p < n - b) => copy[p] = driver.buffer[p]
    BY RingConstants, <1>1, <1>2, <2>5, SMTT(30) DEF Ring!Copy, Ring!Positions, Ring!r, Placed
  <2> HIDE DEF copy, n
  <2>7. ASSUME NEW i \in 1 .. driver.used + n
        PROVE  (driver.contents \o bytes)[i] = copy[(driver.start + i - 1) % RingCapacity]
    <3>1. CASE i \in 1 .. driver.used
      <4>1. copy[(driver.start + i - 1) % RingCapacity] = driver.buffer[(driver.start + i - 1) % RingCapacity]
        BY <2>5, <2>6, <3>1, Zenon DEF Placed
      <4> QED
        BY <2>4, <3>1, <4>1, Zenon DEF RingInv, RingHeld
    <3>2. CASE i \in driver.used + 1 .. driver.used + n
      <4>1. copy[(driver.start + i - 1) % RingCapacity] = bytes[i - driver.used]
        BY <2>5, <2>6, <3>2, Zenon DEF Placed
      <4> QED
        BY <2>4, <3>2, <4>1, Zenon
    <3>3. i \in 1 .. driver.used \/ i \in driver.used + 1 .. driver.used + n
      BY <1>1, <1>2, SMTT(30)
    <3> QED
      BY <3>1, <3>2, <3>3, Zenon
  <2>8. RingTypeOK'
    BY RingConstants, <1>2, <2>2, <2>3, <2>4, <2>6, SMTT(30) DEF RingTypeOK, Ring!r, Ring!Positions
  <2>9. RingHeld'
    BY <2>2, <2>4, <2>7, Zenon DEF RingHeld, Ring!r
  <2>10. Ring!FirstInFirstOut
    <3>1. Len(driver.contents) + n <= RingCapacity
      BY RingConstants, <1>2, <2>3, SMTT(30)
    <3>2. driver'.out.call = "add" /\ driver'.out.result = TRUE /\ driver'.out.bytes = bytes
      BY <2>2
    <3> QED
      BY <3>1, <3>2, Zenon DEF Ring!FirstInFirstOut, Ring!r, n
  <2> QED
    BY <2>8, <2>9, <2>10, ZenonT(40) DEF RingInv
<1> QED
  BY <1>3, <1>4, Zenon

LEMMA RingDrain ==
  ASSUME RingInv, NEW len \in Nat, Ring!drain(len)
  PROVE  RingInv' /\ Ring!FirstInFirstOut
<1> DEFINE k == Ring!MinOf(driver.used, len)
            b == Ring!MinOf(k, RingCapacity - driver.start)
            bytes == [i \in 1 .. RingCapacity |-> driver.buffer[i - 1]]
            first == SubSeq(bytes, driver.start + 1, driver.start + b)
            second == SubSeq(bytes, 1, k - b)
            read == first \o second
            rest == SubSeq(driver.contents, k + 1, Len(driver.contents))
            out == [call |-> "drain", result |-> k, bytes |-> read]
<1>1. /\ driver.used \in 0 .. RingCapacity /\ driver.start \in 0 .. RingCapacity - 1 /\ driver.contents \in Seq(RingBytes)
      /\ driver.buffer \in [0 .. RingCapacity - 1 -> RingBytes] /\ Len(driver.contents) = driver.used
  BY DEF RingInv, RingTypeOK, RingHeld, Ring!Positions
<1>2. driver' = [driver EXCEPT !.used = @ - k, !.start = (driver.start + k) % RingCapacity,
                               !.contents = rest, !.out = out]
  BY DEF Ring!drain, Ring!NextStart, Ring!r
<1>3. driver' = [buffer |-> driver.buffer, used |-> driver.used - k, start |-> (driver.start + k) % RingCapacity,
                 contents |-> rest, out |-> out]
  BY <1>2, Zenon DEF RingInv, RingTypeOK, Ring!r
<1>4. k \in 0 .. driver.used
  BY <1>1 DEF Ring!MinOf
<1> HIDE DEF k
<1>5. Taken(RingCapacity, driver.start, driver.used, k, b)
  BY RingConstants, <1>1, <1>4, DrainPositions, Zenon DEF Ring!MinOf
<1> HIDE DEF b
<1>b. b \in 0 .. k /\ driver.start + b <= RingCapacity /\ k - b <= RingCapacity
  BY <1>5, Zenon DEF Taken
<1>6. /\ bytes \in Seq(RingBytes) /\ Len(bytes) = RingCapacity
      /\ \A i \in 1 .. RingCapacity : bytes[i] = driver.buffer[i - 1]
  <2>1. RingCapacity \in Nat /\ driver.buffer \in [0 .. RingCapacity - 1 -> RingBytes]
    BY RingConstants, <1>1, Zenon
  <2> QED BY <2>1, Laid, Zenon
<1> HIDE DEF bytes
<1>7. /\ first \in Seq(RingBytes) /\ Len(first) = b
      /\ \A i \in 1 .. b : first[i] = bytes[driver.start + i]
  <2> HIDE DEF first, second, read, rest, out
  <2>0. driver.start \in 0 .. RingCapacity - 1 /\ driver.used \in 0 .. RingCapacity /\ Len(bytes) = RingCapacity
    BY <1>1, <1>6, Zenon
  <2>1. b \in Nat /\ driver.start + 1 \in 1 .. Len(bytes) + 1 /\ driver.start + b \in (driver.start + 1) - 1 .. Len(bytes)
    BY <2>0, <1>4, <1>b, SMTT(30)
  <2> USE DEF first
  <2>2. /\ first \in Seq(RingBytes) /\ Len(first) = (driver.start + b) - (driver.start + 1) + 1
        /\ \A i \in 1 .. (driver.start + b) - (driver.start + 1) + 1 : first[i] = bytes[(driver.start + 1) + i - 1]
    <3>1. bytes \in Seq(RingBytes)
      BY <1>6, Zenon
    <3> QED
      BY <2>1, <3>1, Part, ZenonT(60)
  <2>3. (driver.start + b) - (driver.start + 1) + 1 = b
    BY <1>1, <2>1, SMTT(30)
  <2>4. \A i \in 1 .. b : (driver.start + 1) + i - 1 = driver.start + i
    BY <1>1, <2>1, SMTT(30)
  <2> HIDE DEF first
  <2> QED
    BY <2>2, <2>3, <2>4, ZenonT(40)
<1>8. /\ second \in Seq(RingBytes) /\ Len(second) = k - b
      /\ \A i \in 1 .. k - b : second[i] = bytes[i]
  <2> HIDE DEF first, second, read, rest, out
  <2>0. driver.used \in 0 .. RingCapacity /\ Len(bytes) = RingCapacity
    BY <1>1, <1>6, Zenon
  <2>1. b \in Nat /\ k \in Nat /\ 1 \in 1 .. Len(bytes) + 1 /\ k - b \in 1 - 1 .. Len(bytes)
    BY <2>0, <1>4, <1>b, SMTT(30)
  <2> USE DEF second
  <2>2. /\ second \in Seq(RingBytes) /\ Len(second) = (k - b) - 1 + 1
        /\ \A i \in 1 .. (k - b) - 1 + 1 : second[i] = bytes[1 + i - 1]
    <3>1. bytes \in Seq(RingBytes)
      BY <1>6, Zenon
    <3> QED
      BY <2>1, <3>1, Part, ZenonT(60)
  <2> HIDE DEF second
  <2> QED
    BY <2>1, <2>2, SMTT(30)
<1> HIDE DEF first, second
<1>9. /\ read \in Seq(RingBytes) /\ Len(read) = k
      /\ \A i \in 1 .. b : read[i] = bytes[driver.start + i]
      /\ \A i \in b + 1 .. k : read[i] = bytes[i - b]
  <2>1. /\ read \in Seq(RingBytes) /\ Len(read) = Len(first) + Len(second)
        /\ \A i \in 1 .. Len(first) : read[i] = first[i]
        /\ \A i \in Len(first) + 1 .. Len(first) + Len(second) : read[i] = second[i - Len(first)]
    <3>1. first \in Seq(RingBytes) /\ second \in Seq(RingBytes)
      BY <1>7, <1>8, Zenon
    <3> QED
      BY <3>1, Concatenated, ZenonT(60)
  <2>2. b \in 0 .. k /\ k \in Nat
    BY <1>1, <1>4, <1>b, SMTT(30)
  <2>3. b + (k - b) = k /\ \A i \in b + 1 .. k : i - b \in 1 .. k - b
    BY <2>2, SMTT(30)
  <2> HIDE DEF read
  <2> QED
    BY <1>7, <1>8, <2>1, <2>3, ZenonT(40)
<1> HIDE DEF read
<1>10. \A i \in 1 .. k : driver.contents[i] = read[i]
  <2> SUFFICES ASSUME NEW i \in 1 .. k
                PROVE  driver.buffer[(driver.start + i - 1) % RingCapacity] = read[i]
    BY <1>1, <1>4, SMTT(30) DEF RingInv, RingHeld
  <2>1. CASE i \in 1 .. b
    <3>1. driver.start + i \in 1 .. RingCapacity /\ (driver.start + i - 1) % RingCapacity = driver.start + i - 1
      <4>1. b \in 0 .. k /\ driver.start + b <= RingCapacity
        BY <1>5, Zenon DEF Taken
      <4>2. b \in Int /\ i \in Int /\ 1 <= i /\ i <= b /\ driver.start \in Nat
        BY <1>1, <1>4, <2>1, <4>1, SMTT(30)
      <4>3. driver.start + i \in 1 .. RingCapacity
        BY RingConstants, <1>1, <4>1, <4>2, SMTT(30)
      <4>4. (driver.start + i - 1) % RingCapacity = driver.start + i - 1
        BY <1>5, <2>1, ZenonT(40) DEF Taken
      <4> QED
        BY <4>3, <4>4, Zenon
    <3>2. read[i] = bytes[driver.start + i]
      BY <1>9, <2>1, Zenon
    <3>3. bytes[driver.start + i] = driver.buffer[(driver.start + i) - 1]
      BY <1>6, <3>1, Zenon
    <3>4. (driver.start + i) - 1 = driver.start + i - 1
      BY <1>1, <1>4, <1>5, <2>1, SMTT(30) DEF Taken
    <3> QED
      BY <3>1, <3>2, <3>3, <3>4, Zenon
  <2>2. CASE i \in b + 1 .. k
    <3>1. i - b \in 1 .. RingCapacity /\ (driver.start + i - 1) % RingCapacity = (i - b) - 1
      BY RingConstants, <1>1, <1>4, <1>5, <2>2, SMTT(30) DEF Taken
    <3> QED
      BY <1>6, <1>9, <2>2, <3>1, Zenon
  <2> QED
    BY <1>1, <1>4, <1>5, <2>1, <2>2, SMTT(30) DEF Taken
<1>11. /\ rest \in Seq(RingBytes) /\ Len(rest) = driver.used - k
       /\ \A i \in 1 .. driver.used - k : rest[i] = driver.contents[k + i]
  <2>1. k + 1 \in 1 .. Len(driver.contents) + 1 /\ Len(driver.contents) \in (k + 1) - 1 .. Len(driver.contents)
    BY <1>1, <1>4, SMTT(30)
  <2>2. /\ rest \in Seq(RingBytes) /\ Len(rest) = Len(driver.contents) - (k + 1) + 1
        /\ \A i \in 1 .. Len(driver.contents) - (k + 1) + 1 : rest[i] = driver.contents[(k + 1) + i - 1]
    <3>1. driver.contents \in Seq(RingBytes)
      BY <1>1, Zenon
    <3> QED
      BY <2>1, <3>1, Part, ZenonT(60)
  <2>3. Len(driver.contents) - (k + 1) + 1 = driver.used - k /\ \A i \in Nat : (k + 1) + i - 1 = k + i
    BY <1>1, <1>4, SMTT(30)
  <2> HIDE DEF rest
  <2>4. rest \in Seq(RingBytes) /\ Len(rest) = driver.used - k
    BY <2>2, <2>3, Zenon
  <2>5. ASSUME NEW i \in 1 .. driver.used - k
        PROVE  rest[i] = driver.contents[k + i]
    <3>1. i \in Nat /\ i \in 1 .. Len(driver.contents) - (k + 1) + 1
      BY <1>1, <1>4, <2>3, SMTT(30)
    <3>2. (k + 1) + i - 1 = k + i
      BY <2>3, <3>1, Zenon
    <3>3. rest[i] = driver.contents[(k + 1) + i - 1]
      BY <2>2, <3>1, Zenon
    <3> QED
      BY <3>2, <3>3, Zenon
  <2> QED
    BY <2>4, <2>5, Zenon
<1> HIDE DEF rest
<1>12. RingTypeOK'
  <2>1. (driver.start + k) % RingCapacity \in 0 .. RingCapacity - 1
    BY <1>5, Zenon DEF Taken
  <2>2. driver.used - k \in 0 .. RingCapacity
    BY RingConstants, <1>1, <1>4, SMTT(30)
  <2>3. rest \in Seq(RingBytes) /\ driver.buffer \in [0 .. RingCapacity - 1 -> RingBytes]
    BY <1>1, <1>11, Zenon
  <2> HIDE DEF out
  <2> QED
    BY <1>3, <2>1, <2>2, <2>3, Zenon DEF RingTypeOK, Ring!r, Ring!Positions
<1>13. RingHeld'
  <2>1. \A i \in 1 .. driver.used - k :
          rest[i] = driver.buffer[(((driver.start + k) % RingCapacity) + i - 1) % RingCapacity]
    <3> SUFFICES ASSUME NEW i \in 1 .. driver.used - k
                  PROVE  driver.contents[k + i] = driver.buffer[(driver.start + (k + i) - 1) % RingCapacity]
      BY <1>5, <1>11, Zenon DEF Taken
    <3>1. k + i \in 1 .. driver.used
      BY <1>1, <1>4, SMTT(30)
    <3> QED
      BY <3>1, Zenon DEF RingInv, RingHeld
  <2> QED
    BY <1>3, <1>11, <2>1, Zenon DEF RingHeld, Ring!r
<1>14. Ring!FirstInFirstOut
  <2>1. driver.contents = read \o rest
    <3>1. /\ read \o rest \in Seq(RingBytes) /\ Len(read \o rest) = Len(read) + Len(rest)
          /\ \A i \in 1 .. Len(read) : (read \o rest)[i] = read[i]
          /\ \A i \in Len(read) + 1 .. Len(read) + Len(rest) : (read \o rest)[i] = rest[i - Len(read)]
      <4>1. read \in Seq(RingBytes) /\ rest \in Seq(RingBytes)
        BY <1>9, <1>11, Zenon
      <4> QED
        BY <4>1, Concatenated, ZenonT(60)
    <3>2. Len(read \o rest) = Len(driver.contents)
      BY <1>1, <1>4, <1>9, <1>11, <3>1, SMTT(30)
    <3>3. ASSUME NEW i \in 1 .. Len(driver.contents)
          PROVE  driver.contents[i] = (read \o rest)[i]
      <4>1. CASE i \in 1 .. k
        BY <1>9, <1>10, <3>1, <4>1, Zenon
      <4>2. CASE i \in k + 1 .. driver.used
        <5>1. i - k \in 1 .. driver.used - k /\ k + (i - k) = i /\ i \in Len(read) + 1 .. Len(read) + Len(rest)
          BY <1>1, <1>4, <1>9, <1>11, <4>2, SMTT(30)
        <5> QED
          BY <1>9, <1>11, <3>1, <5>1, Zenon
      <4>3. i \in 1 .. k \/ i \in k + 1 .. driver.used
        BY <1>1, <1>4, SMTT(30)
      <4> QED
        BY <4>1, <4>2, <4>3, Zenon
    <3> QED
      BY <1>1, <3>1, <3>2, <3>3, SameElements, Zenon
  <2>2. /\ driver'.out.call = "drain" /\ driver'.out.bytes = read /\ driver'.out.result = k
        /\ driver'.contents = rest
    BY <1>3
  <2> QED
    BY <1>9, <2>1, <2>2, ZenonT(40) DEF Ring!FirstInFirstOut, Ring!r
<1> QED
  BY <1>12, <1>13, <1>14, Zenon DEF RingInv

\* The ring buffer is a bounded queue: drain returns the oldest bytes, in the
\* order in which add took them, and says how many, and add refuses exactly what
\* does not fit, for every capacity and slices of every length.
THEOREM RingBufferIsFifo == DriverSpec => FirstInFirstOut
<1>1. DriverInit => (kind = "ring" => RingInv)
  BY RingInit, SMTT(30) DEF DriverInit
<1>2. ASSUME kind = "ring" => RingInv, [DriverNext]_vars, kind' = "ring"
      PROVE  RingInv' /\ (Ring!FirstInFirstOut \/ UNCHANGED vars)
  <2>1. CASE UNCHANGED vars
    <3>1. UNCHANGED driver /\ kind = "ring"
      BY <1>2, <2>1, Zenon DEF vars
    <3>2. RingInv'
      BY <1>2, <3>1, Zenon DEF RingInv, RingTypeOK, RingHeld
    <3> QED BY <2>1, <3>2, Zenon
  <2>2. CASE DriverNext
    <3>1. RingInv /\ Ring!Next
      BY <1>2, <2>2, Zenon DEF DriverNext
    <3>2. CASE \E len \in 0 .. MaxSlice : \E bytes \in [1 .. len -> RingBytes] : Ring!add(bytes)
      <4>0. PICK len \in 0 .. MaxSlice : \E bytes \in [1 .. len -> RingBytes] : Ring!add(bytes)
        BY <3>2, Zenon
      <4>1. PICK bytes \in [1 .. len -> RingBytes] : Ring!add(bytes)
        BY <4>0, Zenon
      <4>2. len \in Nat
        OBVIOUS
      <4>3. bytes \in Seq(RingBytes)
        BY <4>2, SMTT(30)
      <4> QED BY <3>1, <4>1, <4>3, RingAdd, Zenon
    <3>3. CASE \E len \in 0 .. MaxSlice : Ring!drain(len)
      <4>1. PICK len \in 0 .. MaxSlice : Ring!drain(len)
        BY <3>3, Zenon
      <4>2. len \in Nat
        BY SMTT(30)
      <4> QED BY <3>1, <4>1, <4>2, RingDrain, Zenon
    <3> QED BY <3>1, <3>2, <3>3, Zenon DEF Ring!Next
  <2> QED BY <1>2, <2>1, <2>2, Zenon
<1>3. (kind = "ring" => RingInv) /\ [DriverNext]_vars => (kind = "ring" => RingInv)'
  BY <1>2, SMTT(30)
<1>4. (kind = "ring" => RingInv) /\ [DriverNext]_vars => [kind = "ring" => Ring!FirstInFirstOut]_vars
  <2> SUFFICES ASSUME kind = "ring" => RingInv, [DriverNext]_vars, kind = "ring"
               PROVE  Ring!FirstInFirstOut \/ UNCHANGED vars
    OBVIOUS
  <2>1. kind' = "ring"
    BY Zenon DEF DriverNext, vars
  <2> QED BY <1>2, <2>1, Zenon
<1> QED BY <1>1, <1>3, <1>4, PTL DEF DriverSpec, FirstInFirstOut
=============================================================================
