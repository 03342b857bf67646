------------------------- MODULE VirtQueueRingProofs ------------------------
(***************************************************************************)
(* What the device finds in the memory it shares with the driver: the two  *)
(* wrapping rings hold every token once, and the chain of a token that is  *)
(* the device's describes the request that the caller added.  With that,   *)
(* VirtQueue implements AbstractQueue.                                     *)
(***************************************************************************)
EXTENDS VirtQueueProofs, VirtQueueRefinement

-----------------------------------------------------------------------------
(* Arithmetic of indices and slots *)

\* When an index wraps its slot is the one that follows: the modulus of the
\* indices is a multiple of the size.  Indices less than the size apart have
\* different slots.
LEMMA SlotFacts ==
  /\ \A y \in Nat : Slot(IndexModulus + y) = Slot(y)
  /\ \A x \in Nat : \A d \in 1 .. SIZE - 1 : Slot(x + d) # Slot(x)
<1>1. SIZE \in Nat /\ SIZE > 0 /\ IndexModulus \in Nat /\ IndexModulus % SIZE = 0
  BY SizeAssumption
<1>2. \A y \in Nat : Slot(IndexModulus + y) = Slot(y)
  BY <1>1, Multiple, Zenon DEF Slot
<1>3. \A x \in Nat : \A d \in 1 .. SIZE - 1 : Slot(x + d) # Slot(x)
  BY <1>1, Apart, Zenon DEF Slot
<1> QED BY <1>2, <1>3

-----------------------------------------------------------------------------
(* The part of a ring between the reader's and the writer's index *)

Distance(f, t) == IF t >= f THEN t - f ELSE t - f + IndexModulus

LEMMA WindowFacts ==
  ASSUME NEW ring \in [Desc -> Desc], NEW f \in Index, NEW t \in Index
  PROVE  /\ Window(ring, f, t) \in Seq(Desc)
         /\ Len(Window(ring, f, t)) = Distance(f, t) /\ Distance(f, t) \in Nat
         /\ \A i \in 1 .. Distance(f, t) :
              Window(ring, f, t)[i] = ring[Slot(f + i - 1)] /\ Slot(f + i - 1) \in Desc
         /\ Window(ring, f, t) = [i \in 1 .. Distance(f, t) |-> ring[Slot(f + i - 1)]]
<1>1. (t - f) % IndexModulus = Distance(f, t) /\ Distance(f, t) \in Nat
  <2>1. IndexModulus \in Nat /\ IndexModulus > 0 /\ Index = 0 .. IndexModulus - 1
    BY SizeAssumption DEF Index
  <2>2. (t - f) % IndexModulus = Distance(f, t)
    BY <2>1, Wrapped DEF Distance
  <2> QED BY <2>1, <2>2 DEF Distance
<1>2. \A i \in 1 .. Distance(f, t) : Slot(f + i - 1) \in Desc
  <2>1. \A i \in 1 .. Distance(f, t) : f + i - 1 \in Nat
    BY <1>1 DEF Index
  <2>2. \A x \in Nat : x % SIZE \in Desc
    BY SizeAssumption DEF Desc
  <2> QED BY <2>1, <2>2, SMTT(30) DEF Slot
<1>3. Window(ring, f, t) = [i \in 1 .. Distance(f, t) |-> ring[Slot(f + i - 1)]]
  BY <1>1 DEF Window
<1>4. \A i \in 1 .. Distance(f, t) : ring[Slot(f + i - 1)] \in Desc
  BY <1>2, SMTT(30)
<1> HIDE DEF Distance
<1> QED BY <1>1, <1>2, <1>3, <1>4, SMTT(30)

\* The reader takes the first.
LEMMA WindowRead ==
  ASSUME NEW ring \in [Desc -> Desc], NEW f \in Index, NEW t \in Index, f # t
  PROVE  /\ Len(Window(ring, f, t)) > 0
         /\ Window(ring, f, t)[1] = ring[Slot(f)]
         /\ Window(ring, Inc(f), t) = Rest(Window(ring, f, t))
<1>1. Inc(f) \in Index /\ Inc(f) = IF f + 1 = IndexModulus THEN 0 ELSE f + 1
  <2>1. IndexModulus \in Nat /\ IndexModulus > 0 /\ Index = 0 .. IndexModulus - 1
    BY SizeAssumption DEF Index
  <2>2. Inc(f) = IF f + 1 = IndexModulus THEN 0 ELSE f + 1
    BY <2>1, Wrapped, SMTT(30) DEF Inc
  <2> QED BY <2>2, IndexFacts
<1>2. Distance(f, t) > 0 /\ Distance(f, t) \in Nat /\ Distance(Inc(f), t) = Distance(f, t) - 1
  BY <1>1, SizeAssumption, SMTT(30) DEF Distance, Index
<1>3. \A i \in 1 .. Distance(f, t) - 1 : Slot(Inc(f) + i - 1) = Slot(f + (i + 1) - 1)
  <2> TAKE i \in 1 .. Distance(f, t) - 1
  <2>1. CASE f + 1 = IndexModulus
    <3>1. Slot(IndexModulus + (i - 1)) = Slot(i - 1)
      BY <1>2, SlotFacts
    <3>2. Inc(f) + i - 1 = i - 1 /\ f + (i + 1) - 1 = IndexModulus + (i - 1)
      BY <1>1, <1>2, <2>1, SizeAssumption, SMTT(30) DEF Index
    <3> QED BY <3>1, <3>2
  <2>2. CASE f + 1 # IndexModulus
    <3>1. Inc(f) + i - 1 = f + (i + 1) - 1
      BY <1>1, <1>2, <2>2, SMTT(30) DEF Index
    <3> QED BY <3>1
  <2> QED BY <2>1, <2>2
<1> DEFINE s == Window(ring, f, t)
           u == Window(ring, Inc(f), t)
<1>4. /\ Len(s) = Distance(f, t)
      /\ \A i \in 1 .. Distance(f, t) : s[i] = ring[Slot(f + i - 1)]
  BY WindowFacts
<1>5. u = [i \in 1 .. Distance(f, t) - 1 |-> ring[Slot(Inc(f) + i - 1)]]
  <2>1. u = [i \in 1 .. Distance(Inc(f), t) |-> ring[Slot(Inc(f) + i - 1)]]
    BY <1>1, WindowFacts, Zenon
  <2> QED BY <1>2, <2>1
<1> HIDE DEF s, u
<1>6. \A i \in 1 .. Distance(f, t) - 1 : ring[Slot(Inc(f) + i - 1)] = s[i + 1]
  <2> TAKE i \in 1 .. Distance(f, t) - 1
  <2>1. i + 1 \in 1 .. Distance(f, t)
    BY <1>2
  <2> QED BY <1>3, <1>4, <2>1
<1>7. u = Rest(s)
  BY <1>4, <1>5, <1>6 DEF Rest
<1>8. s[1] = ring[Slot(f)]
  <2>1. 1 \in 1 .. Distance(f, t) /\ f + 1 - 1 = f
    BY <1>2 DEF Index
  <2> QED BY <1>4, <2>1
<1> QED BY <1>2, <1>4, <1>7, <1>8, SMTT(30) DEF s, u

\* What the writer puts in its slot is not in the window as long as there is
\* room, and it is the last of the window when the writer moves its index.
LEMMA WindowWrite ==
  ASSUME NEW ring \in [Desc -> Desc], NEW f \in Index, NEW t \in Index, NEW h \in Desc,
         Len(Window(ring, f, t)) < SIZE
  PROVE  Window([ring EXCEPT ![Slot(t)] = h], f, t) = Window(ring, f, t)
<1> DEFINE written == [ring EXCEPT ![Slot(t)] = h]
<1>0. /\ SIZE \in Nat /\ IndexModulus \in Nat /\ f \in Nat /\ t \in Nat
      /\ Distance(f, t) \in Nat /\ Distance(f, t) < SIZE
  BY SizeAssumption, WindowFacts, SMTT(30) DEF Index
<1>1. Slot(f + Distance(f, t)) = Slot(t)
  <2>1. CASE t >= f
    <3>1. f + Distance(f, t) = t
      BY <1>0, <2>1 DEF Distance
    <3> QED BY <3>1
  <2>2. CASE ~(t >= f)
    <3>1. f + Distance(f, t) = IndexModulus + t
      BY <1>0, <2>2, SMTT(30) DEF Distance
    <3> QED BY <1>0, <3>1, SlotFacts
  <2> QED BY <2>1, <2>2
<1>2. \A i \in 1 .. Distance(f, t) : Slot(f + i - 1) # Slot(t)
  <2> TAKE i \in 1 .. Distance(f, t)
  <2>1. /\ f + i - 1 \in Nat /\ Distance(f, t) - i + 1 \in 1 .. SIZE - 1
        /\ (f + i - 1) + (Distance(f, t) - i + 1) = f + Distance(f, t)
    BY <1>0, SMTT(30)
  <2> QED BY <1>1, <2>1, SlotFacts
<1>3. written \in [Desc -> Desc] /\ \A j \in Desc : j # Slot(t) => written[j] = ring[j]
  BY Zenon
<1> HIDE DEF written
<1>4. \A i \in 1 .. Distance(f, t) : written[Slot(f + i - 1)] = ring[Slot(f + i - 1)]
  BY <1>2, <1>3, WindowFacts
<1>5. /\ Window(written, f, t) = [i \in 1 .. Distance(f, t) |-> written[Slot(f + i - 1)]]
      /\ Window(ring, f, t) = [i \in 1 .. Distance(f, t) |-> ring[Slot(f + i - 1)]]
  BY <1>3, WindowFacts, Zenon
<1> QED BY <1>4, <1>5, Zenon DEF written

LEMMA WindowPush ==
  ASSUME NEW ring \in [Desc -> Desc], NEW f \in Index, NEW t \in Index,
         Len(Window(ring, f, t)) < SIZE
  PROVE  Window(ring, f, Inc(t)) = Append(Window(ring, f, t), ring[Slot(t)])
<1>0. /\ SIZE \in Nat /\ IndexModulus \in Nat /\ IndexModulus > SIZE /\ IndexModulus > 0
      /\ f \in Nat /\ t \in Nat /\ f < IndexModulus /\ t < IndexModulus
      /\ Distance(f, t) \in Nat /\ Distance(f, t) < SIZE
  BY SizeAssumption, WindowFacts DEF Index
<1>1. Inc(t) \in Index /\ Inc(t) = IF t + 1 = IndexModulus THEN 0 ELSE t + 1
  <2>1. Index = 0 .. IndexModulus - 1
    BY DEF Index
  <2>2. Inc(t) = IF t + 1 = IndexModulus THEN 0 ELSE t + 1
    BY <1>0, <2>1, Wrapped DEF Inc
  <2> QED BY <2>2, IndexFacts
<1>2. Distance(f, Inc(t)) = Distance(f, t) + 1
  <2>1. CASE t + 1 = IndexModulus
    <3>1. Inc(t) = 0
      BY <1>1, <2>1
    <3> QED BY <1>0, <2>1, <3>1 DEF Distance
  <2>2. CASE t + 1 # IndexModulus
    <3>1. Inc(t) = t + 1
      BY <1>1, <2>2
    <3> QED BY <1>0, <2>2, <3>1 DEF Distance
  <2> QED BY <2>1, <2>2
<1>3. Slot(f + Distance(f, t)) = Slot(t)
  <2>1. CASE t >= f
    <3>1. f + Distance(f, t) = t
      BY <1>0, <2>1 DEF Distance
    <3> QED BY <3>1
  <2>2. CASE ~(t >= f)
    <3>1. f + Distance(f, t) = IndexModulus + t
      BY <1>0, <2>2 DEF Distance
    <3> QED BY <1>0, <3>1, SlotFacts
  <2> QED BY <2>1, <2>2
<1> DEFINE s == Window(ring, f, t)
           u == Window(ring, f, Inc(t))
           D == Distance(f, t)
<1>4. /\ s \in Seq(Desc) /\ Len(s) = D
      /\ \A i \in 1 .. D : s[i] = ring[Slot(f + i - 1)]
  BY WindowFacts, Zenon
<1>5. /\ u \in Seq(Desc) /\ Len(u) = Distance(f, Inc(t))
      /\ \A i \in 1 .. Distance(f, Inc(t)) : u[i] = ring[Slot(f + i - 1)]
  BY <1>1, WindowFacts, Zenon
<1>6. D \in Nat /\ Len(u) = D + 1 /\ f + (D + 1) - 1 = f + D /\ D + 1 \in 1 .. D + 1
  BY <1>0, <1>2, <1>5, SMTT(30)
<1>7. u[D + 1] = ring[Slot(t)]
  BY <1>2, <1>3, <1>5, <1>6
<1>8. ring[Slot(t)] \in Desc
  BY IndexFacts, SMTT(30)
<1> HIDE DEF s, u, D
<1>9. \A i \in 1 .. D : u[i] = s[i]
  BY <1>4, <1>5, <1>2, <1>6, SMTT(30), SMTT(60) DEF D
<1>10. u = Append(s, ring[Slot(t)])
  <2>1. /\ Append(s, ring[Slot(t)]) \in Seq(Desc) /\ Len(Append(s, ring[Slot(t)])) = D + 1
        /\ \A i \in 1 .. D : Append(s, ring[Slot(t)])[i] = s[i]
        /\ Append(s, ring[Slot(t)])[D + 1] = ring[Slot(t)]
    BY <1>4, <1>8, AppendFacts, SMTT(30)
  <2>2. \A i \in 1 .. D + 1 : u[i] = Append(s, ring[Slot(t)])[i]
    BY <1>6, <1>7, <1>9, <2>1
  <2> QED BY <1>5, <1>6, <2>1, <2>2, SMTT(30), SMTT(60)
<1> QED BY <1>10 DEF s, u

\* A list of tokens that misses one is shorter than the queue.
LEMMA Room ==
  ASSUME NEW s \in Seq(Desc), IsInjective(s), NEW d \in Desc, d \notin Range(s)
  PROVE  Len(s) < SIZE
<1>1. <<d>> \in Seq(Desc) /\ Len(<<d>>) = 1 /\ IsInjective(<<d>>) /\ Range(<<d>>) = {d}
  BY DEF IsInjective, Range
<1>2. Len(s) + Len(<<d>>) <= SIZE
  BY <1>1, Pigeonhole, Zenon
<1> QED BY <1>1, <1>2, SizeAssumption

-----------------------------------------------------------------------------
(* Every token is in one place: offered to the device, held by it, returned *)

Places(a, held, r, tokens) ==
  /\ a \in Seq(Desc) /\ held \subseteq Desc /\ r \in Seq(Desc) /\ tokens \subseteq Desc
  /\ IsInjective(a) /\ IsInjective(r)
  /\ Range(a) \cap held = {} /\ Range(a) \cap Range(r) = {} /\ held \cap Range(r) = {}
  /\ Range(a) \cup held \cup Range(r) = tokens

LEMMA PlacesOffer ==
  ASSUME NEW a, NEW held, NEW r, NEW tokens, Places(a, held, r, tokens),
         NEW h \in Desc, h \notin tokens
  PROVE  Len(a) < SIZE /\ Places(Append(a, h), held, r, tokens \cup {h})
<1>1. /\ a \in Seq(Desc) /\ IsInjective(a) /\ h \notin Range(a) /\ h \notin held
      /\ h \notin Range(r)
  BY Zenon DEF Places
<1>2. Len(a) < SIZE
  BY <1>1, Room, Zenon
<1>3. /\ Append(a, h) \in Seq(Desc) /\ Range(Append(a, h)) = Range(a) \cup {h}
      /\ IsInjective(Append(a, h))
  BY <1>1, AppendFacts, Zenon
<1> QED BY <1>1, <1>2, <1>3 DEF Places

LEMMA PlacesTake ==
  ASSUME NEW a, NEW held, NEW r, NEW tokens, Places(a, held, r, tokens), Len(a) > 0
  PROVE  Places(Rest(a), held \cup {a[1]}, r, tokens)
<1>1. a \in Seq(Desc) /\ IsInjective(a)
  BY DEF Places
<1>2. /\ Rest(a) \in Seq(Desc) /\ Range(a) = Range(Rest(a)) \cup {a[1]}
      /\ IsInjective(Rest(a)) /\ a[1] \notin Range(Rest(a))
  BY <1>1, RestFacts, Zenon
<1>3. a[1] \in Desc
  BY <1>1
<1> QED BY <1>2, <1>3 DEF Places

LEMMA PlacesReturn ==
  ASSUME NEW a, NEW held, NEW r, NEW tokens, Places(a, held, r, tokens), NEW h \in held
  PROVE  Len(r) < SIZE /\ Places(a, held \ {h}, Append(r, h), tokens)
<1>1. r \in Seq(Desc) /\ IsInjective(r) /\ h \notin Range(a) /\ h \notin Range(r) /\ h \in Desc
  BY Zenon DEF Places
<1>2. Len(r) < SIZE
  BY <1>1, Room, Zenon
<1>3. /\ Append(r, h) \in Seq(Desc) /\ Range(Append(r, h)) = Range(r) \cup {h}
      /\ IsInjective(Append(r, h))
  BY <1>1, AppendFacts, Zenon
<1> QED BY <1>1, <1>2, <1>3 DEF Places

LEMMA PlacesCollect ==
  ASSUME NEW a, NEW held, NEW r, NEW tokens, Places(a, held, r, tokens), Len(r) > 0
  PROVE  Places(a, held, Rest(r), tokens \ {r[1]})
<1>1. r \in Seq(Desc) /\ IsInjective(r)
  BY DEF Places
<1>2. /\ Rest(r) \in Seq(Desc) /\ Range(r) = Range(Rest(r)) \cup {r[1]}
      /\ IsInjective(Rest(r)) /\ r[1] \notin Range(Rest(r))
  BY <1>1, RestFacts, Zenon
<1>3. r[1] \in Desc
  BY <1>1
<1> QED BY <1>2, <1>3 DEF Places

Tokens == {t \in Desc : outstanding[t] # None}

RingInv ==
  /\ avail.idx = avail_idx
  /\ Places(Available, device.held, Returned, Tokens)
  /\ pc = "avail_idx" => avail.ring[Slot(avail_idx)] = head
  /\ pc \in {"recycle", "recycle_indirect"} => Len(Returned) > 0 /\ Returned[1] = head

\* What a step does to the places of the tokens.
Still == UNCHANGED <<Available, device.held, Returned>>
Offered == Available' = Append(Available, head) /\ UNCHANGED <<device.held, Returned>>
Taken ==
  /\ Len(Available) > 0
  /\ Available' = Rest(Available) /\ device.held' = device.held \cup {Available[1]}
  /\ UNCHANGED Returned
GivenBack(h) ==
  /\ h \in device.held
  /\ device.held' = device.held \ {h} /\ Returned' = Append(Returned, h)
  /\ UNCHANGED Available
Collected ==
  /\ Len(Returned) > 0 /\ Returned[1] = head
  /\ Returned' = Rest(Returned) /\ UNCHANGED <<Available, device.held>>

\* The steps that touch no ring.
LEMMA RingFrame ==
  ASSUME RingInv, UNCHANGED <<outstanding, device.held, device.avail_idx, avail.ring, avail.idx,
                              avail_idx, used.ring, used.idx, last_used_idx>>,
         pc' = "avail_idx" => pc = "avail_idx" /\ UNCHANGED head,
         pc' \in {"recycle", "recycle_indirect"} =>
           \/ pc \in {"recycle", "recycle_indirect"} /\ UNCHANGED head
           \/ Len(Returned) > 0 /\ Returned[1] = head'
  PROVE  RingInv' /\ Still
<1>1. UNCHANGED <<Available, Returned, Tokens>>
  BY DEF Available, Returned, Tokens, Window
<1>2. Places(Available, device.held, Returned, Tokens)'
  BY <1>1 DEF RingInv, Places
<1>3. avail.idx' = avail_idx' /\ (pc' = "avail_idx" => avail.ring'[Slot(avail_idx')] = head')
  BY DEF RingInv
<1>4. pc' \in {"recycle", "recycle_indirect"} => Len(Returned') > 0 /\ Returned'[1] = head'
  BY <1>1 DEF RingInv
<1> QED BY <1>1, <1>2, <1>3, <1>4, SMTT(30), SMTT(60) DEF RingInv, Still

\* The steps of the driver that change no ring: all but the last two of add and
\* the end of pop_used.
LEMMA RingQuiet ==
  ASSUME IInv, RingInv,
         \/ \E r \in Requests : AddBegin(r)
         \/ AddDirect \/ AddDirectEnd \/ AddIndirect \/ Notify \/ Recycle
         \/ \E t \in Desc : PopBegin(t)
         \/ Sleep \/ Wake \/ \E enable \in BOOLEAN : SetDevNotify(enable)
         \/ UNCHANGED vars
  PROVE  RingInv' /\ Still
<1>1. ASSUME NEW r \in Requests, AddBegin(r) PROVE RingInv' /\ Still
  <2>1. pc' \in {"add_direct", "add_indirect"} /\ UNCHANGED <<outstanding, avail, used, device, fields>>
    BY <1>1, Zenon DEF AddBegin, Goto
  <2> QED BY <2>1, RingFrame DEF fields
<1>2. CASE AddDirect
  <2>1. /\ pc' = pc /\ pc = "add_direct"
        /\ UNCHANGED <<outstanding, avail, used, device, avail_idx, last_used_idx>>
    BY <1>2 DEF AddDirect
  <2> QED BY <2>1, RingFrame
<1>3. CASE AddDirectEnd
  <2>1. /\ pc' = "avail_ring"
        /\ UNCHANGED <<outstanding, avail, used, device, avail_idx, last_used_idx>>
    BY <1>3 DEF AddDirectEnd, Goto
  <2> QED BY <2>1, RingFrame
<1>4. CASE AddIndirect
  <2>1. pc' \in {"avail_ring", "panic"} /\ UNCHANGED <<avail_idx, last_used_idx>>
    BY <1>4, Zenon DEF AddIndirect, Goto, fields
  <2>2. UNCHANGED <<outstanding, avail, used, device>>
    BY <1>4 DEF AddIndirect
  <2> QED BY <2>1, <2>2, RingFrame, Zenon
<1>5. CASE Notify
  <2>1. pc' = "idle" /\ UNCHANGED <<outstanding, avail, used, device, avail_idx, last_used_idx>>
    BY <1>5 DEF Notify, Return, fields
  <2> QED BY <2>1, RingFrame
<1>6. CASE Recycle
  <2>1. /\ pc = "recycle" /\ pc' \in {"recycle", "panic"} /\ UNCHANGED head
        /\ UNCHANGED <<outstanding, avail, used, device, avail_idx, last_used_idx>>
    BY <1>6, SMTT(30) DEF Recycle, Goto
  <2> QED BY <2>1, RingFrame, SMTT(30), SMTT(60)
<1>7. ASSUME NEW t \in Desc, PopBegin(t) PROVE RingInv' /\ Still
  <2>1. /\ pc' \in {"recycle", "recycle_indirect"} /\ head' = t
        /\ last_used_idx # used.idx /\ used.ring[Slot(last_used_idx)] = t
    BY <1>7, Zenon DEF PopBegin, Goto, can_pop
  <2>2. UNCHANGED <<outstanding, avail, used, device, avail_idx, last_used_idx>>
    BY <1>7, Zenon DEF PopBegin
  <2>3. Len(Returned) > 0 /\ Returned[1] = t
    BY <2>1, RingTypes, WindowRead, Zenon DEF Returned
  <2> QED BY <2>1, <2>2, <2>3, RingFrame, Zenon
<1>8. CASE Sleep \/ Wake
  <2>1. /\ pc' \in {"asleep", "idle"}
        /\ UNCHANGED <<outstanding, avail, used, device, avail_idx, last_used_idx>>
    BY <1>8 DEF Sleep, Wake, Goto, fields
  <2> QED BY <2>1, RingFrame, SMTT(30), SMTT(60)
<1>9. ASSUME NEW enable \in BOOLEAN, SetDevNotify(enable) PROVE RingInv' /\ Still
  <2>1. /\ pc' = pc /\ pc = "idle"
        /\ UNCHANGED <<outstanding, used, device, avail_idx, last_used_idx>>
    BY <1>9 DEF SetDevNotify, call, fields
  <2>2. UNCHANGED <<avail.ring, avail.idx>>
    BY <1>9 DEF SetDevNotify, IInv, TypeOK
  <2> QED BY <2>1, <2>2, RingFrame
<1>10. CASE UNCHANGED vars
  <2>1. UNCHANGED <<pc, head, outstanding, avail, used, device, avail_idx, last_used_idx>>
    BY <1>10 DEF vars, call, fields
  <2> QED BY <2>1, RingFrame
<1> QED BY <1>1, <1>2, <1>3, <1>4, <1>5, <1>6, <1>7, <1>8, <1>9, <1>10, Zenon

\* The head that add is about to offer is not with the device, so that there is
\* room for it.
LEMMA RingRoom ==
  ASSUME IInv, RingInv, AddRing \/ AddPublish
  PROVE  /\ Places(Available, device.held, Returned, Tokens) /\ avail.idx = avail_idx
         /\ head \in Desc /\ outstanding[head] = None /\ cur \in Requests /\ cur # None
         /\ Len(Available) < SIZE
         /\ Places(Append(Available, head), device.held, Returned, Tokens \cup {head})
<1>1. pc \in {"avail_ring", "avail_idx"}
  BY Zenon DEF AddRing, AddPublish
<1>2. /\ head \in Desc /\ outstanding[head] = None /\ head \notin Tokens
      /\ cur \in Requests /\ cur # None
  BY <1>1, ConstantAssumption, ZenonT(40) DEF IInv, TypeOK, ChainInv, Adding, Tokens, AddInv
<1>3. /\ Places(Available, device.held, Returned, Tokens)
      /\ avail.idx = avail_idx
  BY DEF RingInv
<1>4. /\ Len(Available) < SIZE
      /\ Places(Append(Available, head), device.held, Returned, Tokens \cup {head})
  BY <1>2, <1>3, PlacesOffer, Zenon
<1> QED BY <1>2, <1>3, <1>4, Zenon

\* add writes its head to a slot that the device does not read yet.
LEMMA RingAddRing ==
  ASSUME IInv, RingInv, AddRing
  PROVE  RingInv' /\ Still
<1>1. /\ Places(Available, device.held, Returned, Tokens) /\ avail.idx = avail_idx
      /\ head \in Desc /\ outstanding[head] = None /\ cur \in Requests /\ cur # None
      /\ Len(Available) < SIZE
      /\ Places(Append(Available, head), device.held, Returned, Tokens \cup {head})
  BY RingRoom, Zenon
<1>2. /\ pc' = "avail_idx"
      /\ UNCHANGED <<outstanding, used, device, head, avail_idx, last_used_idx>>
      /\ avail' = [avail EXCEPT !.ring[Slot(avail_idx)] = head]
  BY DEF AddRing, Goto, fields
<1>3. /\ avail.idx' = avail.idx
      /\ avail.ring' = [avail.ring EXCEPT ![Slot(avail.idx)] = head]
      /\ avail.ring'[Slot(avail.idx)] = head
  <2>1. Slot(avail_idx) \in Desc
    BY RingTypes, IndexFacts, SMTT(30)
  <2>2. avail \in [ring : [Desc -> Desc], idx : Index, flags : {0, 1}, used_event : Index]
    BY DEF IInv, TypeOK
  <2> QED BY <1>1, <1>2, <2>1, <2>2, ZenonT(40)
<1>4. Available' = Available
  <2>1. Window([avail.ring EXCEPT ![Slot(avail.idx)] = head], device.avail_idx, avail.idx)
          = Window(avail.ring, device.avail_idx, avail.idx)
    <3>1. /\ avail.ring \in [Desc -> Desc] /\ device.avail_idx \in Index /\ avail.idx \in Index
          /\ Len(Window(avail.ring, device.avail_idx, avail.idx)) < SIZE
      BY <1>1, RingTypes, Zenon DEF Available
    <3> QED BY <1>1, <3>1, WindowWrite, Zenon
  <2> QED BY <1>2, <1>3, <2>1 DEF Available
<1>5. Returned' = Returned /\ Tokens' = Tokens
  BY <1>2 DEF Returned, Tokens, Window
<1>6. Places(Available, device.held, Returned, Tokens)'
  BY <1>1, <1>2, <1>4, <1>5 DEF Places
<1> QED BY <1>1, <1>2, <1>3, <1>4, <1>5, <1>6, SMTT(30), SMTT(60) DEF RingInv, Still

\* add moves the index, and the head is offered.
LEMMA RingAddPublish ==
  ASSUME IInv, RingInv, AddPublish
  PROVE  RingInv' /\ Offered
<1>1. /\ Places(Available, device.held, Returned, Tokens) /\ avail.idx = avail_idx
      /\ head \in Desc /\ outstanding[head] = None /\ cur \in Requests /\ cur # None
      /\ Len(Available) < SIZE
      /\ Places(Append(Available, head), device.held, Returned, Tokens \cup {head})
  BY RingRoom, Zenon
<1>2. /\ pc = "avail_idx" /\ pc' = "notify" /\ avail_idx' = Inc(avail_idx)
      /\ UNCHANGED <<used, device, last_used_idx>>
      /\ avail' = [avail EXCEPT !.idx = Inc(avail_idx)]
      /\ outstanding' = [outstanding EXCEPT ![head] = cur]
  BY DEF AddPublish, Goto
<1>3. avail.idx' = Inc(avail.idx) /\ avail.ring' = avail.ring
  <2>1. avail \in [ring : [Desc -> Desc], idx : Index, flags : {0, 1}, used_event : Index]
    BY DEF IInv, TypeOK
  <2> QED BY <1>1, <1>2, <2>1
<1>4. Available' = Append(Available, head)
  <2>1. avail.ring[Slot(avail.idx)] = head
    BY <1>1, <1>2 DEF RingInv
  <2>2. Window(avail.ring, device.avail_idx, Inc(avail.idx))
          = Append(Window(avail.ring, device.avail_idx, avail.idx), avail.ring[Slot(avail.idx)])
    BY <1>1, RingTypes, WindowPush, Zenon DEF Available
  <2> QED BY <1>2, <1>3, <2>1, <2>2, SMTT(30), SMTT(60) DEF Available
<1>5. Returned' = Returned
  BY <1>2 DEF Returned, Window
<1>6. Tokens' = Tokens \cup {head}
  BY <1>1, <1>2, RingTypes DEF Tokens
<1>7. Places(Available, device.held, Returned, Tokens)'
  BY <1>1, <1>2, <1>4, <1>5, <1>6, SMTT(30), SMTT(60) DEF Places
<1> QED BY <1>1, <1>2, <1>3, <1>4, <1>5, <1>7, SMTT(30), SMTT(60) DEF RingInv, Offered

\* The end of pop_used collects the first of the returned tokens.
LEMMA RingPop ==
  ASSUME IInv, RingInv, RecycleEnd \/ RecycleIndirect
  PROVE  RingInv' /\ Collected /\ PopEnd
<1>1. pc \in {"recycle", "recycle_indirect"} /\ UNCHANGED <<used, device>>
  BY DEF RecycleEnd, RecycleIndirect
<1>2. NoPanic'
  BY RecycleEndInv, RecycleIndirectInv DEF IInv
<1>3. PopEnd /\ UNCHANGED avail_idx
  <2>1. RecycleEnd => (pc' = "panic" \/ PopEnd) /\ UNCHANGED avail_idx
    BY DEF RecycleEnd, Goto
  <2>2. RecycleIndirect => pc' = "panic" \/ (PopEnd /\ UNCHANGED avail_idx)
    BY DEF RecycleIndirect, Goto
  <2> QED BY <1>2, <2>1, <2>2, SMTT(30) DEF NoPanic
<1>4. /\ pc' = "idle" /\ last_used_idx' = Inc(last_used_idx)
      /\ avail' = IF event_idx THEN [avail EXCEPT !.used_event = Inc(last_used_idx)] ELSE avail
      /\ outstanding' = [outstanding EXCEPT ![head] = None]
  BY <1>3 DEF PopEnd, Return
<1>5. avail.ring' = avail.ring /\ avail.idx' = avail.idx
  <2>1. avail \in [ring : [Desc -> Desc], idx : Index, flags : {0, 1}, used_event : Index]
    BY SMTT(30), SMTT(60) DEF IInv, TypeOK
  <2> QED BY <1>4, <2>1
<1>6. /\ Places(Available, device.held, Returned, Tokens)
      /\ avail.idx = avail_idx /\ Len(Returned) > 0 /\ Returned[1] = head
  BY <1>1 DEF RingInv
<1>7. Places(Available, device.held, Rest(Returned), Tokens \ {head})
  BY <1>6, PlacesCollect
<1>8. Available' = Available
  BY <1>1, <1>5 DEF Available, Window
<1>9. Returned' = Rest(Returned)
  <2>1. last_used_idx # used.idx
    <3>1. Len(Returned) = Distance(last_used_idx, used.idx)
      BY RingTypes, WindowFacts, Zenon DEF Returned
    <3> QED BY <1>6, <3>1, RingTypes DEF Distance, Index
  <2>2. Window(used.ring, Inc(last_used_idx), used.idx)
          = Rest(Window(used.ring, last_used_idx, used.idx))
    BY <2>1, RingTypes, WindowRead, Zenon
  <2> QED BY <1>1, <1>4, <2>2 DEF Returned
<1>10. Tokens' = Tokens \ {head}
  BY <1>4, RingTypes DEF Tokens
<1>11. Places(Available, device.held, Returned, Tokens)'
  BY <1>1, <1>7, <1>8, <1>9, <1>10, ZenonT(40) DEF Places
<1>12. RingInv'
  BY <1>3, <1>4, <1>5, <1>6, <1>11, ZenonT(40) DEF RingInv
<1> QED BY <1>1, <1>3, <1>6, <1>8, <1>9, <1>12, Zenon DEF Collected

\* What the steps of the device leave alone.
LEMMA RingOfDriver ==
  ASSUME IInv, RingInv, Device
  PROVE  /\ UNCHANGED <<outstanding, avail, avail_idx, last_used_idx, pc, head, Tokens>>
         /\ Places(Available, device.held, Returned, Tokens)
         /\ avail.idx = avail_idx
         /\ device \in [avail_idx : Index, held : SUBSET Desc, state : {"awake", "armed", "asleep"}]
         /\ used \in [ring : [Desc -> Desc], idx : Index, flags : {0, 1}, avail_event : Index]
<1>1. UNCHANGED <<outstanding, avail, avail_idx, last_used_idx, pc, head>>
  <2>1. UNCHANGED driverVars
    BY Zenon DEF Device, DeviceTake, DeviceUse, DeviceSuppress, DeviceArm, DeviceCheck, DeviceWake
  <2> QED BY <2>1 DEF driverVars, call, fields
<1>2. /\ Places(Available, device.held, Returned, Tokens)
      /\ avail.idx = avail_idx
      /\ device \in [avail_idx : Index, held : SUBSET Desc, state : {"awake", "armed", "asleep"}]
      /\ used \in [ring : [Desc -> Desc], idx : Index, flags : {0, 1}, avail_event : Index]
  BY DEF RingInv, IInv, TypeOK
<1>3. Tokens' = Tokens
  BY <1>1 DEF Tokens
<1> QED BY <1>1, <1>2, <1>3

\* The device moves a token from the available ring to its own ...
LEMMA RingTake ==
  ASSUME IInv, RingInv, DeviceTake
  PROVE  RingInv' /\ Taken
<1>1. /\ UNCHANGED <<outstanding, avail, avail_idx, last_used_idx, pc, head, Tokens>>
      /\ Places(Available, device.held, Returned, Tokens)
      /\ avail.idx = avail_idx
      /\ device \in [avail_idx : Index, held : SUBSET Desc, state : {"awake", "armed", "asleep"}]
      /\ used \in [ring : [Desc -> Desc], idx : Index, flags : {0, 1}, avail_event : Index]
  BY RingOfDriver, Zenon DEF Device
<1>2. /\ device.avail_idx # avail.idx /\ used' = used
      /\ device.avail_idx' = Inc(device.avail_idx)
      /\ device.held' = device.held \cup {avail.ring[Slot(device.avail_idx)]}
  BY <1>1 DEF DeviceTake
<1>3. /\ Len(Available) > 0 /\ Available[1] = avail.ring[Slot(device.avail_idx)]
      /\ Window(avail.ring, Inc(device.avail_idx), avail.idx) = Rest(Available)
  <2>1. avail.ring \in [Desc -> Desc] /\ device.avail_idx \in Index /\ avail.idx \in Index
    BY RingTypes, Zenon
  <2>2. /\ Len(Window(avail.ring, device.avail_idx, avail.idx)) > 0
        /\ Window(avail.ring, device.avail_idx, avail.idx)[1] = avail.ring[Slot(device.avail_idx)]
        /\ Window(avail.ring, Inc(device.avail_idx), avail.idx)
             = Rest(Window(avail.ring, device.avail_idx, avail.idx))
    BY <1>2, <2>1, WindowRead, Zenon
  <2> QED BY <2>2, Zenon DEF Available
<1>4. Available' = Rest(Available)
  BY <1>1, <1>2, <1>3 DEF Available
<1>5. Returned' = Returned
  BY <1>1, <1>2 DEF Returned, Window
<1>6. Places(Rest(Available), device.held \cup {Available[1]}, Returned, Tokens)
  BY <1>1, <1>3, PlacesTake
<1>7. Places(Available, device.held, Returned, Tokens)'
  BY <1>1, <1>2, <1>3, <1>4, <1>5, <1>6, ZenonT(40) DEF Places
<1>8. Taken
  BY <1>2, <1>3, <1>4, <1>5, Zenon DEF Taken
<1> QED BY <1>1, <1>5, <1>7, <1>8 DEF RingInv

\* ... and from its own to the used ring.
LEMMA RingUse ==
  ASSUME IInv, RingInv, NEW h \in Desc, DeviceUse(h)
  PROVE  RingInv' /\ GivenBack(h)
<1>1. /\ UNCHANGED <<outstanding, avail, avail_idx, last_used_idx, pc, head, Tokens>>
      /\ Places(Available, device.held, Returned, Tokens)
      /\ avail.idx = avail_idx
      /\ device \in [avail_idx : Index, held : SUBSET Desc, state : {"awake", "armed", "asleep"}]
      /\ used \in [ring : [Desc -> Desc], idx : Index, flags : {0, 1}, avail_event : Index]
  BY RingOfDriver, Zenon DEF Device
<1>2. /\ h \in device.held /\ device.held' = device.held \ {h}
      /\ device.avail_idx' = device.avail_idx /\ used.idx' = Inc(used.idx)
      /\ used.ring' = [used.ring EXCEPT ![Slot(used.idx)] = h]
  BY <1>1 DEF DeviceUse
<1>3. /\ Len(Returned) < SIZE
      /\ Places(Available, device.held \ {h}, Append(Returned, h), Tokens)
  BY <1>1, <1>2, PlacesReturn, Zenon
<1> DEFINE written == [used.ring EXCEPT ![Slot(used.idx)] = h]
<1>4. written \in [Desc -> Desc] /\ written[Slot(used.idx)] = h
  BY RingTypes, IndexFacts
<1>5. Window(written, last_used_idx, used.idx) = Returned
  <2>1. /\ used.ring \in [Desc -> Desc] /\ last_used_idx \in Index /\ used.idx \in Index
        /\ Len(Window(used.ring, last_used_idx, used.idx)) < SIZE
    BY <1>3, RingTypes, Zenon DEF Returned
  <2> QED BY <2>1, WindowWrite, Zenon DEF Returned
<1>6. written = used.ring'
  BY <1>2
<1> HIDE DEF written
<1>7. Window(written, last_used_idx, Inc(used.idx)) = Append(Returned, h)
  <2>1. /\ last_used_idx \in Index /\ used.idx \in Index
        /\ Len(Window(written, last_used_idx, used.idx)) < SIZE
    BY <1>3, <1>5, RingTypes, Zenon
  <2>2. Window(written, last_used_idx, Inc(used.idx))
          = Append(Window(written, last_used_idx, used.idx), written[Slot(used.idx)])
    BY <1>4, <2>1, WindowPush, Zenon
  <2> QED BY <1>4, <1>5, <2>2
<1>8. Returned' = Append(Returned, h)
  BY <1>1, <1>2, <1>6, <1>7, ZenonT(40) DEF Returned
<1>9. Available' = Available
  BY <1>1, <1>2, SMTT(30), SMTT(60) DEF Available, Window
<1>10. Places(Available, device.held, Returned, Tokens)'
  BY <1>1, <1>2, <1>3, <1>8, <1>9, SMTT(30), SMTT(60) DEF Places
<1>11. Len(Returned) > 0 => Len(Returned') > 0 /\ Returned'[1] = Returned[1]
  <2>1. Returned \in Seq(Desc)
    BY <1>1 DEF Places
  <2> QED BY <1>8, <2>1
<1>12. GivenBack(h)
  BY <1>2, <1>8, <1>9, Zenon DEF GivenBack
<1> QED BY <1>1, <1>10, <1>11, <1>12 DEF RingInv

\* Its other steps are about notifications.
LEMMA RingDevice ==
  ASSUME IInv, RingInv, DeviceSuppress \/ DeviceArm \/ DeviceCheck \/ DeviceWake
  PROVE  RingInv' /\ Still
<1>1. /\ UNCHANGED <<outstanding, avail, avail_idx, last_used_idx, pc, head, Tokens>>
      /\ Places(Available, device.held, Returned, Tokens)
      /\ avail.idx = avail_idx
      /\ device \in [avail_idx : Index, held : SUBSET Desc, state : {"awake", "armed", "asleep"}]
      /\ used \in [ring : [Desc -> Desc], idx : Index, flags : {0, 1}, avail_event : Index]
  BY RingOfDriver, Zenon DEF Device
<1>2. UNCHANGED <<device.held, device.avail_idx, used.ring, used.idx>>
  <2>1. CASE DeviceSuppress
    BY <1>1, <2>1 DEF DeviceSuppress
  <2>2. CASE DeviceArm
    BY <1>1, <2>2 DEF DeviceArm
  <2>3. CASE DeviceCheck \/ DeviceWake
    BY <1>1, <2>3 DEF DeviceCheck, DeviceWake
  <2> QED BY <2>1, <2>2, <2>3
<1> QED BY <1>1, <1>2, RingFrame

LEMMA RingNext == IInv /\ RingInv /\ [Next]_vars => RingInv'
BY RingQuiet, RingAddRing, RingAddPublish, RingPop, RingTake, RingUse, RingDevice, Zenon
   DEF Next, Driver, Device

\* Every token is in exactly one place: published and not yet taken, held by
\* the device, or returned and not yet popped, each once; so no ring overflows,
\* whatever the indices have wrapped to, and pop_used finds its token.
THEOREM RingsExact == Spec => []RingInv
<1>1. Init => RingInv
  <2> SUFFICES ASSUME Init PROVE RingInv
    OBVIOUS
  <2>1. /\ avail.idx = 0 /\ avail_idx = 0 /\ used.idx = 0 /\ last_used_idx = 0
        /\ device.avail_idx = 0 /\ device.held = {} /\ pc = "idle"
        /\ \A t \in Desc : outstanding[t] = None
    BY DEF Init
  <2>2. Available = <<>> /\ Returned = <<>>
    <3>1. (0 - 0) % IndexModulus = 0
      BY SizeAssumption
    <3> QED BY <2>1, <3>1 DEF Available, Returned, Window
  <2>3. Tokens = {}
    BY <2>1 DEF Tokens
  <2>4. <<>> \in Seq(Desc) /\ IsInjective(<<>>) /\ Range(<<>>) = {}
    BY DEF IsInjective, Range
  <2>5. Places(Available, device.held, Returned, Tokens)
    BY <2>1, <2>2, <2>3, <2>4, SMTT(30), SMTT(60) DEF Places
  <2> QED BY <2>1, <2>5 DEF RingInv
<1> QED BY <1>1, RingNext, Invariance, PTL DEF Spec

-----------------------------------------------------------------------------
(* What the device reads *)

\* The links of a table lead along a path of n descriptors, and no further.
IsPath(table, path, n) ==
  /\ \A i \in 1 .. n : path[i] \in DOMAIN table
  /\ \A i \in 1 .. n : "NEXT" \in table[path[i]].flags <=> i < n
  /\ \A i \in 1 .. n - 1 : table[path[i]].next = path[i + 1]

ReadsPath(table, path, n) ==
  ReadChain(table, path[1]) = [i \in 1 .. n |-> Seen(table[path[i]])]

\* A device that starts from the first descriptor of a chain visits its
\* descriptors and stops at the last.
LEMMA WalkFacts ==
  ASSUME NEW table, NEW n \in 1 .. SIZE, NEW path, IsPath(table, path, n)
  PROVE  ReadsPath(table, path, n)
<1> DEFINE Step(at, i) ==
             IF i = 1 THEN path[1]
             ELSE LET d == table[at[i - 1]]
                  IN  IF "NEXT" \in d.flags /\ d.next \in DOMAIN table THEN d.next ELSE at[i - 1]
           IsWalk(at) == at = [i \in 1 .. SIZE |-> Step(at, i)]
           at == Walk(table, path[1])
<1>0. n \in Nat /\ SIZE \in Nat /\ n <= SIZE /\ 1 <= n
  BY SizeAssumption
<1>a. /\ \A i \in 1 .. n : path[i] \in DOMAIN table
      /\ \A i \in 1 .. n : "NEXT" \in table[path[i]].flags <=> i < n
      /\ \A i \in 1 .. n - 1 : table[path[i]].next = path[i + 1]
  BY DEF IsPath
<1>1. \E g : IsWalk(g)
  <2> DEFINE g == [i \in 1 .. SIZE |-> path[IF i <= n THEN i ELSE n]]
  <2>1. \A i \in 1 .. SIZE : Step(g, i) = path[IF i <= n THEN i ELSE n]
    <3> SUFFICES ASSUME NEW i \in 1 .. SIZE PROVE Step(g, i) = path[IF i <= n THEN i ELSE n]
      BY Zenon
    <3>1. CASE i = 1
      BY <1>0, <3>1, SMTT(30), SMTT(60)
    <3>2. CASE i # 1 /\ i <= n
      <4>1. i - 1 \in 1 .. SIZE /\ i - 1 <= n /\ i - 1 \in 1 .. n - 1 /\ (i - 1) + 1 = i
            /\ i - 1 \in 1 .. n /\ i \in 1 .. n
        BY <1>0, <3>2
      <4>2. g[i - 1] = path[i - 1]
        BY <4>1
      <4>3. "NEXT" \in table[path[i - 1]].flags /\ table[path[i - 1]].next = path[i]
            /\ path[i] \in DOMAIN table
        BY <1>0, <1>a, <4>1, SMTT(30), SMTT(60)
      <4> QED BY <3>2, <4>2, <4>3
    <3>3. CASE i # 1 /\ ~(i <= n)
      <4>1. i - 1 \in 1 .. SIZE /\ (IF i - 1 <= n THEN i - 1 ELSE n) = n /\ n \in 1 .. n
        BY <1>0, <3>3
      <4>2. g[i - 1] = path[n]
        BY <4>1
      <4>3. "NEXT" \notin table[path[n]].flags
        BY <1>0, <1>a, <4>1, SMTT(30), SMTT(60)
      <4> QED BY <3>3, <4>2, <4>3
    <3> QED BY <3>1, <3>2, <3>3, ZenonT(40)
  <2>2. IsWalk(g)
    BY <2>1
  <2> QED BY <2>2, Zenon
<1>2. at = CHOOSE g : IsWalk(g)
  BY DEF Walk
<1>3. IsWalk(at)
  <2> HIDE DEF IsWalk, at
  <2> QED BY <1>1, <1>2, Zenon
<1>4. \A i \in 1 .. SIZE : at[i] = Step(at, i)
  BY <1>3, Zenon
<1> HIDE DEF at
<1>5. \A i \in 1 .. n : at[i] = path[i]
  <2> DEFINE G == {i \in Nat : i + 1 \in 1 .. n => at[i + 1] = path[i + 1]}
  <2>1. 0 \in G
    BY <1>0, <1>4, SMTT(30)
  <2>2. ASSUME NEW i \in 0 .. n - 1, i \in G PROVE i + 1 \in G
    <3> SUFFICES ASSUME i + 2 \in 1 .. n PROVE at[i + 2] = path[i + 2]
      BY <1>0
    <3>1. /\ i + 1 \in 1 .. n /\ i + 1 \in 1 .. n - 1 /\ i + 2 \in 1 .. SIZE /\ i + 2 # 1
          /\ (i + 2) - 1 = i + 1 /\ (i + 1) + 1 = i + 2 /\ i + 1 < n
      BY <1>0
    <3>2. at[i + 1] = path[i + 1]
      BY <2>2, <3>1, ZenonT(40)
    <3>3. /\ "NEXT" \in table[path[i + 1]].flags /\ table[path[i + 1]].next = path[i + 2]
          /\ path[i + 2] \in DOMAIN table
      BY <1>a, <3>1
    <3> QED BY <1>4, <3>1, <3>2, <3>3, ZenonT(40)
  <2> HIDE DEF G
  <2>3. \A i \in 0 .. n : i \in G
    BY <1>0, <2>1, <2>2, NatInductionUpTo, Zenon
  <2> USE DEF G
  <2>4. \A i \in 1 .. n : i - 1 \in 0 .. n /\ (i - 1) + 1 = i
    BY <1>0
  <2> QED BY <2>3, <2>4, SMTT(30), SMTT(60)
<1> DEFINE ends == {i \in 1 .. SIZE : "NEXT" \notin table[at[i]].flags}
           last_ == CHOOSE i \in ends : \A j \in ends : i <= j
<1>6. n \in ends /\ \A j \in ends : n <= j
  BY <1>0, <1>a, <1>5, SMTT(30)
<1>7. last_ = n
  <2>1. ends \subseteq Nat
    BY <1>0
  <2> HIDE DEF ends
  <2>2. last_ \in ends /\ \A j \in ends : last_ <= j
    BY <1>6, Zenon
  <2> HIDE DEF last_
  <2> QED BY <1>0, <1>6, <2>1, <2>2, SMTT(30), SMTT(60)
<1>8. ReadChain(table, path[1]) = [i \in 1 .. last_ |-> Seen(table[at[i]])]
  BY <1>6 DEF ReadChain, at
<1>9. ReadChain(table, path[1]) = [i \in 1 .. n |-> Seen(table[at[i]])]
  <2> HIDE DEF last_
  <2> QED BY <1>7, <1>8
<1> QED BY <1>5, <1>9 DEF ReadsPath

-----------------------------------------------------------------------------
(* The chain of a token that is the device's *)

\* The entries of the list that add_indirect fills.
LEMMA ListEntries ==
  ASSUME NEW r \in Requests, NEW i \in 1 .. N(r)
  PROVE  /\ "NEXT" \in IndirectList(r)[i].flags <=> i < N(r)
         /\ IndirectList(r)[i].next = i
         /\ Seen(IndirectList(r)[i]) = <<Bufs(r)[i], IsWrite(r, i)>>
<1>1. IndirectList(r)[i] =
        SetBuf(Zeroed(i), Bufs(r)[i], IsWrite(r, i), IF i < N(r) THEN {"NEXT"} ELSE {})
  BY DEF IndirectList, N
<1>2. IsWrite(r, i) \in BOOLEAN
  BY SMTT(30) DEF IsWrite
<1>3. CASE IsWrite(r, i)
  <2>1. IndirectList(r)[i] = [addr |-> Bufs(r)[i], next |-> i,
                              flags |-> (IF i < N(r) THEN {"NEXT"} ELSE {}) \cup {"WRITE"}]
    BY <1>1, <1>3 DEF SetBuf, Zeroed
  <2>2. /\ IndirectList(r)[i].addr = Bufs(r)[i] /\ IndirectList(r)[i].next = i
        /\ "WRITE" \in IndirectList(r)[i].flags
        /\ "NEXT" \in IndirectList(r)[i].flags <=> i < N(r)
    BY <2>1, SMTT(30)
  <2> QED BY <1>2, <1>3, <2>2, ZenonT(30) DEF Seen
<1>4. CASE ~IsWrite(r, i)
  <2>1. IndirectList(r)[i] = [addr |-> Bufs(r)[i], next |-> i,
                              flags |-> IF i < N(r) THEN {"NEXT"} ELSE {}]
    BY <1>1, <1>4, ZenonT(40) DEF SetBuf, Zeroed
  <2> QED BY <1>2, <1>4, <2>1, SMTT(30) DEF Seen
<1> QED BY <1>2, <1>3, <1>4, Zenon

LEMMA DeviceReads ==
  ASSUME IInv, RingInv, TableInv, NEW h \in Range(Available) \cup device.held
  PROVE  outstanding[h] # None /\ DeviceChain(h) = Asked(outstanding[h])
<1> DEFINE r == outstanding[h]
           n == N(r)
<1>1. /\ h \in Tokens /\ h \notin Range(Returned) /\ Returned \in Seq(Desc)
  BY Zenon DEF RingInv, Places
<1>2. h \in Desc /\ r # None /\ r \in Requests
  BY <1>1, RingTypes, SMTT(30) DEF Tokens
<1>3. ~(pc = "recycle" /\ h = head)
  <2>1. pc = "recycle" => head \in Range(Returned)
    <3>1. pc = "recycle" => Len(Returned) > 0 /\ Returned[1] = head
      BY Zenon DEF RingInv
    <3> QED BY <1>1, <3>1, SeqFacts, SMTT(30)
  <2> QED BY <1>1, <2>1, SMTT(30)
<1>4. ChainOf(h, r)
  BY <1>2, Zenon DEF IInv, ChainInv
<1>5. Mirrored(h) /\ Directed(h) /\ Belongs(h, r)
  BY <1>2, SMTT(30) DEF TableInv, Belongs
<1>6. desc \in [Desc -> Descriptor]
  BY SMTT(30) DEF IInv, TypeOK
<1> HIDE DEF r
<1>7. CASE DirectChain(h, r)
  <2>1. /\ ~UsesList(r) /\ n \in 1 .. SIZE /\ Len(chain[h]) = n /\ chain[h][1] = h
        /\ \A i \in 1 .. n : /\ "INDIRECT" \notin desc_shadow[chain[h][i]].flags
                             /\ "NEXT" \in desc_shadow[chain[h][i]].flags <=> i < n
                             /\ i < n => desc_shadow[chain[h][i]].next = chain[h][i + 1]
                             /\ desc_shadow[chain[h][i]].addr = Bufs(r)[i]
    BY <1>3, <1>7, Zenon DEF DirectChain
  <2>2. \A i \in 1 .. n : desc[chain[h][i]] = desc_shadow[chain[h][i]]
    BY <1>5, <2>1, ZenonT(30) DEF Mirrored
  <2>3. \A i \in 1 .. n : "WRITE" \in desc_shadow[chain[h][i]].flags <=> IsWrite(r, i)
    BY <1>2, <1>5, <2>1, ZenonT(30) DEF Directed
  <2>4. \A i \in 1 .. n : chain[h][i] \in DOMAIN desc
    BY <1>2, <1>6, <2>1, InUse, Zenon
  <2>5. \A i \in 1 .. n : "NEXT" \in desc[chain[h][i]].flags <=> i < n
    BY <2>1, <2>2, Zenon
  <2>6. \A i \in 1 .. n - 1 : desc[chain[h][i]].next = chain[h][i + 1]
    <3>1. \A i \in 1 .. n - 1 : i \in 1 .. n /\ i < n
      BY <2>1, SizeAssumption, SMTT(30)
    <3> QED BY <2>1, <2>2, <3>1, SMTT(30), SMTT(60)
  <2> HIDE DEF n
  <2>7. ReadChain(desc, h) = [i \in 1 .. n |-> Seen(desc[chain[h][i]])]
    <3>1. ReadChain(desc, chain[h][1]) = [i \in 1 .. n |-> Seen(desc[chain[h][i]])]
      <4>1. IsPath(desc, chain[h], n)
        BY <2>4, <2>5, <2>6 DEF IsPath
      <4>2. ReadsPath(desc, chain[h], n)
        BY <2>1, <4>1, WalkFacts, Zenon
      <4> QED BY <4>2, SMTT(30) DEF ReadsPath
    <3> QED BY <2>1, <3>1, Zenon
  <2>8. \A i \in 1 .. n : Seen(desc[chain[h][i]]) = <<Bufs(r)[i], IsWrite(r, i)>>
    <3> TAKE i \in 1 .. n
    <3>1. /\ desc[chain[h][i]].addr = Bufs(r)[i]
          /\ "WRITE" \in desc[chain[h][i]].flags <=> IsWrite(r, i)
      BY <2>1, <2>2, <2>3, Zenon
    <3>2. IsWrite(r, i) \in BOOLEAN
      BY DEF IsWrite
    <3> QED BY <3>1, <3>2, SMTT(30), SMTT(60) DEF Seen
  <2>9. DeviceChain(h) = ReadChain(desc, h)
    <3>1. 1 \in 1 .. n
      BY <2>1, SizeAssumption, SMTT(30)
    <3>2. "INDIRECT" \notin desc[h].flags
      BY <2>1, <2>2, <3>1, ZenonT(40)
    <3> QED BY <3>2, Zenon DEF DeviceChain
  <2>10. Asked(r) = [i \in 1 .. n |-> <<Bufs(r)[i], IsWrite(r, i)>>]
    BY Zenon DEF Asked, n, N
  <2>11. DeviceChain(h) = Asked(r)
    BY <2>7, <2>8, <2>9, <2>10, Zenon
  <2> QED BY <1>2, <2>11, Zenon DEF r
<1>8. CASE ListChain(h, r)
  <2> DEFINE table == [i \in 0 .. n - 1 |-> IndirectList(r)[i + 1]]
             path == [i \in 1 .. n |-> i - 1]
  <2>1. /\ n \in 1 .. SIZE /\ indirect_lists[h] = IndirectList(r) /\ chain[h] = <<h>>
        /\ "INDIRECT" \in desc_shadow[h].flags
    BY <1>8, Zenon DEF ListChain
  <2>2. n \in Nat /\ 1 <= n
    BY <2>1, SizeAssumption, SMTT(30), SMTT(60)
  <2>3. "INDIRECT" \in desc[h].flags
    <3>1. Len(chain[h]) = 1 /\ chain[h][1] = h
      BY <2>1, SMTT(30)
    <3> QED BY <1>5, <2>1, <3>1, SMTT(30), SMTT(60) DEF Mirrored
  <2>4. DeviceChain(h) = ReadChain(table, 0)
    <3>1. Len(indirect_lists[h]) = n
      BY <1>2, <2>1, ListFacts, Zenon
    <3> QED BY <2>1, <2>3, <3>1, Zenon DEF DeviceChain
  <2>5. \A i \in 1 .. n : path[i] \in DOMAIN table /\ table[path[i]] = IndirectList(r)[i]
    <3> SUFFICES ASSUME NEW i \in 1 .. n
                 PROVE  path[i] \in DOMAIN table /\ table[path[i]] = IndirectList(r)[i]
      BY Zenon
    <3>1. i - 1 \in 0 .. n - 1 /\ (i - 1) + 1 = i
      BY <2>2, SMTT(30)
    <3> QED BY <3>1, Zenon
  <2>6. \A i \in 1 .. n - 1 : path[i + 1] = i
    BY <2>2, SMTT(30)
  <2>7. path[1] = 0
    BY <2>2, SMTT(30)
  <2>8. \A i \in 1 .. n : /\ "NEXT" \in IndirectList(r)[i].flags <=> i < n
                          /\ IndirectList(r)[i].next = i
                          /\ Seen(IndirectList(r)[i]) = <<Bufs(r)[i], IsWrite(r, i)>>
    BY <1>2, ListEntries, Zenon
  <2> HIDE DEF table, path, n
  <2>9. \A i \in 1 .. n : "NEXT" \in table[path[i]].flags <=> i < n
    BY <2>5, <2>8, Zenon
  <2>10. \A i \in 1 .. n - 1 : table[path[i]].next = path[i + 1]
    <3>1. \A i \in 1 .. n - 1 : i \in 1 .. n
      BY <2>2, SMTT(30)
    <3> QED BY <2>5, <2>6, <2>8, <3>1, Zenon
  <2>11. ReadChain(table, path[1]) = [i \in 1 .. n |-> Seen(table[path[i]])]
    <3>1. IsPath(table, path, n)
      BY <2>5, <2>9, <2>10, SMTT(30) DEF IsPath
    <3>2. ReadsPath(table, path, n)
      BY <2>1, <3>1, WalkFacts, Zenon
    <3> QED BY <3>2, ZenonT(40) DEF ReadsPath
  <2>12. Asked(r) = [i \in 1 .. n |-> <<Bufs(r)[i], IsWrite(r, i)>>]
    BY DEF Asked, n, N
  <2>13. DeviceChain(h) = Asked(r)
    BY <2>4, <2>5, <2>7, <2>8, <2>11, <2>12, ZenonT(30)
  <2> QED BY <1>2, <2>13 DEF r
<1> QED BY <1>4, <1>7, <1>8, SMTT(30) DEF ChainOf

\* From the moment avail.idx is published until the device returns the chain,
\* the table that the device reads describes exactly the buffers of the caller,
\* in order and with the right direction.
THEOREM DeviceReadsRequests == Spec => []DeviceSeesRequest
<1>1. IInv /\ RingInv /\ TableInv => DeviceSeesRequest
  BY DeviceReads DEF DeviceSeesRequest
<1> QED BY <1>1, TablesMirrored, RingsExact, Invariance, PTL

-----------------------------------------------------------------------------
(***************************************************************************)
(* VirtQueue implements AbstractQueue.  The view of VirtQueueRefinement    *)
(* changes when add publishes its head, when pop_used ends, when notify    *)
(* returns and when the device takes, uses or goes to sleep; the lemmas    *)
(* above say what those steps do to the rings.                             *)
(***************************************************************************)

LEMMA SameSequence ==
  ASSUME NEW S, NEW s \in Seq(S), NEW t \in Seq(S), Len(s) = Len(t),
         \A i \in 1 .. Len(s) : s[i] = t[i]
  PROVE  s = t
<1>1. s = [i \in 1 .. Len(s) |-> s[i]] /\ t = [i \in 1 .. Len(s) |-> t[i]]
  OBVIOUS
<1> QED BY <1>1, Zenon

\* A descriptor that moves from the free list to the end of a chain in front of it.
LEMMA MovedOver ==
  ASSUME NEW c \in Seq(Desc), NEW f \in Seq(Desc), Len(f) > 0
  PROVE  Append(c, f[1]) \o Rest(f) = c \o f
<1> DEFINE a == Append(c, f[1])
           r == Rest(f)
           u == a \o r
           v == c \o f
<1>1. f[1] \in Desc /\ Len(f) \in Nat /\ Len(c) \in Nat
  OBVIOUS
<1>2. /\ r \in Seq(Desc) /\ Len(r) = Len(f) - 1 /\ \A i \in 1 .. Len(r) : r[i] = f[i + 1]
  BY RestFacts
<1>3. /\ a \in Seq(Desc) /\ Len(a) = Len(c) + 1 /\ \A i \in 1 .. Len(c) : a[i] = c[i]
      /\ a[Len(c) + 1] = f[1]
  BY <1>1
<1> HIDE DEF a, r
<1>4. /\ u \in Seq(Desc) /\ Len(u) = Len(a) + Len(r)
      /\ \A i \in 1 .. Len(a) : u[i] = a[i]
      /\ \A i \in 1 .. Len(r) : u[Len(a) + i] = r[i]
  <2>1. a \in Seq(Desc) /\ r \in Seq(Desc)
    BY <1>2, <1>3
  <2> QED BY <2>1, ConcatenationFacts
<1>5. /\ v \in Seq(Desc) /\ Len(v) = Len(c) + Len(f)
      /\ \A i \in 1 .. Len(c) : v[i] = c[i]
      /\ \A i \in 1 .. Len(f) : v[Len(c) + i] = f[i]
  BY ConcatenationFacts
<1> HIDE DEF u, v
<1>6. Len(u) = Len(v)
  BY <1>1, <1>2, <1>3, <1>4, <1>5, SMTT(30), SMTT(60)
<1>7. ASSUME NEW i \in 1 .. Len(u) PROVE u[i] = v[i]
  <2>1. CASE i <= Len(c)
    <3>1. i \in 1 .. Len(a) /\ i \in 1 .. Len(c)
      BY <2>1, <1>1, <1>3, SMTT(30), SMTT(60)
    <3> QED BY <3>1, <1>3, <1>4, <1>5, SMTT(30), SMTT(60)
  <2>2. CASE i = Len(c) + 1
    <3>1. i \in 1 .. Len(a) /\ 1 \in 1 .. Len(f) /\ i = Len(c) + 1
      BY <2>2, <1>1, <1>3
    <3> QED BY <3>1, <1>3, <1>4, <1>5, SMTT(30), SMTT(60)
  <2>3. CASE i > Len(c) + 1
    <3> DEFINE j == i - Len(a)
    <3>1. j \in 1 .. Len(r) /\ j + 1 \in 1 .. Len(f) /\ i = Len(a) + j /\ i = Len(c) + (j + 1)
      BY <2>3, <1>1, <1>2, <1>3, <1>4, SMTT(30), SMTT(60)
    <3> HIDE DEF j
    <3>2. u[i] = r[j] /\ v[i] = f[j + 1]
      BY <3>1, <1>4, <1>5, SMTT(30), SMTT(60)
    <3> QED BY <3>1, <3>2, <1>2, SMTT(30), SMTT(60)
  <2> QED BY <2>1, <2>2, <2>3, <1>1, <1>4, SMTT(30), SMTT(60)
<1>8. u = v
  BY <1>4, <1>5, <1>6, <1>7, SameSequence, SMTT(30), SMTT(60)
<1> QED BY <1>8 DEF u, v, a, r

\* A chain taken from the front of a list and put back.
LEMMA FrontOf ==
  ASSUME NEW c \in Seq(Desc), NEW f \in Seq(Desc), Len(c) > 0
  PROVE  /\ Head(c \o f) = c[1]
         /\ SubSeq(c \o f, 1, Len(c)) = c
         /\ SubSeq(c \o f, Len(c) + 1, Len(c \o f)) = f
         /\ Len(c) <= Len(c \o f)
<1> DEFINE v == c \o f
           p == SubSeq(v, 1, Len(c))
           q == SubSeq(v, Len(c) + 1, Len(v))
<1>1. /\ v \in Seq(Desc) /\ Len(v) = Len(c) + Len(f) /\ Len(c) \in Nat /\ Len(f) \in Nat
      /\ \A i \in 1 .. Len(c) : v[i] = c[i]
      /\ \A i \in 1 .. Len(f) : v[Len(c) + i] = f[i]
  BY ConcatenationFacts
<1> HIDE DEF v
<1>2. /\ p \in Seq(Desc) /\ Len(p) = Len(c) /\ \A i \in 1 .. Len(c) : p[i] = v[i]
  BY <1>1
<1>3. /\ q \in Seq(Desc) /\ Len(q) = Len(f) /\ \A i \in 1 .. Len(f) : q[i] = v[Len(c) + i]
  BY <1>1
<1> HIDE DEF p, q
<1>4. p = c
  BY <1>1, <1>2, SameSequence
<1>5. q = f
  BY <1>1, <1>3, SameSequence
<1>6. Head(v) = c[1] /\ Len(c) <= Len(v)
  BY <1>1
<1> QED BY <1>4, <1>5, <1>6, SMTT(30), SMTT(60) DEF v, p, q

LEMMA RestIsTail ==
  ASSUME NEW s \in Seq(Desc), Len(s) > 0
  PROVE  Rest(s) = Tail(s) /\ Head(s) = s[1] /\ s # <<>>
<1>1. /\ Rest(s) \in Seq(Desc) /\ Len(Rest(s)) = Len(s) - 1
      /\ \A i \in 1 .. Len(Rest(s)) : Rest(s)[i] = s[i + 1]
  BY RestFacts
<1>2. /\ Tail(s) \in Seq(Desc) /\ Len(Tail(s)) = Len(s) - 1
      /\ \A i \in 1 .. Len(Tail(s)) : Tail(s)[i] = s[i + 1]
      /\ Head(s) = s[1] /\ s # <<>>
  OBVIOUS
<1> QED BY <1>1, <1>2, SameSequence

LEMMA Stutter ==
  ASSUME Still, UNCHANGED <<outstanding, Free, Chains, Awake>>
  PROVE  UNCHANGED View
BY Zenon DEF View, Still

\* Until it publishes the head, add moves descriptors from the free list to the
\* end of a chain that the view has in front of the free list.
LEMMA BuildingHidden ==
  ASSUME IInv,
         (\E r \in Requests : AddBegin(r)) \/ AddDirect \/ AddDirectEnd \/ AddIndirect \/ AddRing
  PROVE  UNCHANGED <<Free, Chains>>
<1>1. free \in Seq(Desc) /\ chain \in [Desc -> Seq(Desc)] /\ head \in Desc
  BY Zenon DEF IInv, TypeOK
<1>2. ASSUME NEW r \in Requests, AddBegin(r) PROVE UNCHANGED <<Free, Chains>>
  <2>1. pc = "idle" /\ UNCHANGED <<free, chain>>
    BY <1>2, Zenon DEF AddBegin, history
  <2>2. pc' \in {"add_direct", "add_indirect"} /\ k' = 0
    BY <1>2, Zenon DEF AddBegin, Goto
  <2>3. AddInv' /\ ChainInv' /\ TypeOK'
    BY <1>2, AddBeginInv, Zenon DEF IInv
  <2>4. head' \in Desc /\ outstanding'[head'] = None
    BY <2>2, <2>3, Zenon DEF TypeOK, AddInv
  <2>5. chain'[head'] = <<>>
    <3>1. CASE pc' = "add_indirect"
      BY <3>1, <2>3, <2>4 DEF ChainInv, Adding
    <3>2. CASE pc' = "add_direct"
      <4>1. Len(chain'[head']) = 0
        BY <3>2, <2>2, <2>3, Zenon DEF AddInv
      <4> QED BY <4>1, <2>1, <2>4, <1>1, SMTT(30), SMTT(60)
    <3> QED BY <2>2, <3>1, <3>2, Zenon
  <2>6. chain[head'] = <<>> /\ Unpublished' /\ ~Unpublished
    BY <2>1, <2>2, <2>5, SMTT(30), SMTT(60) DEF Unpublished
  <2>7. <<>> \o free = free /\ [chain EXCEPT ![head'] = <<>>] = chain
    BY <1>1, <2>4, <2>6
  <2> QED BY <2>1, <2>6, <2>7 DEF Free, Chains
<1>3. ASSUME Len(free) > 0, Unpublished, Unpublished', UNCHANGED head, free' = Rest(free),
             chain' = [chain EXCEPT ![head] = Append(chain[head], free[1])]
      PROVE  UNCHANGED <<Free, Chains>>
  <2>1. chain'[head] = Append(chain[head], free[1])
    BY <1>1, <1>3
  <2>2. Append(chain[head], free[1]) \o Rest(free) = chain[head] \o free
    BY <1>1, <1>3, MovedOver, ZenonT(30)
  <2>3. [chain' EXCEPT ![head] = <<>>] = [chain EXCEPT ![head] = <<>>]
    BY <1>1, <1>3
  <2> QED BY <1>3, <2>1, <2>2, <2>3, Zenon DEF Free, Chains
<1>4. CASE AddDirect
  <2>1. /\ pc = "add_direct" /\ pc' = pc /\ UNCHANGED head /\ free' = Rest(free)
        /\ chain' = [chain EXCEPT ![head] = Append(chain[head], free_head)]
        /\ k < N(cur)
    BY <1>4, Zenon DEF AddDirect, N
  <2>2. Len(free) > 0
    <3>1. N(cur) \in 1 .. SIZE /\ Len(free) >= N(cur) - k
      BY <2>1, Zenon DEF IInv, AddInv
    <3>2. k \in 0 .. SIZE
      BY Zenon DEF IInv, TypeOK
    <3> QED BY <2>1, <3>1, <3>2, <1>1, SizeAssumption, SMTT(30), SMTT(60)
  <2>3. free[1] = free_head
    BY <2>1, <2>2, FirstFree, Zenon
  <2> QED BY <1>3, <2>1, <2>2, <2>3, Zenon DEF Unpublished
<1>5. CASE AddIndirect
  <2>1. pc = "add_indirect" /\ UNCHANGED head
    BY <1>5, Zenon DEF AddIndirect
  <2>2. pc' # "panic"
    BY <1>5, AddIndirectInv, Zenon DEF IInv, NoPanic
  <2>3. /\ pc' = "avail_ring" /\ free' = Rest(free)
        /\ chain' = [chain EXCEPT ![head] = <<head>>]
    BY <1>5, <2>2, Zenon DEF AddIndirect, Goto
  <2>4. head = free_head /\ outstanding[head] = None /\ Len(free) > 0
    <3>1. N(cur) \in 1 .. SIZE /\ k = 0 /\ (Len(free) > 0 \/ k = N(cur))
      BY <2>1, Zenon DEF IInv, AddInv
    <3>2. Len(free) > 0
      BY <3>1
    <3> QED BY <2>1, <3>2, Zenon DEF IInv, AddInv
  <2>5. chain[head] = <<>>
    <3>1. ChainInv
      BY Zenon DEF IInv
    <3> QED BY <1>1, <2>1, <2>4, <3>1, SMTT(30), SMTT(60) DEF ChainInv, Adding
  <2>6. free[1] = head
    BY <2>1, <2>4, FirstFree, Zenon
  <2>7. Append(chain[head], free[1]) = <<head>>
    BY <2>5, <2>6
  <2> QED BY <1>3, <2>1, <2>3, <2>4, <2>7, Zenon DEF Unpublished
<1>6. CASE AddDirectEnd \/ AddRing
  <2>1. Unpublished /\ Unpublished' /\ UNCHANGED <<free, chain, head>>
    BY <1>6, Zenon DEF AddDirectEnd, AddRing, Unpublished, Goto, history
  <2> QED BY <2>1, Zenon DEF Free, Chains
<1> QED BY <1>2, <1>4, <1>5, <1>6, Zenon

LEMMA Fields ==
  /\ View.free = Free /\ View.chain = Chains /\ View.request = outstanding
  /\ View.available = Available /\ View.held = device.held /\ View.returned = Returned
  /\ View.awake = Awake
BY DEF View

\* What the operations of the abstract queue make of the view.
LEMMA ViewWith ==
  ASSUME NEW r
  PROVE  Abstract!With(View, r)
           = [free |-> SubSeq(Free, Needs(r) + 1, Len(Free)),
              chain |-> [Chains EXCEPT ![Head(Free)] = SubSeq(Free, 1, Needs(r))],
              request |-> [outstanding EXCEPT ![Head(Free)] = r],
              available |-> Append(Available, Head(Free)),
              held |-> device.held, returned |-> Returned, awake |-> Awake]
<1>1. Abstract!With(View, r)
        = [View EXCEPT !.request = [View.request EXCEPT ![Head(View.free)] = r],
                       !.chain = [View.chain EXCEPT ![Head(View.free)] = SubSeq(View.free, 1, Needs(r))],
                       !.free = SubSeq(View.free, Needs(r) + 1, Len(View.free)),
                       !.available = Append(View.available, Head(View.free))]
  BY Zenon DEF Abstract!With
<1> DEFINE q == [outstanding EXCEPT ![Head(Free)] = r]
           c == [Chains EXCEPT ![Head(Free)] = SubSeq(Free, 1, Needs(r))]
           f == SubSeq(Free, Needs(r) + 1, Len(Free))
           a == Append(Available, Head(Free))
<1>2. Abstract!With(View, r) = [View EXCEPT !.request = q, !.chain = c, !.free = f, !.available = a]
  BY <1>1, Fields, Zenon
<1> HIDE DEF q, c, f, a
<1>3. Abstract!With(View, r)
        = [free |-> f, chain |-> c, request |-> q, available |-> a,
           held |-> device.held, returned |-> Returned, awake |-> Awake]
  BY <1>2, Zenon DEF View
<1> QED BY <1>3, Zenon DEF q, c, f, a

LEMMA ViewWithout ==
  ASSUME NEW t
  PROVE  Abstract!Without(View, t)
           = [free |-> Chains[t] \o Free, chain |-> [Chains EXCEPT ![t] = <<>>],
              request |-> [outstanding EXCEPT ![t] = None], available |-> Available,
              held |-> device.held, returned |-> Tail(Returned), awake |-> Awake]
<1>1. Abstract!Without(View, t)
        = [View EXCEPT !.request = [View.request EXCEPT ![t] = None],
                       !.chain = [View.chain EXCEPT ![t] = <<>>],
                       !.free = View.chain[t] \o View.free,
                       !.returned = Tail(View.returned)]
  BY Zenon DEF Abstract!Without
<1> DEFINE q == [outstanding EXCEPT ![t] = None]
           c == [Chains EXCEPT ![t] = <<>>]
           f == Chains[t] \o Free
           b == Tail(Returned)
<1>2. Abstract!Without(View, t) = [View EXCEPT !.request = q, !.chain = c, !.free = f, !.returned = b]
  BY <1>1, Fields, Zenon
<1> HIDE DEF q, c, f, b
<1>3. Abstract!Without(View, t)
        = [free |-> f, chain |-> c, request |-> q, available |-> Available,
           held |-> device.held, returned |-> b, awake |-> Awake]
  BY <1>2, Zenon DEF View
<1> QED BY <1>3, Zenon DEF q, c, f, b

\* The steps of the device.
LEMMA ViewTaken ==
  ASSUME NEW v, v = [View EXCEPT !.held = @ \cup {Head(View.available)}, !.available = Tail(@)]
  PROVE  v = [free |-> Free, chain |-> Chains, request |-> outstanding,
              available |-> Tail(Available), held |-> device.held \cup {Head(Available)},
              returned |-> Returned, awake |-> Awake]
<1> DEFINE h == device.held \cup {Head(Available)}
           a == Tail(Available)
<1>1. v = [View EXCEPT !.held = h, !.available = a]
  BY Fields, Zenon
<1> HIDE DEF h, a
<1>2. v = [free |-> Free, chain |-> Chains, request |-> outstanding, available |-> a,
           held |-> h, returned |-> Returned, awake |-> Awake]
  BY <1>1, Zenon DEF View
<1> QED BY <1>2, Zenon DEF h, a

LEMMA ViewUsed ==
  ASSUME NEW t, NEW v, v = [View EXCEPT !.held = @ \ {t}, !.returned = Append(@, t)]
  PROVE  v = [free |-> Free, chain |-> Chains, request |-> outstanding, available |-> Available,
              held |-> device.held \ {t}, returned |-> Append(Returned, t), awake |-> Awake]
<1> DEFINE h == device.held \ {t}
           b == Append(Returned, t)
<1>1. v = [View EXCEPT !.held = h, !.returned = b]
  BY Fields, Zenon
<1> HIDE DEF h, b
<1>2. v = [free |-> Free, chain |-> Chains, request |-> outstanding, available |-> Available,
           held |-> h, returned |-> b, awake |-> Awake]
  BY <1>1, Zenon DEF View
<1> QED BY <1>2, Zenon DEF h, b

LEMMA ViewWoken ==
  ASSUME NEW w, NEW v, v = [View EXCEPT !.awake = w]
  PROVE  v = [free |-> Free, chain |-> Chains, request |-> outstanding, available |-> Available,
              held |-> device.held, returned |-> Returned, awake |-> w]
BY Zenon DEF View

\* The publication of the head adds the request.
LEMMA PublishAdds ==
  ASSUME IInv, RingInv, SharedInv, AddPublish
  PROVE  \E r \in Requests : Abstract!Add(r)
<1>1. /\ pc = "avail_idx" /\ pc' = "notify" /\ UNCHANGED <<free, chain, device, notified>>
      /\ outstanding' = [outstanding EXCEPT ![head] = cur]
  BY Zenon DEF AddPublish, Goto, history
<1>2. /\ free \in Seq(Desc) /\ chain \in [Desc -> Seq(Desc)] /\ head \in Desc
      /\ cur \in Requests
  BY <1>1, Zenon DEF IInv, TypeOK, AddInv
<1>3. ChainOf(head, cur)
  BY <1>1, <1>2, Zenon DEF IInv, ChainInv, Adding
<1>4. Len(chain[head]) = Needs(cur) /\ Len(chain[head]) > 0 /\ chain[head][1] = head
  <2>1. CASE DirectChain(head, cur)
    <3>1. ~UsesList(cur) /\ N(cur) \in 1 .. SIZE /\ Len(chain[head]) = N(cur) /\ chain[head][1] = head
      BY <2>1, Zenon DEF DirectChain
    <3>2. N(cur) > 0 /\ (N(cur) > 1 \/ N(cur) = 1)
      BY <3>1, SizeAssumption
    <3>3. N(cur) = Needs(cur)
      <4>1. CASE indirect
        <5>1. N(cur) = 1
          BY <3>1, <3>2, <4>1, Zenon DEF UsesList
        <5> QED BY <4>1, <5>1, Zenon DEF Needs
      <4>2. CASE ~indirect
        BY <4>2, Zenon DEF Needs, N
      <4> QED BY <4>1, <4>2, Zenon
    <3> QED BY <3>1, <3>2, <3>3, Zenon
  <2>2. CASE ListChain(head, cur)
    <3>1. UsesList(cur) /\ chain[head] = <<head>>
      BY <2>2, Zenon DEF ListChain
    <3> QED BY <3>1 DEF UsesList, Needs
  <2> QED BY <1>3, <2>1, <2>2, Zenon DEF ChainOf
<1>5. /\ Head(Free) = head /\ SubSeq(Free, 1, Needs(cur)) = chain[head]
      /\ SubSeq(Free, Needs(cur) + 1, Len(Free)) = free
      /\ Needs(cur) <= Len(Free)
  <2>1. Free = chain[head] \o free
    BY <1>1, Zenon DEF Free, Unpublished
  <2>2. chain[head] \in Seq(Desc)
    BY <1>2, Zenon
  <2>3. /\ Head(chain[head] \o free) = chain[head][1]
        /\ SubSeq(chain[head] \o free, 1, Len(chain[head])) = chain[head]
        /\ SubSeq(chain[head] \o free, Len(chain[head]) + 1, Len(chain[head] \o free)) = free
        /\ Len(chain[head]) <= Len(chain[head] \o free)
    BY <2>2, <1>2, <1>4, FrontOf, Zenon
  <2> QED BY <2>1, <2>3, <1>4, Zenon
<1>6. Free' = free /\ Chains' = chain /\ Chains = [chain EXCEPT ![head] = <<>>]
  BY <1>1 DEF Free, Chains, Unpublished
<1>7. [Chains EXCEPT ![head] = chain[head]] = chain
  BY <1>2, <1>6, Zenon
<1>8. Available' = Append(Available, head) /\ UNCHANGED <<device.held, Returned, Awake>>
  BY <1>1, RingAddPublish, Zenon DEF Offered, Awake
<1>9. View' = Abstract!With(View, cur)
  <2>1. View' = [free |-> free, chain |-> chain, request |-> [outstanding EXCEPT ![head] = cur],
                 available |-> Append(Available, head), held |-> device.held,
                 returned |-> Returned, awake |-> Awake]
    BY <1>1, <1>6, <1>8, Zenon DEF View
  <2> QED BY <2>1, <1>5, <1>7, ViewWith, Zenon
<1>10. Abstract!CanAdd(cur)
  BY <1>5, Fields, Zenon DEF Abstract!CanAdd
<1>11. cur \notin Abstract!Added
  <2>1. \A t \in Desc : outstanding[t] # cur
    BY <1>1, Zenon DEF SharedInv, Unpublished
  <2>2. Abstract!Tokens = Desc
    BY DEF Abstract!Tokens, Desc
  <2> QED BY <2>1, <2>2, Fields, Zenon DEF Abstract!Added, Abstract!Outstanding
<1> QED BY <1>2, <1>9, <1>10, <1>11, Zenon DEF Abstract!Add

\* The end of pop_used pops the token that was returned first.
LEMMA RecyclePops ==
  ASSUME IInv, RingInv, RecycleEnd \/ RecycleIndirect
  PROVE  \E t \in Abstract!Tokens : Abstract!Pop(t)
<1>1. /\ pc \in {"recycle", "recycle_indirect"} /\ UNCHANGED <<device, notified>>
      /\ head \in Desc
  BY Zenon DEF RecycleEnd, RecycleIndirect, IInv, TypeOK
<1>2. Collected /\ PopEnd
  BY RingPop, Zenon
<1>3. /\ outstanding' = [outstanding EXCEPT ![head] = None] /\ free' = chain[head] \o free
      /\ chain' = [chain EXCEPT ![head] = <<>>] /\ pc' = "idle"
  BY <1>2, Zenon DEF PopEnd, Return
<1>4. Free = free /\ Free' = chain[head] \o free /\ Chains = chain
      /\ Chains' = [chain EXCEPT ![head] = <<>>]
  BY <1>1, <1>3 DEF Free, Chains, Unpublished
<1>5. Returned' = Tail(Returned) /\ Returned # <<>> /\ Head(Returned) = head
  <2>1. Returned \in Seq(Desc) /\ Len(Returned) > 0 /\ Returned[1] = head /\ Returned' = Rest(Returned)
    BY <1>2, Zenon DEF RingInv, Places, Collected
  <2> QED BY <2>1, RestIsTail, Zenon
<1>6. UNCHANGED <<Available, device.held, Awake>>
  BY <1>1, <1>2, Zenon DEF Collected, Awake
<1>7. View' = Abstract!Without(View, head)
  <2>1. View' = [free |-> chain[head] \o free, chain |-> [chain EXCEPT ![head] = <<>>],
                 request |-> [outstanding EXCEPT ![head] = None], available |-> Available,
                 held |-> device.held, returned |-> Tail(Returned), awake |-> Awake]
    BY <1>3, <1>4, <1>5, <1>6, Zenon DEF View
  <2> QED BY <2>1, <1>4, ViewWithout, Zenon
<1>8. Abstract!CanPop(head) /\ head \in Abstract!Tokens
  BY <1>1, <1>5, Fields, SMTT(30), SMTT(60) DEF Abstract!CanPop, Abstract!Tokens, Desc
<1> QED BY <1>7, <1>8, Zenon DEF Abstract!Pop

LEMMA WindowEmpty ==
  ASSUME NEW ring, NEW f \in Index
  PROVE  Window(ring, f, f) = <<>>
<1>1. (f - f) % IndexModulus = 0
  BY SizeAssumption DEF Index
<1> QED BY <1>1 DEF Window

\* Nothing is available when the device has caught up.
LEMMA CaughtUp ==
  ASSUME IInv, device.avail_idx = avail.idx
  PROVE  Available = <<>>
<1>1. avail.idx \in Index
  BY RingTypes, Zenon
<1> QED BY <1>1, WindowEmpty, Zenon DEF Available

\* should_notify and notify leave no device asleep that has something to take.
LEMMA NotifyWakes ==
  ASSUME IInv, IInv', RingInv, SignalInv', Notify
  PROVE  Abstract!Notify
<1>1. /\ pc = "notify" /\ pc' = "idle" /\ notified' = (notified \/ should_notify)
      /\ UNCHANGED <<outstanding, free, chain, device, avail, avail_idx>>
  BY Zenon DEF Notify, Return, fields, history
<1>2. Still
  BY RingQuiet, Zenon
<1>3. UNCHANGED <<Free, Chains>>
  BY <1>1, Zenon DEF Free, Chains, Unpublished
<1>4. View' = [free |-> Free, chain |-> Chains, request |-> outstanding, available |-> Available,
               held |-> device.held, returned |-> Returned, awake |-> Awake']
  BY <1>1, <1>2, <1>3, Zenon DEF View, Still
<1>5. View' = [View EXCEPT !.awake = Awake']
  <2>1. PICK v : v = [View EXCEPT !.awake = Awake']
    BY Zenon
  <2>2. v = View'
    BY <2>1, <1>4, ViewWoken, Zenon
  <2> QED BY <2>1, <2>2, Zenon
<1>6. Awake' \in {View.awake, TRUE}
  <2>1. CASE Awake
    BY <2>1, <1>1, Zenon DEF Awake
  <2>2. CASE ~Awake
    <3>1. Awake = FALSE
      BY <2>2, Zenon DEF Awake
    <3>2. Awake' \in BOOLEAN
      BY Zenon DEF Awake
    <3> QED BY <3>1, <3>2, Fields, Zenon
  <2> QED BY <2>1, <2>2, Zenon
<1>7. View.available # <<>> => Awake'
  <2> SUFFICES ASSUME Available # <<>> PROVE Awake'
    BY Fields, Zenon
  <2>1. device.avail_idx # avail.idx
    BY CaughtUp, Zenon
  <2>2. avail_idx' = avail.idx /\ device' = device
    BY <1>1, Zenon DEF SignalInv, NotifyInv
  <2>3. device'.state = "asleep" => notified'
    BY <1>1, <2>1, <2>2, Zenon DEF SignalInv, NotifyInv
  <2> QED BY <2>2, <2>3, Zenon DEF Awake
<1> QED BY <1>5, <1>6, <1>7, Zenon DEF Abstract!Notify

\* The device takes, uses, and goes to sleep when it finds nothing.
LEMMA DeviceTakes ==
  ASSUME IInv, RingInv, DeviceTake
  PROVE  Abstract!Take
<1>1. /\ device.state = "awake" /\ UNCHANGED <<outstanding, free, chain, pc, head, notified>>
      /\ device'.state = device.state
  <2>1. device \in [avail_idx : Index, held : SUBSET Desc, state : {"awake", "armed", "asleep"}]
    BY RingOfDriver, Zenon DEF Device
  <2> QED BY <2>1 DEF DeviceTake, driverVars, call, history
<1>2. Len(Available) > 0 /\ Available \in Seq(Desc) /\ Available' = Rest(Available)
      /\ device.held' = device.held \cup {Available[1]} /\ Returned' = Returned
  BY RingTake, Zenon DEF Taken, RingInv, Places
<1>3. Rest(Available) = Tail(Available) /\ Head(Available) = Available[1] /\ Available # <<>>
  BY <1>2, RestIsTail, Zenon
<1>4. UNCHANGED <<Free, Chains, Awake>>
  BY <1>1, Zenon DEF Free, Chains, Awake, Unpublished
<1>5. View' = [free |-> Free, chain |-> Chains, request |-> outstanding,
               available |-> Tail(Available), held |-> device.held \cup {Head(Available)},
               returned |-> Returned, awake |-> Awake]
  BY <1>1, <1>2, <1>3, <1>4, Zenon DEF View
<1>6. View' = [View EXCEPT !.held = @ \cup {Head(View.available)}, !.available = Tail(@)]
  <2>1. PICK v : v = [View EXCEPT !.held = @ \cup {Head(View.available)}, !.available = Tail(@)]
    BY Zenon
  <2>2. v = View'
    BY <2>1, <1>5, ViewTaken, Zenon
  <2> QED BY <2>1, <2>2, Zenon
<1>7. View.awake /\ View.available # <<>>
  BY <1>1, <1>3, Fields, Zenon DEF Awake
<1> QED BY <1>6, <1>7, Zenon DEF Abstract!Take

LEMMA DeviceUses ==
  ASSUME IInv, RingInv, NEW h \in Desc, DeviceUse(h)
  PROVE  Abstract!Use(h)
<1>1. /\ UNCHANGED <<outstanding, free, chain, pc, head, notified>>
      /\ device'.state = device.state
  <2>1. device \in [avail_idx : Index, held : SUBSET Desc, state : {"awake", "armed", "asleep"}]
    BY RingOfDriver, Zenon DEF Device
  <2> QED BY <2>1 DEF DeviceUse, driverVars, call, history
<1>2. h \in device.held /\ device.held' = device.held \ {h} /\ Returned' = Append(Returned, h)
      /\ Available' = Available
  BY RingUse, Zenon DEF GivenBack
<1>3. UNCHANGED <<Free, Chains, Awake>>
  BY <1>1, Zenon DEF Free, Chains, Awake, Unpublished
<1>4. View' = [free |-> Free, chain |-> Chains, request |-> outstanding,
               available |-> Available, held |-> device.held \ {h},
               returned |-> Append(Returned, h), awake |-> Awake]
  BY <1>1, <1>2, <1>3, Zenon DEF View
<1>5. View' = [View EXCEPT !.held = @ \ {h}, !.returned = Append(@, h)]
  <2>1. PICK v : v = [View EXCEPT !.held = @ \ {h}, !.returned = Append(@, h)]
    BY Zenon
  <2>2. v = View'
    BY <2>1, <1>4, ViewUsed, Zenon
  <2> QED BY <2>1, <2>2, Zenon
<1> QED BY <1>2, <1>5, Fields, Zenon DEF Abstract!Use

LEMMA DeviceRests ==
  ASSUME IInv, RingInv, DeviceSuppress \/ DeviceArm \/ DeviceCheck \/ DeviceWake
  PROVE  Abstract!Sleep \/ UNCHANGED View
<1>1. UNCHANGED <<outstanding, free, chain, pc, head>> /\ Still
  <2>1. UNCHANGED driverVars
    BY Zenon DEF DeviceSuppress, DeviceArm, DeviceCheck, DeviceWake
  <2> QED BY <2>1, RingDevice, Zenon DEF driverVars, call, history
<1>2. UNCHANGED <<Free, Chains>>
  BY <1>1, Zenon DEF Free, Chains, Unpublished
<1>3. device \in [avail_idx : Index, held : SUBSET Desc, state : {"awake", "armed", "asleep"}]
  BY RingOfDriver, Zenon DEF Device
<1>4. CASE UNCHANGED Awake
  BY <1>1, <1>2, <1>4, Stutter, Zenon
<1>5. CASE DeviceSuppress
  BY <1>4, <1>5, Zenon DEF DeviceSuppress, Awake
<1>6. CASE DeviceArm
  <2>1. device.state # "asleep" /\ device'.state # "asleep"
    BY <1>3, <1>6 DEF DeviceArm
  <2> QED BY <1>4, <2>1, Zenon DEF Awake
<1>7. CASE DeviceWake
  <2>1. notified /\ device'.state # "asleep"
    BY <1>3, <1>7 DEF DeviceWake
  <2> QED BY <1>4, <2>1, Zenon DEF Awake
<1>8. CASE DeviceCheck
  <2>1. /\ device.state = "armed" /\ notified' = notified
        /\ device'.state = IF device.avail_idx = avail.idx THEN "asleep" ELSE "awake"
    BY <1>3, <1>8, SMTT(30), SMTT(60) DEF DeviceCheck
  <2>2. CASE device.avail_idx # avail.idx
    <3>1. device.state # "asleep" /\ device'.state # "asleep"
      BY <2>1, <2>2
    <3> QED BY <1>4, <3>1, Zenon DEF Awake
  <2>3. CASE notified
    BY <1>4, <2>1, <2>3, Zenon DEF Awake
  <2>4. CASE device.avail_idx = avail.idx /\ ~notified
    <3>1. Awake /\ Awake' = FALSE
      BY <2>1, <2>4, Zenon DEF Awake
    <3>2. Available = <<>>
      BY <2>4, CaughtUp, Zenon
    <3>3. View' = [free |-> Free, chain |-> Chains, request |-> outstanding,
                   available |-> Available, held |-> device.held, returned |-> Returned,
                   awake |-> FALSE]
      BY <1>1, <1>2, <3>1, Zenon DEF View, Still
    <3>4. View' = [View EXCEPT !.awake = FALSE]
      <4>1. PICK v : v = [View EXCEPT !.awake = FALSE]
        BY Zenon
      <4>2. v = View'
        BY <4>1, <3>3, ViewWoken, Zenon
      <4> QED BY <4>1, <4>2, Zenon
    <3> QED BY <3>1, <3>2, <3>4, Fields, Zenon DEF Abstract!Sleep
  <2> QED BY <2>2, <2>3, <2>4, Zenon
<1> QED BY <1>5, <1>6, <1>7, <1>8, Zenon

\* The other steps of the driver are not seen.
LEMMA DriverHidden ==
  ASSUME IInv, RingInv,
         \/ (\E r \in Requests : AddBegin(r)) \/ AddDirect \/ AddDirectEnd \/ AddIndirect \/ AddRing
         \/ \E t \in Desc : PopBegin(t)
         \/ Recycle \/ Sleep \/ Wake
         \/ \E enable \in BOOLEAN : SetDevNotify(enable)
         \/ UNCHANGED vars
  PROVE  UNCHANGED View
<1>1. UNCHANGED <<outstanding, device, notified>> /\ Still
  <2>1. UNCHANGED <<outstanding, device, notified>>
    BY Zenon DEF AddBegin, AddDirect, AddDirectEnd, AddIndirect, AddRing, PopBegin, Recycle,
                 SetDevNotify, Sleep, Wake, vars
  <2> QED BY <2>1, RingQuiet, RingAddRing, Zenon
<1>2. UNCHANGED Awake
  BY <1>1, Zenon DEF Awake
<1>3. CASE (\E r \in Requests : AddBegin(r)) \/ AddDirect \/ AddDirectEnd \/ AddIndirect \/ AddRing
  BY <1>1, <1>2, <1>3, BuildingHidden, Stutter, Zenon
<1>4. CASE \/ \E t \in Desc : PopBegin(t)
           \/ Recycle \/ Sleep \/ Wake
           \/ \E enable \in BOOLEAN : SetDevNotify(enable)
  <2>1. UNCHANGED <<free, chain>>
    BY <1>4, Zenon DEF PopBegin, Recycle, SetDevNotify, Sleep, Wake, history
  <2>2. pc \in {"idle", "recycle", "asleep"}
    BY <1>4, Zenon DEF PopBegin, Recycle, SetDevNotify, Sleep, Wake
  <2>3. pc' \in {"idle", "recycle", "recycle_indirect", "asleep", "panic"}
    BY <1>4, Zenon DEF PopBegin, Recycle, SetDevNotify, Sleep, Wake, Goto, call
  <2>4. ~Unpublished /\ ~Unpublished'
    BY <2>2, <2>3 DEF Unpublished
  <2>5. UNCHANGED <<Free, Chains>>
    BY <2>1, <2>4, Zenon DEF Free, Chains
  <2> QED BY <1>1, <1>2, <2>5, Stutter, Zenon
<1>5. CASE UNCHANGED vars
  <2>1. UNCHANGED <<free, chain, pc, head>>
    BY <1>5, Zenon DEF vars, call, history
  <2>2. UNCHANGED <<Free, Chains>>
    BY <2>1, Zenon DEF Free, Chains, Unpublished
  <2> QED BY <1>1, <1>2, <2>2, Stutter, Zenon
<1> QED BY <1>3, <1>4, <1>5, Zenon

\* A step of the queue is a step of the abstract queue or is not seen.
LEMMA StepRefines ==
  ASSUME IInv, IInv', RingInv, SharedInv, SignalInv', [Next]_vars
  PROVE  [Abstract!Next]_View
<1>1. CASE AddPublish
  BY <1>1, PublishAdds, Zenon DEF Abstract!Next
<1>2. CASE Notify
  BY <1>2, NotifyWakes, Zenon DEF Abstract!Next
<1>3. CASE RecycleEnd \/ RecycleIndirect
  BY <1>3, RecyclePops, Zenon DEF Abstract!Next
<1>4. CASE DeviceTake
  BY <1>4, DeviceTakes, Zenon DEF Abstract!Next, Abstract!Device
<1>5. ASSUME NEW h \in Desc, DeviceUse(h) PROVE Abstract!Next
  <2>1. h \in Abstract!Tokens
    BY Zenon DEF Abstract!Tokens, Desc
  <2> QED BY <1>5, <2>1, DeviceUses, Zenon DEF Abstract!Next, Abstract!Device
<1>6. CASE DeviceSuppress \/ DeviceArm \/ DeviceCheck \/ DeviceWake
  BY <1>6, DeviceRests, Zenon DEF Abstract!Next, Abstract!Device
<1>7. CASE \/ (\E r \in Requests : AddBegin(r)) \/ AddDirect \/ AddDirectEnd \/ AddIndirect \/ AddRing
           \/ \E t \in Desc : PopBegin(t)
           \/ Recycle \/ Sleep \/ Wake
           \/ \E enable \in BOOLEAN : SetDevNotify(enable)
           \/ UNCHANGED vars
  BY <1>7, DriverHidden, Zenon
<1> QED BY <1>1, <1>2, <1>3, <1>4, <1>5, <1>6, <1>7, Zenon DEF Next, Driver, Device

LEMMA InitRefines == Init => Abstract!Init
<1> SUFFICES ASSUME Init PROVE View = Abstract!Empty
  BY Zenon DEF Abstract!Init
<1>1. /\ pc = "idle" /\ free = [i \in 1 .. SIZE |-> i - 1] /\ chain = [d \in Desc |-> <<>>]
      /\ outstanding = [d \in Desc |-> None]
      /\ avail.idx = 0 /\ used.idx = 0 /\ last_used_idx = 0
      /\ device.avail_idx = 0 /\ device.held = {} /\ device.state = "awake"
  BY DEF Init
<1>2. Free = free /\ Chains = chain /\ Awake = TRUE
  BY <1>1 DEF Free, Chains, Unpublished, Awake
<1>3. Available = <<>> /\ Returned = <<>>
  <2>1. 0 \in Index
    BY SizeAssumption DEF Index
  <2> QED BY <1>1, <2>1, WindowEmpty, Zenon DEF Available, Returned
<1>4. Abstract!Tokens = Desc
  BY Zenon DEF Abstract!Tokens, Desc
<1> QED BY <1>1, <1>2, <1>3, <1>4, Zenon DEF View, Abstract!Empty

\* VirtQueue implements AbstractQueue: each call of add, should_notify and
\* pop_used and each step of the device, however many steps it takes and however
\* the two sides interleave, is one step of a queue whose two rings are
\* sequences and whose free list is a stack of chains.
THEOREM ImplementsQueue == Spec => Abstract!Safety
<1>1. IInv /\ IInv' /\ RingInv /\ SharedInv /\ SignalInv' /\ [Next]_vars => [Abstract!Next]_View
  BY StepRefines, Zenon
<1> QED BY <1>1, InitRefines, Invariance, RingsExact, BuffersLive, SignalsKept, PTL
        DEF Spec, Abstract!Safety
=============================================================================
