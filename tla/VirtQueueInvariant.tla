------------------------- MODULE VirtQueueInvariant -------------------------
(***************************************************************************)
(* The inductive invariant of VirtQueue, for every queue size, every set of*)
(* requests and every behaviour of the device that the specification       *)
(* allows: its statement, the facts about the operators of the model that  *)
(* its proof needs, and the steps of the device and of add.                *)
(***************************************************************************)
EXTENDS VirtQueue, BasicFacts

-----------------------------------------------------------------------------
(* The inductive invariant: what every pc knows about the call in progress   *)
(* and, for every head, what its chain looks like in the shadow.             *)

N(r) == Len(Bufs(r))
UsesList(r) == indirect /\ N(r) > 1

Entry == [addr : Buffers, flags : SUBSET Flags, next : Nat]

\* The head of the call in progress, whose chain belongs to no token yet.
Adding(h) == h = head /\ pc \in {"avail_ring", "avail_idx"}

\* A complete chain of direct descriptors for request r.
DirectChain(h, r) ==
  /\ ~UsesList(r)
  /\ N(r) \in 1 .. SIZE
  /\ indirect_lists[h] = None
  /\ Len(chain[h]) = N(r)
  /\ chain[h][1] = h
  /\ \A i \in 1 .. N(r) :
       LET d == desc_shadow[chain[h][i]]
       IN  /\ "INDIRECT" \notin d.flags
           /\ "NEXT" \in d.flags <=> i < N(r)
           /\ i < N(r) => d.next = chain[h][i + 1]
           /\ (pc = "recycle" /\ h = head => i > k) => d.addr = Bufs(r)[i]

\* A descriptor that points to the list of request r.
ListChain(h, r) ==
  /\ UsesList(r)
  /\ N(r) \in 1 .. SIZE
  /\ indirect_lists[h] = IndirectList(r)
  /\ chain[h] = <<h>>
  /\ "INDIRECT" \in desc_shadow[h].flags
  /\ desc_shadow[h].addr = ListAddr

ChainOf(h, r) == DirectChain(h, r) \/ ListChain(h, r)

ChainInv ==
  \A h \in Desc :
    /\ outstanding[h] # None => ChainOf(h, outstanding[h])
    /\ Adding(h) => outstanding[h] = None /\ ChainOf(h, cur)
    /\ outstanding[h] = None /\ ~Adding(h) => indirect_lists[h] = None
    /\ outstanding[h] = None /\ ~Adding(h) /\ ~(pc = "add_direct" /\ h = head)
         => chain[h] = <<>>

AddInv ==
  /\ pc \in {"add_direct", "add_indirect"} =>
       /\ cur \in Requests
       /\ N(cur) \in 1 .. SIZE
       /\ outstanding[head] = None
       /\ Len(free) > 0 \/ k = N(cur)
  /\ pc = "add_indirect" => UsesList(cur) /\ k = 0 /\ head = free_head
  /\ pc = "add_direct" =>
       /\ ~UsesList(cur)
       /\ k <= N(cur)
       /\ Len(free) >= N(cur) - k
       /\ Len(chain[head]) = k
       /\ k = 0 => head = free_head
       /\ k > 0 => /\ chain[head][1] = head
                   /\ last = chain[head][k]
                   /\ desc_shadow[last].next = free_head
       /\ \A i \in 1 .. k :
            LET d == desc_shadow[chain[head][i]]
            IN  /\ "INDIRECT" \notin d.flags
                /\ "NEXT" \in d.flags
                /\ i < k => d.next = chain[head][i + 1]
                /\ d.addr = Bufs(cur)[i]
  /\ pc \in {"avail_ring", "avail_idx"} => cur \in Requests

RecycleInv ==
  /\ pc \in {"recycle", "recycle_indirect"} =>
       /\ cur \in Requests
       /\ outstanding[head] = cur
       /\ free_head = head
  /\ pc = "recycle_indirect" => UsesList(cur)
  /\ pc = "recycle" =>
       /\ ~UsesList(cur)
       /\ k <= N(cur)
       /\ next = IF k < N(cur) THEN chain[head][k + 1] ELSE None
       /\ k = N(cur) => desc_shadow[chain[head][k]].next = original_free_head

IInv ==
  /\ TypeOK
  /\ indirect_lists \in [Desc -> Seq(Entry) \cup {None}]
  /\ NoPanic
  /\ pc \notin {"add_direct", "recycle"} => k = 0
  /\ DescriptorsAccounted
  /\ FreeListLinked
  /\ ChainInv
  /\ AddInv
  /\ RecycleInv

-----------------------------------------------------------------------------
(* Facts about the operators the model is built from *)

\* Masking an index gives a slot of the ring, incrementing it an index.
LEMMA IndexFacts ==
  /\ \A i \in Index : Inc(i) \in Index /\ Slot(i) \in Desc
  /\ \A i \in Index : (i + SIZE - 1) % IndexModulus \in Index
<1>1. \A i \in Nat : i % SIZE \in Desc /\ i % IndexModulus \in Index
  BY SizeAssumption DEF Desc, Index
<1>2. \A i \in Index : i \in Nat /\ i + 1 \in Nat /\ i + SIZE - 1 \in Nat
  BY SizeAssumption DEF Index
<1> QED BY <1>1, <1>2 DEF Inc, Slot

\* The buffers of a request are a sequence of buffers.
LEMMA BufsFacts ==
  ASSUME NEW r \in Requests
  PROVE  /\ Bufs(r) \in Seq(Buffers)
         /\ N(r) \in Nat
         /\ \A i \in 1 .. N(r) : Bufs(r)[i] \in Buffers
BY RequestAssumption DEF Bufs, N

\* The list that add_indirect builds has one entry for every buffer, with its
\* address.
LEMMA ListFacts ==
  ASSUME NEW r \in Requests
  PROVE  /\ IndirectList(r) \in Seq(Entry)
         /\ IndirectList(r) # None
         /\ Len(IndirectList(r)) = N(r)
         /\ \A i \in 1 .. N(r) : IndirectList(r)[i].addr = Bufs(r)[i]
<1>1. \A i \in 1 .. N(r) : /\ IndirectList(r)[i] \in Entry
                           /\ IndirectList(r)[i].addr = Bufs(r)[i]
  BY BufsFacts DEF IndirectList, Zeroed, SetBuf, Entry, Flags, N
<1>2. IndirectList(r) = [i \in 1 .. N(r) |-> IndirectList(r)[i]]
  BY DEF IndirectList, N
<1>3. IndirectList(r) \in Seq(Entry) /\ Len(IndirectList(r)) = N(r)
  BY <1>1, <1>2, BufsFacts
<1> QED BY <1>1, <1>3, ListAssumption

\* A descriptor keeps its type when a buffer is set or unset.
LEMMA DescriptorFacts ==
  ASSUME NEW d \in Descriptor, NEW a \in Buffers \cup {ListAddr}, NEW w \in BOOLEAN,
         NEW f \in SUBSET Flags, NEW n \in Desc
  PROVE  /\ SetBuf(d, a, w, f) \in Descriptor
         /\ UnsetBuf(d) \in Descriptor
         /\ [d EXCEPT !.next = n] \in Descriptor
         /\ [d EXCEPT !.flags = @ \ {"NEXT"}] \in Descriptor
         /\ SetBuf(d, a, w, f).addr = a
         /\ SetBuf(d, a, w, f).next = d.next
         /\ UnsetBuf(d).next = d.next /\ UnsetBuf(d).flags = d.flags
BY DEF Descriptor, SetBuf, UnsetBuf, Flags

\* What the operations on the free list and the chains do to the descriptors
\* in them: appending one, concatenation, taking the first.
LEMMA SeqFacts ==
  ASSUME NEW s \in Seq(Desc)
  PROVE  /\ DOMAIN s = 1 .. Len(s) /\ Len(s) \in Nat
         /\ \A i \in 1 .. Len(s) : s[i] \in Range(s) /\ s[i] \in Desc
         /\ \A d \in Range(s) : \E i \in 1 .. Len(s) : d = s[i]
BY SequenceFacts, Zenon

LEMMA AppendFacts ==
  ASSUME NEW s \in Seq(Desc), NEW d \in Desc
  PROVE  /\ Append(s, d) \in Seq(Desc) /\ Len(Append(s, d)) = Len(s) + 1
         /\ \A i \in 1 .. Len(s) : Append(s, d)[i] = s[i]
         /\ Append(s, d)[Len(s) + 1] = d
         /\ Range(Append(s, d)) = Range(s) \cup {d}
         /\ IsInjective(s) /\ d \notin Range(s) => IsInjective(Append(s, d))
BY AppendingFacts, Zenon

LEMMA ConcatFacts ==
  ASSUME NEW s \in Seq(Desc), NEW t \in Seq(Desc)
  PROVE  /\ s \o t \in Seq(Desc) /\ Len(s \o t) = Len(s) + Len(t)
         /\ \A i \in 1 .. Len(s) : (s \o t)[i] = s[i]
         /\ \A i \in 1 .. Len(t) : (s \o t)[Len(s) + i] = t[i]
         /\ Range(s \o t) = Range(s) \cup Range(t)
         /\ IsInjective(s) /\ IsInjective(t) /\ Range(s) \cap Range(t) = {}
              => IsInjective(s \o t)
BY ConcatenationFacts, Zenon

LEMMA RestFacts ==
  ASSUME NEW s \in Seq(Desc), Len(s) > 0
  PROVE  /\ Rest(s) \in Seq(Desc) /\ Len(Rest(s)) = Len(s) - 1
         /\ \A i \in 1 .. Len(Rest(s)) : Rest(s)[i] = s[i + 1]
         /\ Range(s) = Range(Rest(s)) \cup {s[1]}
         /\ IsInjective(s) => IsInjective(Rest(s)) /\ s[1] \notin Range(Rest(s))
<1> DEFINE t == Rest(s)
<1>1. Len(s) \in Nat /\ 1 \in 1 .. Len(s) /\ \A i \in 2 .. Len(s) : s[i] \in Desc
  OBVIOUS
<1>2. /\ t \in Seq(Desc) /\ Len(t) = Len(s) - 1
      /\ \A i \in 1 .. Len(t) : t[i] = s[i + 1]
  <2>1. Len(s) - 1 \in Nat /\ \A i \in 1 .. Len(s) - 1 : i + 1 \in 1 .. Len(s)
    BY <1>1
  <2>2. \A i \in 1 .. Len(s) - 1 : s[i + 1] \in Desc
    BY <2>1
  <2> QED BY <2>1, <2>2 DEF Rest
<1> HIDE DEF t
<1>3. Range(t) \cup {s[1]} \subseteq Range(s)
  <2>1. \A i \in 1 .. Len(t) : t[i] \in Range(s)
    BY <1>1, <1>2, SeqFacts
  <2>2. \A d \in Range(t) : \E i \in 1 .. Len(t) : d = t[i]
    BY <1>2, SeqFacts
  <2>3. s[1] \in Range(s)
    BY <1>1, SeqFacts
  <2> QED BY <2>1, <2>2, <2>3
<1>4. Range(s) \subseteq Range(t) \cup {s[1]}
  <2> SUFFICES ASSUME NEW i \in 1 .. Len(s), i # 1 PROVE s[i] \in Range(t)
    BY SeqFacts
  <2>1. i - 1 \in 1 .. Len(t) /\ t[i - 1] = s[(i - 1) + 1] /\ (i - 1) + 1 = i
    BY <1>1, <1>2
  <2> QED BY <2>1, <1>2, SeqFacts
<1>5. ASSUME IsInjective(s) PROVE IsInjective(t) /\ s[1] \notin Range(t)
  <2>1. \A i, j \in 1 .. Len(s) : s[i] = s[j] => i = j
    BY <1>5 DEF IsInjective
  <2>2. \A i \in 1 .. Len(t) : i + 1 \in 1 .. Len(s) /\ i + 1 # 1
    BY <1>1, <1>2
  <2>3. \A i, j \in 1 .. Len(t) : t[i] = t[j] => i = j
    <3> SUFFICES ASSUME NEW i \in 1 .. Len(t), NEW j \in 1 .. Len(t), t[i] = t[j] PROVE i = j
      OBVIOUS
    <3>1. i + 1 = j + 1
      BY <1>2, <2>1, <2>2
    <3> QED BY <3>1
  <2>4. \A i \in 1 .. Len(t) : t[i] # s[1]
    BY <1>1, <1>2, <2>1, <2>2
  <2>5. IsInjective(t)
    BY <1>2, <2>3, SeqFacts DEF IsInjective
  <2> QED BY <1>2, <2>4, <2>5, SeqFacts
<1> QED BY <1>2, <1>3, <1>4, <1>5 DEF t

-----------------------------------------------------------------------------
(* The invariant holds initially *)

LEMMA InitInv == Init => IInv
<1> SUFFICES ASSUME Init PROVE IInv
  OBVIOUS
<1>1. 0 \in Desc /\ 0 \in Index /\ SIZE \in Nat
  BY SizeAssumption DEF Desc, Index
<1>2. free \in Seq(Desc) /\ Len(free) = SIZE /\ \A i \in 1 .. SIZE : free[i] = i - 1
  BY <1>1, SizeAssumption DEF Init, Desc
<1>3. desc_shadow \in [Desc -> Descriptor] /\ \A d \in Desc : d < SIZE - 1 => desc_shadow[d].next = d + 1
  BY <1>1, SizeAssumption DEF Init, Desc, Descriptor
<1>4. TypeOK
  <2>1. /\ num_used \in 0 .. SIZE /\ free_head \in Desc /\ k \in 0 .. SIZE
        /\ avail_idx \in Index /\ last_used_idx \in Index
        /\ head \in Desc /\ last \in Desc /\ original_free_head \in Desc
        /\ desc \in [Desc -> Descriptor]
    BY <1>1, <1>3 DEF Init
  <2>2. /\ avail \in [ring : [Desc -> Desc], idx : Index, flags : {0, 1}, used_event : Index]
        /\ used \in [ring : [Desc -> Desc], idx : Index, flags : {0, 1}, avail_event : Index]
        /\ device \in [avail_idx : Index, held : SUBSET Desc, state : {"awake", "armed", "asleep"}]
    BY <1>1 DEF Init
  <2>3. chain \in [Desc -> Seq(Desc)] /\ outstanding \in [Desc -> Requests \cup {None}]
    BY DEF Init
  <2> QED BY <2>1, <2>2, <2>3, <1>2, <1>3, Zenon DEF Init, TypeOK
<1>5. DescriptorsAccounted
  <2>1. IsInjective(free) /\ \A d \in Desc : d \in Range(free)
    <3>1. \A d \in Desc : d + 1 \in 1 .. Len(free) /\ free[d + 1] = d
      BY <1>1, <1>2 DEF Desc
    <3>2. \A i, j \in 1 .. Len(free) : free[i] = free[j] => i = j
      BY <1>1, <1>2
    <3> QED BY <1>2, <3>1, <3>2, SeqFacts, SMTT(30), SMTT(60) DEF IsInjective
  <2>2. \A h \in Desc : chain[h] = <<>>
    BY DEF Init
  <2>3. Range(<<>>) = {} /\ IsInjective(<<>>)
    BY DEF Range, IsInjective
  <2>4. num_used + k + Len(free) = SIZE
    BY <1>1, <1>2 DEF Init
  <2> QED BY <2>1, <2>2, <2>3, <2>4 DEF DescriptorsAccounted, Accounted
<1>6. FreeListLinked
  BY <1>2, <1>3, <1>1, SMTT(30) DEF Init, FreeListLinked, Desc
<1>7. ChainInv /\ AddInv /\ RecycleInv
  BY DEF Init, ChainInv, AddInv, RecycleInv, Adding
<1> QED BY <1>4, <1>5, <1>6, <1>7 DEF Init, IInv, NoPanic

-----------------------------------------------------------------------------
(* The device's steps: no variable of the driver changes *)

LEMMA DeviceType == IInv /\ Device => TypeOK'
<1> SUFFICES ASSUME IInv, Device PROVE TypeOK'
  OBVIOUS
<1> DEFINE DeviceTypes == [avail_idx : Index, held : SUBSET Desc, state : {"awake", "armed", "asleep"}]
           UsedTypes == [ring : [Desc -> Desc], idx : Index, flags : {0, 1}, avail_event : Index]
<1>a. /\ device \in DeviceTypes /\ used \in UsedTypes
      /\ avail.ring \in [Desc -> Desc] /\ avail.idx \in Index
      /\ notified \in BOOLEAN /\ interrupt \in BOOLEAN
  BY DEF IInv, TypeOK
<1>b. ASSUME UNCHANGED driverVars, device' \in DeviceTypes, used' \in UsedTypes,
             notified' \in BOOLEAN, interrupt' \in BOOLEAN
      PROVE  TypeOK'
  BY <1>b DEF IInv, TypeOK, driverVars, fields, call, history
<1>1. CASE DeviceTake
  <2>1. device' \in DeviceTypes
    <3>1. Slot(device.avail_idx) \in Desc /\ Inc(device.avail_idx) \in Index
      BY <1>a, IndexFacts
    <3>2. avail.ring[Slot(device.avail_idx)] \in Desc
      BY <1>a, <3>1
    <3> QED BY <1>1, <1>a, <3>1, <3>2, Zenon DEF DeviceTake
  <2> QED BY <1>1, <1>a, <1>b, <2>1 DEF DeviceTake
<1>2. ASSUME NEW h \in Desc, DeviceUse(h) PROVE TypeOK'
  <2>1. device' \in DeviceTypes
    BY <1>2, <1>a DEF DeviceUse
  <2>2. used' \in UsedTypes
    <3>1. Slot(used.idx) \in Desc /\ Inc(used.idx) \in Index
      BY <1>a, IndexFacts
    <3> QED BY <1>2, <1>a, <3>1, Zenon DEF DeviceUse
  <2>3. interrupt' \in BOOLEAN /\ notified' \in BOOLEAN /\ UNCHANGED driverVars
    BY <1>2, <1>a, Zenon DEF DeviceUse
  <2> QED BY <1>b, <2>1, <2>2, <2>3, Zenon
<1>3. CASE DeviceSuppress
  <2>1. (device.avail_idx + SIZE - 1) % IndexModulus \in Index
    BY <1>a, IndexFacts
  <2>2. used' \in UsedTypes
    BY <1>3, <1>a, <2>1 DEF DeviceSuppress
  <2> QED BY <1>3, <1>a, <1>b, <2>2 DEF DeviceSuppress
<1>4. CASE DeviceArm
  <2>1. device' \in DeviceTypes
    BY <1>4, <1>a DEF DeviceArm
  <2>2. used' \in UsedTypes
    BY <1>4, <1>a DEF DeviceArm
  <2> QED BY <1>4, <1>a, <1>b, <2>1, <2>2 DEF DeviceArm
<1>5. CASE DeviceCheck
  <2>1. device' \in DeviceTypes
    BY <1>5, <1>a DEF DeviceCheck
  <2> QED BY <1>5, <1>a, <1>b, <2>1 DEF DeviceCheck
<1>6. CASE DeviceWake
  <2>1. device' \in DeviceTypes
    BY <1>6, <1>a DEF DeviceWake
  <2> QED BY <1>6, <1>a, <1>b, <2>1, ZenonT(30) DEF DeviceWake
<1> QED BY <1>1, <1>2, <1>3, <1>4, <1>5, <1>6 DEF Device

\* What the conjuncts of IInv other than TypeOK depend on.
owned == <<num_used, free_head, desc_shadow, indirect_lists, call, outstanding, history>>

LEMMA Frame == IInv /\ UNCHANGED owned /\ TypeOK' => IInv'
<1> SUFFICES ASSUME IInv, UNCHANGED owned, TypeOK' PROVE IInv'
  OBVIOUS
<1> USE DEF IInv, owned, call, history
<1>1. DescriptorsAccounted'
  BY DEF DescriptorsAccounted
<1>2. FreeListLinked'
  BY Zenon DEF FreeListLinked
<1>3. ChainInv'
  BY SMTT(30) DEF ChainInv, Adding, ChainOf, DirectChain, ListChain
<1>4. AddInv'
  BY Zenon DEF AddInv
<1>5. RecycleInv'
  BY DEF RecycleInv
<1> QED BY <1>1, <1>2, <1>3, <1>4, <1>5 DEF NoPanic

LEMMA DeviceInv == IInv /\ Device => IInv'
<1> SUFFICES ASSUME IInv, Device PROVE IInv'
  BY SMTT(30)
<1>1. UNCHANGED owned
  BY Zenon DEF Device, DeviceTake, DeviceUse, DeviceSuppress, DeviceArm, DeviceCheck, DeviceWake,
         driverVars, owned, fields
<1> QED BY <1>1, DeviceType, Frame

-----------------------------------------------------------------------------
(* The driver's steps that leave the table, the chains and the free list alone *)

\* A chain that is not being recycled stays what it is as long as nobody writes
\* its descriptors or its list.
LEMMA ChainFrame ==
  ASSUME NEW h \in Desc, NEW r \in Requests, TypeOK,
         ChainOf(h, r),
         ~(pc = "recycle" /\ h = head),
         indirect_lists'[h] = indirect_lists[h],
         chain'[h] = chain[h],
         \A i \in 1 .. Len(chain[h]) : desc_shadow'[chain[h][i]] = desc_shadow[chain[h][i]]
  PROVE  ChainOf(h, r)'
<1>1. CASE DirectChain(h, r)
  BY <1>1, SMTT(30), SMTT(60) DEF DirectChain, ChainOf
<1>2. CASE ListChain(h, r)
  <2>1. desc_shadow'[h] = desc_shadow[h]
    <3>1. Len(chain[h]) = 1 /\ chain[h][1] = h
      BY <1>2 DEF ListChain
    <3> QED BY <3>1
  <2> QED BY <1>2, <2>1 DEF ListChain, ChainOf
<1> QED BY <1>1, <1>2, Zenon DEF ChainOf

LEMMA TokenFrame ==
  ASSUME NEW h \in Desc, TypeOK,
         outstanding[h] \in Requests, outstanding'[h] = outstanding[h],
         ChainOf(h, outstanding[h]),
         ~(pc = "recycle" /\ h = head),
         indirect_lists'[h] = indirect_lists[h],
         chain'[h] = chain[h],
         \A i \in 1 .. Len(chain[h]) : desc_shadow'[chain[h][i]] = desc_shadow[chain[h][i]]
  PROVE  ChainOf(h, outstanding[h])'
<1>1. \A r \in Requests : ChainOf(h, r) => ChainOf(h, r)'
  BY ChainFrame
<1>2. PICK r \in Requests : r = outstanding[h] /\ r = outstanding'[h]
  OBVIOUS
<1>3. DirectChain(h, r)' \/ ListChain(h, r)'
  BY <1>1, <1>2, Zenon DEF ChainOf
<1>4. CASE DirectChain(h, r)'
  BY <1>2, <1>4, SMTT(30) DEF ChainOf, DirectChain
<1>5. CASE ListChain(h, r)'
  BY <1>2, <1>5 DEF ChainOf, ListChain
<1> QED BY <1>3, <1>4, <1>5

\* Between calls nothing is known of a chain that a step could break, as long as
\* it leaves the shadow and the chains alone.
LEMMA SameChains ==
  ASSUME IInv, UNCHANGED <<desc_shadow, indirect_lists, outstanding, chain>>,
         pc \in {"idle", "asleep", "notify"}, pc' \notin {"avail_ring", "avail_idx"}
  PROVE  ChainInv'
<1>1. TypeOK /\ ChainInv /\ outstanding \in [Desc -> Requests \cup {None}]
  BY Zenon DEF IInv, TypeOK
<1>2. ASSUME NEW h \in Desc, outstanding[h] # None PROVE ChainOf(h, outstanding[h])'
  <2>1. ChainOf(h, outstanding[h]) /\ outstanding[h] \in Requests
    BY <1>1, <1>2 DEF ChainInv
  <2> QED BY <1>1, <2>1, TokenFrame
<1>3. ASSUME NEW h \in Desc, outstanding[h] = None
      PROVE  indirect_lists[h] = None /\ chain[h] = <<>>
  BY <1>1, <1>3 DEF ChainInv, Adding
<1> QED BY <1>2, <1>3 DEF ChainInv, Adding

core == <<num_used, free_head, desc_shadow, indirect_lists, outstanding, history>>

LEMMA Quiet ==
  ASSUME IInv, TypeOK', UNCHANGED core,
         pc \in {"idle", "asleep", "notify"},
         pc' \in {"idle", "asleep", "notify"}, k' = 0
  PROVE  IInv'
<1> USE DEF IInv, core, history
<1>1. DescriptorsAccounted'
  BY DEF DescriptorsAccounted
<1>2. FreeListLinked'
  BY SMTT(30) DEF FreeListLinked
<1>3. ChainInv'
  BY SameChains, Zenon
<1>4. AddInv' /\ RecycleInv'
  BY DEF AddInv, RecycleInv
<1> QED BY <1>1, <1>2, <1>3, <1>4 DEF NoPanic

LEMMA CallerInv ==
  IInv /\ (Notify \/ Sleep \/ Wake \/ \E e \in BOOLEAN : SetDevNotify(e)) => IInv'
<1>1. ASSUME IInv, Notify PROVE IInv'
  <2>1. TypeOK'
    <3>1. (notified \/ should_notify) \in BOOLEAN
      OBVIOUS
    <3>2. 0 \in Desc /\ 0 \in 0 .. SIZE
      BY SizeAssumption DEF Desc
    <3> QED BY <1>1, <3>1, <3>2 DEF IInv, TypeOK, Notify, Return, fields, history
  <2> QED BY <1>1, <2>1, Quiet, Zenon DEF Notify, Return, core, fields
<1>2. ASSUME IInv, Sleep PROVE IInv'
  <2>1. TypeOK'
    BY <1>2, SMTT(30) DEF IInv, TypeOK, Sleep, Goto, fields, history
  <2> QED BY <1>2, <2>1, Quiet, SMTT(30) DEF Sleep, Goto, core, fields, IInv
<1>3. ASSUME IInv, Wake PROVE IInv'
  <2>1. TypeOK'
    BY <1>3, Zenon DEF IInv, TypeOK, Wake, Goto, fields, history
  <2> QED BY <1>3, <2>1, Quiet DEF Wake, Goto, core, fields, IInv
<1>4. ASSUME IInv, NEW e \in BOOLEAN, SetDevNotify(e) PROVE IInv'
  <2>1. TypeOK'
    BY <1>4, ZenonT(30) DEF IInv, TypeOK, SetDevNotify, fields, call, history
  <2> QED BY <1>4, <2>1, Frame DEF SetDevNotify, owned, fields
<1> QED BY <1>1, <1>2, <1>3, <1>4

-----------------------------------------------------------------------------
(* The steps that write no descriptor *)

LEMMA AddBeginInv == ASSUME IInv, NEW r \in Requests, AddBegin(r) PROVE IInv'
<1>1. /\ pc = "idle" /\ k = 0 /\ k' = 0 /\ cur' = r /\ head' = free_head /\ UNCHANGED core
      /\ pc' \in {"add_direct", "add_indirect"}
      /\ pc' = "add_indirect" <=> UsesList(r)
  BY DEF IInv, core, UsesList, N, AddBegin, Goto, fields, history
<1>2. TypeOK'
  BY <1>1, SizeAssumption, ZenonT(40) DEF IInv, TypeOK, core, AddBegin, Goto, fields, history
<1>3. N(r) \in 1 .. SIZE /\ Len(free) > 0 /\ (~UsesList(r) => Len(free) >= N(r))
  <2>1. num_used + Len(free) = SIZE /\ num_used \in Nat /\ Len(free) \in Nat
    BY <1>1 DEF IInv, DescriptorsAccounted, TypeOK
  <2> QED BY <2>1, BufsFacts, SizeAssumption, ConstantAssumption DEF CanAdd, UsesList, N, AddBegin
<1>4. DescriptorsAccounted' /\ FreeListLinked'
  BY <1>1 DEF IInv, DescriptorsAccounted, FreeListLinked, core, history
<1>5. outstanding[free_head] = None /\ chain[free_head] = <<>>
  <2>1. free_head \in Desc /\ free[1] = free_head /\ 1 \in 1 .. Len(free)
    BY <1>1, <1>3 DEF IInv, FreeListLinked, TypeOK
  <2>2. ASSUME outstanding[free_head] # None PROVE FALSE
    <3>1. ChainOf(free_head, outstanding[free_head])
      BY <2>1, <2>2, Zenon DEF IInv, ChainInv
    <3>2. Len(chain[free_head]) >= 1 /\ chain[free_head][1] = free_head
      BY <3>1, SMTT(30) DEF ChainOf, DirectChain, ListChain
    <3>3. Len(chain[free_head]) \in Nat /\ 1 \in 1 .. Len(chain[free_head])
      BY <3>2, <2>1 DEF IInv, TypeOK
    <3>4. free[1] # chain[free_head][1]
      BY <3>3, <2>1, SeqFacts, SMTT(30), SMTT(60) DEF IInv, TypeOK, DescriptorsAccounted, Accounted
    <3> QED BY <3>4, <3>2, <2>1, Zenon
  <2> QED BY <2>1, <2>2, <1>1, Zenon DEF IInv, ChainInv, Adding
<1>6. ChainInv'
  BY <1>1, SameChains DEF core, history
<1>7. AddInv'
  BY <1>1, <1>3, <1>5, SMTT(30), SMTT(60) DEF AddInv, core, history
<1>8. RecycleInv'
  BY <1>1 DEF RecycleInv
<1> QED BY <1>1, <1>2, <1>4, <1>6, <1>7, <1>8 DEF IInv, NoPanic, core

LEMMA AddRingInv == IInv /\ AddRing => IInv'
<1> SUFFICES ASSUME IInv, AddRing PROVE IInv'
  OBVIOUS
<1> USE DEF AddRing, Goto, fields, history
<1>1. /\ pc = "avail_ring" /\ pc' = "avail_idx" /\ k = 0 /\ UNCHANGED core
      /\ UNCHANGED <<cur, k, head, last, next, original_free_head>>
  BY DEF IInv, core
<1>2. TypeOK'
  BY <1>1, IndexFacts, Zenon DEF IInv, TypeOK, core
<1>3. DescriptorsAccounted' /\ FreeListLinked'
  BY <1>1 DEF IInv, DescriptorsAccounted, FreeListLinked, core
<1>4. ChainInv'
  BY <1>1 DEF IInv, ChainInv, Adding, ChainOf, DirectChain, ListChain, core
<1>5. AddInv' /\ RecycleInv'
  BY <1>1 DEF IInv, AddInv, RecycleInv
<1> QED BY <1>1, <1>2, <1>3, <1>4, <1>5 DEF IInv, NoPanic, core

LEMMA AddPublishInv == IInv /\ AddPublish => IInv'
<1> SUFFICES ASSUME IInv, AddPublish PROVE IInv'
  OBVIOUS
<1> USE DEF AddPublish, Goto, history
<1>1. /\ pc = "avail_idx" /\ pc' = "notify" /\ k = 0 /\ k' = 0
      /\ cur \in Requests /\ head \in Desc
      /\ UNCHANGED <<num_used, free_head, desc_shadow, indirect_lists, free, chain, head>>
  BY DEF IInv, AddInv, TypeOK
<1>2. TypeOK'
  BY <1>1, IndexFacts, ZenonT(30) DEF IInv, TypeOK
<1>3. DescriptorsAccounted' /\ FreeListLinked'
  BY <1>1 DEF IInv, DescriptorsAccounted, FreeListLinked
<1>4. /\ outstanding'[head] = cur /\ cur # None
      /\ \A h \in Desc : h # head => outstanding'[h] = outstanding[h]
  BY <1>1, ConstantAssumption DEF IInv, TypeOK
<1>5. ChainInv'
  <2> SUFFICES ASSUME NEW h \in Desc
               PROVE  /\ outstanding'[h] # None => ChainOf(h, outstanding[h])'
                      /\ outstanding'[h] = None => indirect_lists'[h] = None /\ chain'[h] = <<>>
    BY <1>1, SMTT(30), SMTT(60) DEF ChainInv, Adding
  <2>1. CASE h = head
    <3>1. ChainOf(h, cur)
      BY <2>1, <1>1, SMTT(30), SMTT(60) DEF IInv, ChainInv, Adding
    <3>2. ChainOf(h, cur)'
      BY <3>1, <1>1, SMTT(30), SMTT(60) DEF ChainOf, DirectChain, ListChain
    <3> QED BY <3>2, <2>1, <1>1, <1>4 DEF ChainOf, DirectChain, ListChain
  <2>2. CASE h # head
    BY <2>2, <1>1, <1>4 DEF IInv, ChainInv, Adding, ChainOf, DirectChain, ListChain
  <2> QED BY <2>1, <2>2
<1>6. AddInv' /\ RecycleInv'
  BY <1>1 DEF AddInv, RecycleInv
<1> QED BY <1>1, <1>2, <1>3, <1>5, <1>6 DEF IInv, NoPanic

-----------------------------------------------------------------------------
(* A descriptor moves from the free list to the chain being built *)

\* The first free descriptor is in no chain.
LEMMA FirstFree ==
  ASSUME IInv, Len(free) > 0, pc \in {"add_direct", "add_indirect"}
  PROVE  /\ free[1] = free_head /\ free_head \in Desc
         /\ \A h \in Desc : \A i \in 1 .. Len(chain[h]) : chain[h][i] # free_head
         /\ \A h \in Desc : free_head \notin Range(chain[h])
<1>1. /\ free[1] = free_head /\ free_head \in Desc /\ 1 \in 1 .. Len(free)
      /\ free \in Seq(Desc) /\ \A h \in Desc : chain[h] \in Seq(Desc)
  BY DEF IInv, FreeListLinked, TypeOK
<1>2. free_head \in Range(free)
  BY <1>1, SeqFacts
<1>3. \A h \in Desc : free_head \notin Range(chain[h])
  BY <1>2 DEF IInv, DescriptorsAccounted, Accounted
<1> QED BY <1>1, <1>3, SeqFacts, ZenonT(40)

\* What taking the first free descriptor does to the free list and its links.
LEMMA TakeFree ==
  ASSUME IInv, Len(free) > 0, pc \in {"add_direct", "add_indirect"},
         free' = Rest(free),
         free_head' = desc_shadow[free_head].next,
         pc' \notin {"recycle", "recycle_indirect"},
         \A d \in Desc : d # free_head => desc_shadow'[d] = desc_shadow[d]
  PROVE  free' \in Seq(Desc) /\ Len(free') = Len(free) - 1 /\ FreeListLinked'
<1>1. free \in Seq(Desc) /\ Len(free) \in Nat
  BY DEF IInv, TypeOK
<1>2. /\ free' \in Seq(Desc) /\ Len(free') = Len(free) - 1
      /\ \A i \in 1 .. Len(free') : free'[i] = free[i + 1]
      /\ free_head \notin Range(free')
  <2>1. free[1] = free_head /\ IsInjective(free)
    BY FirstFree, Zenon DEF IInv, DescriptorsAccounted, Accounted
  <2> QED BY <1>1, <2>1, RestFacts, Zenon
<1>3. \A i \in 1 .. Len(free') - 1 : desc_shadow'[free'[i]].next = free'[i + 1]
  <2> TAKE i \in 1 .. Len(free') - 1
  <2>1. i + 1 \in 1 .. Len(free) - 1 /\ i \in 1 .. Len(free') /\ i + 1 \in 1 .. Len(free')
    <3>1. Len(free) \in Nat /\ Len(free') = Len(free) - 1
      BY <1>1, <1>2, Zenon
    <3> QED BY <3>1
  <2>2. free'[i] \in Desc /\ free'[i] # free_head
    BY <2>1, <1>2, SeqFacts
  <2>3. desc_shadow[free[i + 1]].next = free[(i + 1) + 1]
    BY <2>1 DEF IInv, FreeListLinked
  <2> QED BY <1>2, <2>1, <2>2, <2>3, Zenon
<1>4. Len(free') > 0 => free'[1] = free_head'
  <2>1. Len(free') > 0 => free[2] = desc_shadow[free[1]].next
    BY <1>1, <1>2 DEF IInv, FreeListLinked
  <2> QED BY <2>1, <1>1, <1>2, FirstFree
<1> QED BY <1>2, <1>3, <1>4 DEF FreeListLinked

\* The free list and the chains stay disjoint when the first free descriptor
\* is appended to a chain.
LEMMA MoveToChain ==
  ASSUME NEW f \in Seq(Desc), NEW c \in [Desc -> Seq(Desc)], NEW hd \in Desc,
         Accounted(f, c), Len(f) > 0
  PROVE  Accounted(Rest(f), [c EXCEPT ![hd] = Append(c[hd], f[1])])
<1> DEFINE f2 == Rest(f)
           c2 == [c EXCEPT ![hd] = Append(c[hd], f[1])]
<1>1. f[1] \in Desc /\ f[1] \in Range(f)
  BY SeqFacts
<1>2. /\ Range(f) = Range(f2) \cup {f[1]}
      /\ IsInjective(f2) /\ f[1] \notin Range(f2)
  <2>1. IsInjective(f)
    BY DEF Accounted
  <2> QED BY <2>1, RestFacts
<1>3. c[hd] \in Seq(Desc) /\ f[1] \notin Range(c[hd]) /\ IsInjective(c[hd])
  BY <1>1 DEF Accounted
<1>4. /\ Range(c2[hd]) = Range(c[hd]) \cup {f[1]}
      /\ IsInjective(c2[hd])
  BY <1>1, <1>3, AppendFacts
<1>5. \A h \in Desc : h # hd => c2[h] = c[h]
  OBVIOUS
<1>6. \A h \in Desc : f[1] \notin Range(c[h])
  BY <1>1 DEF Accounted
<1> HIDE DEF f2, c2
<1>7. \A h \in Desc : IsInjective(c2[h])
  BY <1>4, <1>5, Zenon DEF Accounted
<1>8. \A h \in Desc : Range(f2) \cap Range(c2[h]) = {}
  <2>1. \A h \in Desc : Range(f) \cap Range(c[h]) = {}
    BY DEF Accounted
  <2> QED BY <2>1, <1>2, <1>4, <1>5, Zenon
<1>9. \A h, g \in Desc : h # g => Range(c2[h]) \cap Range(c2[g]) = {}
  <2>1. \A h, g \in Desc : h # g => Range(c[h]) \cap Range(c[g]) = {}
    BY DEF Accounted
  <2> SUFFICES ASSUME NEW h \in Desc, NEW g \in Desc, h # g
               PROVE  Range(c2[h]) \cap Range(c2[g]) = {}
    BY Zenon
  <2>2. Range(c[h]) \cap Range(c[g]) = {}
    BY <2>1
  <2>3. CASE h = hd
    BY <2>2, <2>3, <1>4, <1>5, <1>6, Zenon
  <2>4. CASE g = hd
    BY <2>2, <2>4, <1>4, <1>5, <1>6, SMTT(30), SMTT(60)
  <2>5. CASE h # hd /\ g # hd
    BY <2>2, <2>5, <1>5, SMTT(30)
  <2> QED BY <2>3, <2>4, <2>5
<1>10. \A d \in Desc : d \in Range(f2) \/ \E h \in Desc : d \in Range(c2[h])
  BY <1>2, <1>4, <1>5, Zenon DEF Accounted
<1>11. Accounted(f2, c2)
  BY <1>2, <1>7, <1>8, <1>9, <1>10, Zenon DEF Accounted
<1> QED BY <1>11 DEF f2, c2

\* What an iteration of add_direct starts from.
LEMMA Building ==
  ASSUME IInv, AddDirect
  PROVE  /\ pc = "add_direct" /\ pc' = "add_direct" /\ cur \in Requests /\ N(cur) \in 1 .. SIZE
         /\ outstanding[head] = None /\ head \in Desc /\ ~UsesList(cur)
         /\ k \in Nat /\ k < N(cur) /\ k' = k + 1
         /\ Len(free) >= N(cur) - k /\ Len(free) \in Nat /\ Len(chain[head]) = k
<1>1. pc = "add_direct" /\ pc' = "add_direct" /\ k < N(cur) /\ k' = k + 1
  BY DEF AddDirect, N
<1>2. k \in Nat /\ head \in Desc /\ free \in Seq(Desc)
  BY DEF IInv, TypeOK
<1>3. AddInv
  BY DEF IInv
<1> QED BY <1>1, <1>2, <1>3, SMTT(30) DEF AddInv

LEMMA AddDirectInv == ASSUME IInv, AddDirect PROVE IInv'
<1> DEFINE d == SetBuf(desc_shadow[free_head], Bufs(cur)[k + 1], IsWrite(cur, k + 1), {"NEXT"})
<1>1. /\ pc = "add_direct" /\ pc' = "add_direct" /\ cur \in Requests /\ N(cur) \in 1 .. SIZE
      /\ outstanding[head] = None /\ head \in Desc /\ ~UsesList(cur)
      /\ k \in Nat /\ k < N(cur) /\ k' = k + 1
      /\ Len(free) >= N(cur) - k /\ Len(free) \in Nat /\ Len(chain[head]) = k
  BY Building, Zenon
<1>2. /\ last' = free_head /\ free_head' = d.next
      /\ chain' = [chain EXCEPT ![head] = Append(chain[head], free_head)]
      /\ free' = Rest(free)
      /\ desc_shadow' = [desc_shadow EXCEPT ![free_head] = d]
      /\ desc' = [desc EXCEPT ![free_head] = d]
      /\ shared' = shared \cup {Bufs(cur)[k + 1]}
      /\ UNCHANGED <<num_used, indirect_lists, cur, head, outstanding>>
      /\ UNCHANGED <<avail_idx, last_used_idx, avail, used, next, original_free_head, enabled,
                     device, notified, interrupt>>
  BY Zenon DEF AddDirect
<1>3. Len(free) > 0 /\ free_head \in Desc /\ free[1] = free_head
  <2>1. Len(free) > 0
    BY <1>1
  <2> QED BY <2>1, <1>1, FirstFree, Zenon
<1>4. /\ k + 1 \in 1 .. N(cur) /\ Bufs(cur)[k + 1] \in Buffers
      /\ IsWrite(cur, k + 1) \in BOOLEAN
  <2>1. k + 1 \in 1 .. N(cur)
    BY <1>1
  <2> QED BY <1>1, <2>1, BufsFacts DEF IsWrite
<1>5. /\ d \in Descriptor /\ d.addr = Bufs(cur)[k + 1] /\ d.next = desc_shadow[free_head].next
      /\ "NEXT" \in d.flags /\ "INDIRECT" \notin d.flags
  <2>1. desc_shadow[free_head] \in Descriptor /\ {"NEXT"} \in SUBSET Flags
    BY <1>3, SMTT(30) DEF IInv, TypeOK, Flags
  <2> QED BY <1>3, <1>4, <2>1, DescriptorFacts, Zenon DEF SetBuf
<1> HIDE DEF d
<1>6. /\ desc_shadow'[free_head] = d
      /\ \A x \in Desc : x # free_head => desc_shadow'[x] = desc_shadow[x]
  BY <1>2, <1>3, Zenon DEF IInv, TypeOK
<1>7. free' \in Seq(Desc) /\ Len(free') = Len(free) - 1 /\ FreeListLinked'
  <2>1. pc' \notin {"recycle", "recycle_indirect"}
    BY <1>1, SMTT(30)
  <2>2. free_head' = desc_shadow[free_head].next
    BY <1>2, <1>5, Zenon
  <2> QED BY <1>1, <1>2, <1>3, <1>6, <2>1, <2>2, TakeFree, Zenon
<1>8. chain[head] \in Seq(Desc) /\ chain' \in [Desc -> Seq(Desc)]
  <2>1. chain[head] \in Seq(Desc)
    BY <1>1, Zenon DEF IInv, TypeOK
  <2>2. Append(chain[head], free_head) \in Seq(Desc)
    BY <2>1, <1>3, SMTT(30), SMTT(60)
  <2> QED BY <1>1, <1>2, <2>1, <2>2, Zenon DEF IInv, TypeOK
<1>9. /\ \A h \in Desc : h # head => chain'[h] = chain[h]
      /\ Len(chain'[head]) = k + 1 /\ chain'[head][k + 1] = free_head
      /\ \A i \in 1 .. k : chain'[head][i] = chain[head][i]
  <2>1. chain'[head] = Append(chain[head], free_head)
    BY <1>1, <1>2, Zenon DEF IInv, TypeOK
  <2>2. \A h \in Desc : h # head => chain'[h] = chain[h]
    BY <1>1, <1>2, Zenon DEF IInv, TypeOK
  <2> QED BY <2>1, <2>2, <1>1, <1>3, <1>8, AppendFacts, SMTT(30), SMTT(60)
<1>10. TypeOK'
  <2>1. /\ desc_shadow' \in [Desc -> Descriptor] /\ desc' \in [Desc -> Descriptor]
        /\ free_head' \in Desc /\ last' \in Desc
    BY <1>2, <1>3, <1>5, Zenon DEF IInv, TypeOK, Descriptor
  <2>2. shared' \subseteq Buffers
    BY <1>2, <1>4 DEF IInv, TypeOK
  <2>3. k' \in 0 .. SIZE
    BY <1>1, SizeAssumption
  <2> QED BY <1>1, <1>2, <1>7, <1>8, <2>1, <2>2, <2>3, ZenonT(30) DEF IInv, TypeOK
<1>11. DescriptorsAccounted'
  <2>1. Accounted(free', chain')
    <3>1. free \in Seq(Desc) /\ chain \in [Desc -> Seq(Desc)] /\ Accounted(free, chain)
      BY SMTT(30) DEF IInv, TypeOK, DescriptorsAccounted
    <3>2. Accounted(Rest(free), [chain EXCEPT ![head] = Append(chain[head], free[1])])
      BY <3>1, <1>1, <1>3, MoveToChain, Zenon
    <3> QED BY <3>2, <1>2, <1>3, SMTT(30)
  <2>2. num_used' + k' + Len(free') = SIZE
    <3>1. num_used \in Nat /\ num_used + k + Len(free) = SIZE
      BY DEF IInv, TypeOK, DescriptorsAccounted
    <3>2. num_used' = num_used /\ k' = k + 1 /\ Len(free') = Len(free) - 1
      BY <1>1, <1>2, <1>7
    <3>3. num_used + (k + 1) + (Len(free) - 1) = SIZE
      BY <3>1, <1>1, SizeAssumption
    <3> QED BY <3>2, <3>3
  <2>3. (Accounted(free, chain))'
    BY <2>1, SMTT(30) DEF Accounted
  <2> QED BY <2>2, <2>3 DEF DescriptorsAccounted
<1>12. ChainInv'
  <2> SUFFICES ASSUME NEW h \in Desc
               PROVE  /\ outstanding'[h] # None => ChainOf(h, outstanding[h])'
                      /\ outstanding'[h] = None => indirect_lists'[h] = None
                      /\ outstanding'[h] = None /\ h # head => chain'[h] = <<>>
    BY <1>1, <1>2, ZenonT(30) DEF ChainInv, Adding
  <2>1. outstanding[h] = None => indirect_lists[h] = None /\ (h # head => chain[h] = <<>>)
    BY <1>1, Zenon DEF IInv, ChainInv, Adding
  <2>2. ASSUME outstanding[h] # None PROVE ChainOf(h, outstanding[h])'
    <3>1. ChainOf(h, outstanding[h]) /\ h # head /\ outstanding[h] \in Requests
      BY <2>2, <1>1, Zenon DEF IInv, ChainInv, TypeOK
    <3>2. \A i \in 1 .. Len(chain[h]) : chain[h][i] \in Desc /\ chain[h][i] # free_head
      <4>1. chain[h] \in Seq(Desc)
        BY SMTT(30) DEF IInv, TypeOK
      <4> QED BY <4>1, <1>1, <1>3, FirstFree, SeqFacts, Zenon
    <3>3. TypeOK /\ indirect_lists'[h] = indirect_lists[h] /\ chain'[h] = chain[h]
      BY <3>1, <1>2, <1>9, ZenonT(30) DEF IInv
    <3>4. \A i \in 1 .. Len(chain[h]) : desc_shadow'[chain[h][i]] = desc_shadow[chain[h][i]]
      BY <3>2, <1>6, Zenon
    <3>5. ~(pc = "recycle" /\ h = head)
      BY <1>1
    <3>6. outstanding'[h] = outstanding[h]
      BY <1>2, SMTT(30)
    <3> QED BY <3>1, <3>3, <3>4, <3>5, <3>6, TokenFrame, Zenon
  <2> QED BY <2>1, <2>2, <1>2, <1>9, ZenonT(30)
<1>13. AddInv'
  <2>1. /\ cur' \in Requests /\ N(cur') \in 1 .. SIZE /\ outstanding'[head'] = None
        /\ Len(free') > 0 \/ k' = N(cur')
        /\ ~UsesList(cur') /\ k' <= N(cur') /\ Len(free') >= N(cur') - k'
        /\ Len(chain'[head']) = k' /\ k' # 0
    <3>1. /\ k \in Nat /\ k < N(cur) /\ k' = k + 1 /\ N(cur) \in 1 .. SIZE
          /\ Len(free) >= N(cur) - k /\ Len(free) \in Nat /\ Len(free') = Len(free) - 1
      BY <1>1, <1>7, Zenon
    <3>2. /\ Len(free') > 0 \/ k' = N(cur)
          /\ k' <= N(cur) /\ Len(free') >= N(cur) - k' /\ k' # 0
      BY <3>1
    <3> QED BY <3>1, <3>2, <1>1, <1>2, <1>9, Zenon
  <2>2. /\ chain'[head][1] = head /\ last' = chain'[head][k'] /\ desc_shadow'[last'].next = free_head'
    <3>1. CASE k = 0
      <4>1. head = free_head
        BY <3>1, <1>1, Zenon DEF IInv, AddInv
      <4> QED BY <4>1, <3>1, <1>1, <1>2, <1>6, <1>9, SMTT(30)
    <3>2. CASE k # 0
      <4>1. 1 \in 1 .. k /\ k > 0
        BY <3>2, <1>1
      <4>2. chain[head][1] = head
        BY <4>1, <1>1, Zenon DEF IInv, AddInv
      <4> QED BY <4>1, <4>2, <1>1, <1>2, <1>6, <1>9, Zenon
    <3> QED BY <3>1, <3>2, SMTT(30), SMTT(60)
  <2>3. ASSUME NEW i \in 1 .. k'
        PROVE  LET e == desc_shadow'[chain'[head][i]]
               IN  /\ "INDIRECT" \notin e.flags
                   /\ "NEXT" \in e.flags
                   /\ i < k' => e.next = chain'[head][i + 1]
                   /\ e.addr = Bufs(cur)[i]
    <3>1. CASE i = k + 1
      <4>1. chain'[head][i] = free_head /\ ~(i < k')
        BY <3>1, <1>1, <1>9, SMTT(30)
      <4> QED BY <3>1, <4>1, <1>5, <1>6, Zenon
    <3>2. CASE i # k + 1
      <4>1. i \in 1 .. k /\ i + 1 \in 1 .. k + 1
        BY <3>2, <1>1, SMTT(30)
      <4>2. chain[head][i] \in Desc /\ chain[head][i] # free_head
        <5>1. i \in 1 .. Len(chain[head]) /\ chain[head] \in Seq(Desc)
          BY <4>1, <1>1, <1>8, Zenon
        <5>2. chain[head][i] # free_head
          BY <5>1, <1>1, <1>3, FirstFree, Zenon
        <5> QED BY <5>1, <5>2, SeqFacts, Zenon
      <4>3. desc_shadow'[chain'[head][i]] = desc_shadow[chain[head][i]]
        BY <4>1, <4>2, <1>6, <1>9, Zenon
      <4>4. /\ "INDIRECT" \notin desc_shadow[chain[head][i]].flags
            /\ "NEXT" \in desc_shadow[chain[head][i]].flags
            /\ i < k => desc_shadow[chain[head][i]].next = chain[head][i + 1]
            /\ desc_shadow[chain[head][i]].addr = Bufs(cur)[i]
        BY <4>1, <1>1, Zenon DEF IInv, AddInv
      <4>5. desc_shadow[chain[head][i]].next = chain'[head][i + 1]
        <5>1. CASE i < k
          <6>1. i + 1 \in 1 .. k
            BY <5>1, <4>1, <1>1, SMTT(30)
          <6> QED BY <5>1, <6>1, <4>4, <1>9, Zenon
        <5>2. CASE i = k
          <6>1. k > 0
            BY <5>2, <4>1
          <6>2. chain[head][i] = last /\ desc_shadow[last].next = free_head
            BY <5>2, <6>1, <1>1, Zenon DEF IInv, AddInv
          <6> QED BY <5>2, <6>2, <1>9, Zenon
        <5> QED BY <5>1, <5>2, <4>1, <1>1, SMTT(30)
      <4> QED BY <4>3, <4>4, <4>5, Zenon
    <3> QED BY <3>1, <3>2, Zenon
  <2> QED BY <1>1, <1>2, <2>1, <2>2, <2>3, ZenonT(30) DEF AddInv
<1>14. RecycleInv' /\ NoPanic' /\ indirect_lists' \in [Desc -> Seq(Entry) \cup {None}]
  BY <1>1, <1>2, Zenon DEF RecycleInv, NoPanic, IInv
<1> QED BY <1>1, <1>7, <1>10, <1>11, <1>12, <1>13, <1>14, SMTT(30) DEF IInv

-----------------------------------------------------------------------------
(* The chain of an add is complete *)

LEMMA AddDirectEndInv == ASSUME IInv, AddDirectEnd PROVE IInv'
<1> DEFINE d == [desc_shadow[last] EXCEPT !.flags = @ \ {"NEXT"}]
<1>1. /\ pc = "add_direct" /\ pc' = "avail_ring" /\ cur \in Requests /\ N(cur) \in 1 .. SIZE
      /\ outstanding[head] = None /\ head \in Desc /\ last \in Desc /\ ~UsesList(cur)
      /\ k = N(cur) /\ k \in 1 .. SIZE /\ k' = 0
      /\ num_used' = num_used + k
      /\ Len(chain[head]) = k /\ chain[head][1] = head /\ last = chain[head][k]
  BY DEF IInv, AddInv, AddDirectEnd, Goto, TypeOK, N
<1>2. /\ desc_shadow' = [desc_shadow EXCEPT ![last] = d]
      /\ desc' = [desc EXCEPT ![last] = d]
      /\ UNCHANGED <<free_head, indirect_lists, cur, head, outstanding, free, chain>>
      /\ UNCHANGED <<avail_idx, last_used_idx, avail, used, last, next, original_free_head,
                     enabled, shared, device, notified, interrupt>>
  BY DEF AddDirectEnd, history
<1>3. /\ d \in Descriptor /\ d.next = desc_shadow[last].next /\ d.addr = desc_shadow[last].addr
      /\ d.flags = desc_shadow[last].flags \ {"NEXT"}
  <2>1. desc_shadow[last] \in Descriptor
    BY <1>1, Zenon DEF IInv, TypeOK
  <2> QED BY <2>1, SMTT(30) DEF Descriptor
<1> HIDE DEF d
<1>4. /\ desc_shadow'[last] = d
      /\ \A x \in Desc : x # last => desc_shadow'[x] = desc_shadow[x]
  BY <1>1, <1>2, SMTT(30) DEF IInv, TypeOK
<1>5. num_used \in Nat /\ num_used + k + Len(free) = SIZE /\ Len(free) \in Nat /\ SIZE \in Nat
  BY SizeAssumption, SMTT(30), SMTT(60) DEF IInv, TypeOK, DescriptorsAccounted
<1>6. TypeOK'
  <2>1. num_used' \in 0 .. SIZE
    BY <1>1, <1>5, SMTT(30), SMTT(60)
  <2>2. desc_shadow' \in [Desc -> Descriptor] /\ desc' \in [Desc -> Descriptor]
    BY <1>2, <1>3, ZenonT(30) DEF IInv, TypeOK
  <2>3. k' \in 0 .. SIZE
    BY <1>1, <1>5, SMTT(30)
  <2> QED BY <1>1, <1>2, <2>1, <2>2, <2>3, SMTT(30), SMTT(60) DEF IInv, TypeOK
<1>7. DescriptorsAccounted'
  <2>1. num_used' + k' + Len(free') = SIZE
    <3>1. num_used' = num_used + k /\ k' = 0 /\ Len(free') = Len(free) /\ k \in 1 .. SIZE
      BY <1>1, <1>2, Zenon
    <3> QED BY <1>5, <3>1
  <2>2. (Accounted(free, chain))'
    BY <1>2, Zenon DEF IInv, DescriptorsAccounted, Accounted
  <2> QED BY <2>1, <2>2 DEF DescriptorsAccounted
<1>8. \A x \in Desc : desc_shadow'[x].next = desc_shadow[x].next
  BY <1>3, <1>4, Zenon
<1>9. FreeListLinked'
  <2>1. free \in Seq(Desc) /\ \A i \in 1 .. Len(free) - 1 : free[i] \in Desc
    BY SMTT(30) DEF IInv, TypeOK
  <2> QED BY <2>1, <1>1, <1>2, <1>8, SMTT(30), SMTT(60) DEF IInv, FreeListLinked
<1>10. \A h \in Desc : \A i \in 1 .. Len(chain[h]) :
         chain[h][i] \in Desc /\ (chain[h][i] = last <=> h = head /\ i = k)
  <2> TAKE h \in Desc
  <2> TAKE i \in 1 .. Len(chain[h])
  <2>1. chain[h] \in Seq(Desc) /\ chain[head] \in Seq(Desc) /\ k \in 1 .. Len(chain[head])
    BY <1>1, SMTT(30) DEF IInv, TypeOK
  <2>2. chain[h][i] \in Range(chain[h]) /\ last \in Range(chain[head]) /\ chain[h][i] \in Desc
    BY <1>1, <2>1, SeqFacts, Zenon
  <2>3. CASE h = head
    <3>1. IsInjective(chain[head])
      BY <1>1 DEF IInv, DescriptorsAccounted, Accounted
    <3>2. chain[head][i] = chain[head][k] => i = k
      BY <2>1, <2>3, <3>1, SeqFacts DEF IsInjective
    <3> QED BY <2>2, <2>3, <3>2, <1>1, Zenon
  <2>4. CASE h # head
    <3>1. Range(chain[h]) \cap Range(chain[head]) = {}
      BY <1>1, <2>4, Zenon DEF IInv, DescriptorsAccounted, Accounted
    <3> QED BY <2>2, <2>4, <3>1, Zenon
  <2> QED BY <2>3, <2>4, Zenon
<1>11. DirectChain(head, cur)'
  <2>1. indirect_lists[head] = None
    BY <1>1, ZenonT(30) DEF IInv, ChainInv, Adding
  <2>2. ASSUME NEW i \in 1 .. N(cur)
        PROVE  LET e == desc_shadow'[chain[head][i]]
               IN  /\ "INDIRECT" \notin e.flags
                   /\ "NEXT" \in e.flags <=> i < N(cur)
                   /\ i < N(cur) => e.next = chain[head][i + 1]
                   /\ e.addr = Bufs(cur)[i]
    <3>1. /\ "INDIRECT" \notin desc_shadow[chain[head][i]].flags
          /\ "NEXT" \in desc_shadow[chain[head][i]].flags
          /\ i < k => desc_shadow[chain[head][i]].next = chain[head][i + 1]
          /\ desc_shadow[chain[head][i]].addr = Bufs(cur)[i]
      BY <1>1, ZenonT(30) DEF IInv, AddInv
    <3>2. chain[head][i] \in Desc /\ (chain[head][i] = last <=> i = k)
      BY <1>1, <1>10, SMTT(30), SMTT(60)
    <3>3. CASE i = k
      BY <3>1, <3>2, <3>3, <1>1, <1>3, <1>4, SMTT(30)
    <3>4. CASE i # k
      <4>1. i < N(cur) /\ desc_shadow'[chain[head][i]] = desc_shadow[chain[head][i]]
        BY <3>2, <3>4, <1>1, <1>4, SMTT(30)
      <4> QED BY <4>1, <3>1, <1>1, Zenon
    <3> QED BY <3>3, <3>4, Zenon
  <2> QED BY <2>1, <2>2, <1>1, <1>2, ZenonT(30) DEF DirectChain
<1>12. ChainInv'
  <2> SUFFICES ASSUME NEW h \in Desc
               PROVE  /\ outstanding'[h] # None => ChainOf(h, outstanding[h])'
                      /\ h = head => outstanding'[h] = None /\ ChainOf(h, cur)'
                      /\ outstanding'[h] = None /\ h # head
                           => indirect_lists'[h] = None /\ chain'[h] = <<>>
    BY <1>1, <1>2, ZenonT(30) DEF ChainInv, Adding
  <2>1. outstanding[h] = None /\ h # head => indirect_lists[h] = None /\ chain[h] = <<>>
    BY <1>1, Zenon DEF IInv, ChainInv, Adding
  <2>2. ASSUME outstanding[h] # None PROVE ChainOf(h, outstanding[h])'
    <3>1. ChainOf(h, outstanding[h]) /\ h # head /\ outstanding[h] \in Requests
      BY <2>2, <1>1, SMTT(30) DEF IInv, ChainInv, TypeOK
    <3>2. TypeOK /\ indirect_lists'[h] = indirect_lists[h] /\ chain'[h] = chain[h]
      BY <1>2, Zenon DEF IInv
    <3>3. \A i \in 1 .. Len(chain[h]) : desc_shadow'[chain[h][i]] = desc_shadow[chain[h][i]]
      BY <3>1, <1>4, <1>10, SMTT(30)
    <3>4. outstanding'[h] = outstanding[h]
      BY <1>2, Zenon
    <3> QED BY <3>1, <3>2, <3>3, <3>4, TokenFrame, ZenonT(30)
  <2>3. h = head => outstanding'[h] = None /\ ChainOf(h, cur)'
    BY <1>1, <1>2, <1>11, Zenon DEF ChainOf
  <2> QED BY <2>1, <2>2, <2>3, <1>2, Zenon
<1>13. AddInv' /\ RecycleInv' /\ NoPanic' /\ indirect_lists' \in [Desc -> Seq(Entry) \cup {None}]
  BY <1>1, <1>2, Zenon DEF AddInv, RecycleInv, NoPanic, IInv
<1> QED BY <1>1, <1>6, <1>7, <1>9, <1>12, <1>13, ZenonT(30) DEF IInv

LEMMA AddIndirectInv == ASSUME IInv, AddIndirect PROVE IInv'
<1> DEFINE d == SetBuf(desc_shadow[head], ListAddr, FALSE, {"INDIRECT"})
<1>1. /\ pc = "add_indirect" /\ cur \in Requests /\ N(cur) \in 1 .. SIZE /\ UsesList(cur)
      /\ outstanding[head] = None /\ head \in Desc /\ head = free_head
      /\ k = 0 /\ Len(free) \in Nat /\ Len(free) > 0
      /\ indirect_lists[head] = None /\ chain[head] = <<>>
  <2>1. pc = "add_indirect"
    BY Zenon DEF AddIndirect
  <2>2. /\ cur \in Requests /\ N(cur) \in 1 .. SIZE /\ UsesList(cur)
        /\ outstanding[head] = None /\ head = free_head /\ k = 0
        /\ Len(free) > 0 \/ k = N(cur)
    BY <2>1, SMTT(30) DEF IInv, AddInv
  <2>3. head \in Desc /\ Len(free) \in Nat
    BY SMTT(30), SMTT(60) DEF IInv, TypeOK
  <2>4. indirect_lists[head] = None /\ chain[head] = <<>>
    BY <2>1, <2>2, <2>3 DEF IInv, ChainInv, Adding
  <2>5. Len(free) > 0
    BY <2>2, SMTT(30)
  <2> QED BY <2>1, <2>2, <2>3, <2>4, <2>5, Zenon
<1>2. /\ pc' = "avail_ring" /\ k' = k
      /\ indirect_lists' = [indirect_lists EXCEPT ![head] = IndirectList(cur)]
      /\ free_head' = desc_shadow[head].next
      /\ desc_shadow' = [desc_shadow EXCEPT ![head] = d]
      /\ desc' = [desc EXCEPT ![head] = d]
      /\ num_used' = num_used + 1
      /\ chain' = [chain EXCEPT ![head] = <<head>>]
      /\ free' = Rest(free)
      /\ shared' = shared \cup {Bufs(cur)[i] : i \in 1 .. N(cur)}
      /\ UNCHANGED <<cur, head, outstanding>>
      /\ UNCHANGED <<avail_idx, last_used_idx, avail, used, last, next, original_free_head,
                     enabled, device, notified, interrupt>>
  BY <1>1, Zenon DEF AddIndirect, Goto, N
<1>3. d \in Descriptor /\ d.addr = ListAddr /\ "INDIRECT" \in d.flags
  <2>1. desc_shadow[head] \in Descriptor /\ {"INDIRECT"} \in SUBSET Flags
    BY <1>1 DEF IInv, TypeOK, Flags
  <2> QED BY <1>1, <2>1, DescriptorFacts, ZenonT(30) DEF SetBuf
<1> HIDE DEF d
<1>4. /\ desc_shadow'[head] = d
      /\ \A x \in Desc : x # head => desc_shadow'[x] = desc_shadow[x]
  BY <1>1, <1>2, Zenon DEF IInv, TypeOK
<1>5. free' \in Seq(Desc) /\ Len(free') = Len(free) - 1 /\ FreeListLinked'
  <2>1. pc' \notin {"recycle", "recycle_indirect"}
    BY <1>2, Zenon
  <2> QED BY <1>1, <1>2, <1>4, <2>1, TakeFree, ZenonT(30)
<1>6. chain'[head] = <<head>> /\ \A h \in Desc : h # head => chain'[h] = chain[h]
  BY <1>1, <1>2, ZenonT(30) DEF IInv, TypeOK
<1>7. num_used \in Nat /\ num_used + 0 + Len(free) = SIZE /\ SIZE \in Nat
  BY <1>1, SizeAssumption, SMTT(30) DEF IInv, TypeOK, DescriptorsAccounted
<1>8. TypeOK'
  <2>1. num_used' \in 0 .. SIZE
    <3>1. num_used + 1 \in 0 .. SIZE
      BY <1>1, <1>7, SMTT(30)
    <3> QED BY <3>1, <1>2, Zenon
  <2>2. /\ desc_shadow' \in [Desc -> Descriptor] /\ desc' \in [Desc -> Descriptor]
        /\ free_head' \in Desc
    <3>1. desc_shadow' \in [Desc -> Descriptor] /\ desc' \in [Desc -> Descriptor]
      BY <1>2, <1>3, ZenonT(30) DEF IInv, TypeOK
    <3>2. desc_shadow[head].next \in Desc
      BY <1>1, Zenon DEF IInv, TypeOK, Descriptor
    <3> QED BY <3>1, <3>2, <1>2, Zenon
  <2>3. shared' \subseteq Buffers
    <3>1. \A i \in 1 .. N(cur) : Bufs(cur)[i] \in Buffers
      BY <1>1, BufsFacts, Zenon
    <3>2. shared \subseteq Buffers
      BY Zenon DEF IInv, TypeOK
    <3> QED BY <3>1, <3>2, <1>2, Zenon
  <2>4. chain' \in [Desc -> Seq(Desc)]
    <3>1. <<head>> \in Seq(Desc)
      BY <1>1, SMTT(30)
    <3> QED BY <3>1, <1>2, ZenonT(30) DEF IInv, TypeOK
  <2> QED BY <1>1, <1>2, <1>5, <2>1, <2>2, <2>3, <2>4, Zenon DEF IInv, TypeOK
<1>9. DescriptorsAccounted'
  <2>1. Accounted(free', chain')
    <3>1. free \in Seq(Desc) /\ chain \in [Desc -> Seq(Desc)] /\ Accounted(free, chain)
      BY DEF IInv, TypeOK, DescriptorsAccounted
    <3>2. Accounted(Rest(free), [chain EXCEPT ![head] = Append(chain[head], free[1])])
      BY <3>1, <1>1, MoveToChain, ZenonT(30)
    <3>3. free[1] = head
      BY <1>1, FirstFree
    <3>4. Append(chain[head], free[1]) = <<head>>
      BY <3>3, <1>1, SMTT(30), SMTT(60)
    <3>5. chain' = [chain EXCEPT ![head] = Append(chain[head], free[1])]
      BY <3>4, <1>2, SMTT(30), SMTT(60)
    <3> QED BY <3>2, <3>5, <1>2, ZenonT(30)
  <2>2. num_used' + k' + Len(free') = SIZE
    <3>1. (num_used + 1) + 0 + (Len(free) - 1) = SIZE
      BY <1>1, <1>7, SMTT(30)
    <3> QED BY <3>1, <1>1, <1>2, <1>5, SMTT(30)
  <2>3. (Accounted(free, chain))'
    BY <2>1 DEF Accounted
  <2> QED BY <2>2, <2>3 DEF DescriptorsAccounted
<1>10. indirect_lists'[head] = IndirectList(cur)
       /\ \A h \in Desc : h # head => indirect_lists'[h] = indirect_lists[h]
  BY <1>1, <1>2, ZenonT(30) DEF IInv
<1>11. ChainInv'
  <2> SUFFICES ASSUME NEW h \in Desc
               PROVE  /\ outstanding'[h] # None => ChainOf(h, outstanding[h])'
                      /\ h = head => outstanding'[h] = None /\ ChainOf(h, cur)'
                      /\ outstanding'[h] = None /\ h # head
                           => indirect_lists'[h] = None /\ chain'[h] = <<>>
    BY <1>1, <1>2, ZenonT(30) DEF ChainInv, Adding
  <2>1. outstanding[h] = None => indirect_lists[h] = None /\ chain[h] = <<>>
    BY <1>1, Zenon DEF IInv, ChainInv, Adding
  <2>2. ASSUME outstanding[h] # None PROVE ChainOf(h, outstanding[h])'
    <3>1. ChainOf(h, outstanding[h]) /\ h # head /\ outstanding[h] \in Requests
      BY <2>2, <1>1, Zenon DEF IInv, ChainInv, TypeOK
    <3>2. TypeOK /\ indirect_lists'[h] = indirect_lists[h] /\ chain'[h] = chain[h]
      BY <3>1, <1>6, <1>10, Zenon DEF IInv
    <3>3. \A i \in 1 .. Len(chain[h]) : desc_shadow'[chain[h][i]] = desc_shadow[chain[h][i]]
      <4>1. chain[h] \in Seq(Desc)
        BY DEF IInv, TypeOK
      <4> QED BY <4>1, <1>1, <1>4, FirstFree, SeqFacts, ZenonT(30)
    <3>4. outstanding'[h] = outstanding[h]
      BY <1>2, ZenonT(30)
    <3> QED BY <3>1, <3>2, <3>3, <3>4, TokenFrame, Zenon
  <2>3. h = head => outstanding'[h] = None /\ ChainOf(h, cur)'
    BY <1>1, <1>2, <1>3, <1>4, <1>6, <1>10, Zenon DEF ChainOf, ListChain
  <2> QED BY <2>1, <2>2, <2>3, <1>2, <1>6, <1>10, ZenonT(30)
<1>12. AddInv' /\ RecycleInv' /\ NoPanic' /\ k' = 0
  BY <1>1, <1>2, ZenonT(30) DEF AddInv, RecycleInv, NoPanic
<1>13. indirect_lists' \in [Desc -> Seq(Entry) \cup {None}]
  BY <1>1, <1>2, ListFacts DEF IInv
<1> QED BY <1>5, <1>8, <1>9, <1>11, <1>12, <1>13, Zenon DEF IInv
=============================================================================
