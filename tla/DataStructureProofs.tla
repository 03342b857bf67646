------------------------ MODULE DataStructureProofs ------------------------
(***************************************************************************)
(* The layout of a virtqueue in memory, for every queue size; and the data *)
(* that the drivers keep, as facts about values rather than about states:  *)
(* the positions of a ring buffer, a queue as AbstractQueue has it with the*)
(* change that each of its operations makes, queues whose requests are their*)
(* tokens, buffers that hold consecutive numbers, buffers whose tokens     *)
(* change, and one buffer of a stream of bytes.                            *)
(***************************************************************************)
EXTENDS QueueLayout, BasicFacts

-----------------------------------------------------------------------------
(* The layout: a power of two is one, or even, which is all that is used *)

QueueSizes == {n \in Nat : n = 1 \/ (n > 0 /\ n % 2 = 0)}

\* What align_up and pages compute.
LEMMA AlignUp ==
  ASSUME NEW size \in Nat
  PROVE  /\ align_up(size) \in Nat
         /\ align_up(size) % PAGE_SIZE = 0
         /\ align_up(size) > size
         /\ align_up(size) <= size + PAGE_SIZE
  BY SMT DEF align_up, PAGE_SIZE

LEMMA Pages ==
  ASSUME NEW size \in Nat
  PROVE  /\ pages(size) \in Nat
         /\ pages(size) * PAGE_SIZE >= size
         /\ pages(size) * PAGE_SIZE < size + PAGE_SIZE
  BY SMT DEF pages, PAGE_SIZE

-----------------------------------------------------------------------------
\* Where a legacy device, which knows only the address of the descriptors, the
\* size and the alignment, finds the used ring: at the next page boundary.
DeviceUsedOffset(n) == ((desc_size(n) + avail_size(n) + PAGE_SIZE - 1) \div PAGE_SIZE) * PAGE_SIZE

\* The parts of a queue of n entries.
LEMMA Parts ==
  ASSUME NEW n \in QueueSizes
  PROVE  /\ n \in Nat /\ n > 0
         /\ desc_size(n) = 16 * n
         /\ avail_size(n) = 2 * n + 6
         /\ used_size(n) = 8 * n + 6
         /\ desc_size(n) + avail_size(n) = 18 * n + 6
  BY SMT DEF QueueSizes, desc_size, avail_size, used_size

\* The descriptors and the available ring never end at a page boundary, where
\* align_up would leave out a whole page: half their size is odd.
LEMMA NeverFull ==
  ASSUME NEW n \in QueueSizes
  PROVE  (18 * n + 6) % PAGE_SIZE # 0
<1>1. n \in Nat /\ (n = 1 \/ n % 2 = 0)
  BY SMT DEF QueueSizes
<1>2. CASE n = 1
  BY <1>2, SMT DEF PAGE_SIZE
<1>3. CASE n % 2 = 0
  <2>1. PICK k \in Nat : n = 2 * k
    BY <1>1, <1>3, SMT
  <2>2. (36 * k + 6) % 4 = 2
    BY <2>1, SMT
  <2>3. (36 * k + 6) % 4096 # 0
    BY <2>1, <2>2, SMT
  <2>. QED
    BY <2>1, <2>3, SMT DEF PAGE_SIZE
<1>. QED
  BY <1>1, <1>2, <1>3

\* Both sides agree on the place of the used ring of a legacy queue, for every
\* queue size, although align_up (lib.rs) skips a page after a size that is a
\* multiple of the page already: allocate_legacy and the assertion of the MMIO
\* transport's queue_set use align_up, the device rounds up.
THEOREM LegacyDeviceAgrees ==
  ASSUME NEW n \in QueueSizes
  PROVE  used_offset(n) = DeviceUsedOffset(n)
<1>. DEFINE size == 18 * n + 6
<1>1. size \in Nat /\ size % 4096 # 0
  BY Parts, NeverFull, SMT DEF PAGE_SIZE
<1>2. used_offset(n) = (size + 4096) - ((size + 4096) % 4096)
  BY Parts DEF used_offset, align_up, PAGE_SIZE
<1>3. DeviceUsedOffset(n) = ((size + 4095) \div 4096) * 4096
  BY Parts, SMT DEF DeviceUsedOffset, PAGE_SIZE
<1>. HIDE DEF size
<1>. QED
  BY <1>1, <1>2, <1>3, SMT

\* The parts of a legacy queue lie one after another, aligned as their entries
\* need it, in the pages that allocate_legacy asks for, which are those that the
\* device half maps (map_legacy): no entry of a ring shares memory with another
\* part or lies outside.
THEOREM LegacyPartsDisjoint ==
  ASSUME NEW n \in QueueSizes
  PROVE  /\ avail_offset(n) = desc_size(n)
         /\ avail_offset(n) % 2 = 0
         /\ avail_offset(n) + avail_size(n) <= used_offset(n)
         /\ used_offset(n) % 4 = 0
         /\ used_offset(n) + used_size(n) <= allocate_legacy(n)[1] * PAGE_SIZE
         /\ map_legacy(n) = allocate_legacy(n)
<1>. DEFINE a == align_up(desc_size(n) + avail_size(n))
            u == align_up(used_size(n))
<1>1. desc_size(n) + avail_size(n) \in Nat /\ used_size(n) \in Nat
  BY Parts, SMT
<1>2. /\ a \in Nat /\ a % PAGE_SIZE = 0 /\ a > desc_size(n) + avail_size(n)
      /\ u \in Nat /\ u % PAGE_SIZE = 0 /\ u > used_size(n)
  BY <1>1, AlignUp
<1>3. allocate_legacy(n)[1] = (a + u) \div PAGE_SIZE /\ map_legacy(n) = allocate_legacy(n)
  BY DEF allocate_legacy, map_legacy
<1>4. used_offset(n) = a /\ avail_offset(n) = desc_size(n)
  BY DEF used_offset, avail_offset
<1>. HIDE DEF a, u
<1>5. ((a + u) \div PAGE_SIZE) * PAGE_SIZE = a + u
  BY <1>2, SMT DEF PAGE_SIZE
<1>6. a % 4 = 0
  BY <1>2, SMT DEF PAGE_SIZE
<1>7. desc_size(n) % 2 = 0 /\ desc_size(n) \in Nat /\ avail_size(n) \in Nat
  BY Parts, SMT
<1>. QED
  BY <1>1, <1>2, <1>3, <1>4, <1>5, <1>6, <1>7, SMT

\* The same of the two areas of a modern queue (allocate_flexible), each with
\* less than a page to spare (pages).
THEOREM FlexiblePartsFit ==
  ASSUME NEW n \in QueueSizes
  PROVE  /\ avail_offset(n) + avail_size(n) <= allocate_flexible(n)[1] * PAGE_SIZE
         /\ allocate_flexible(n)[1] * PAGE_SIZE < avail_offset(n) + avail_size(n) + PAGE_SIZE
         /\ used_size(n) <= allocate_flexible(n)[2] * PAGE_SIZE
         /\ allocate_flexible(n)[2] * PAGE_SIZE < used_size(n) + PAGE_SIZE
         /\ map_flexible(n) = allocate_flexible(n)
<1>1. desc_size(n) + avail_size(n) \in Nat /\ used_size(n) \in Nat
  BY Parts, SMT
<1>2. /\ allocate_flexible(n)[1] = pages(desc_size(n) + avail_size(n))
      /\ allocate_flexible(n)[2] = pages(used_size(n))
      /\ map_flexible(n) = allocate_flexible(n)
  BY DEF allocate_flexible, map_flexible
<1>. QED
  BY <1>1, <1>2, Pages DEF avail_offset

-----------------------------------------------------------------------------
(* Positions around the end of a ring buffer of c bytes *)

\* The remainder of a position past the end.
LEMMA Wraparound ==
  ASSUME NEW c \in Nat \ {0}, NEW x \in 0 .. 2 * c - 1
  PROVE  x % c = IF x < c THEN x ELSE x - c
  BY SMT

LEMMA Concatenated ==
  ASSUME NEW S, NEW s \in Seq(S), NEW t \in Seq(S)
  PROVE  /\ s \o t \in Seq(S)
         /\ Len(s \o t) = Len(s) + Len(t)
         /\ \A i \in 1 .. Len(s) : (s \o t)[i] = s[i]
         /\ \A i \in Len(s) + 1 .. Len(s) + Len(t) : (s \o t)[i] = t[i - Len(s)]
  OBVIOUS

\* The buffer as a sequence, and parts of a sequence.
LEMMA Laid ==
  ASSUME NEW S, NEW c \in Nat, NEW f \in [0 .. c - 1 -> S]
  PROVE  /\ [i \in 1 .. c |-> f[i - 1]] \in Seq(S)
         /\ Len([i \in 1 .. c |-> f[i - 1]]) = c
         /\ \A i \in 1 .. c : [j \in 1 .. c |-> f[j - 1]][i] = f[i - 1]
<1>. DEFINE g == [i \in 1 .. c |-> f[i - 1]]
<1>1. g \in [1 .. c -> S]
  OBVIOUS
<1>. HIDE DEF g
<1>2. g \in Seq(S) /\ Len(g) = c
  BY <1>1
<1>. QED
  BY <1>2 DEF g

LEMMA Part ==
  ASSUME NEW S, NEW s \in Seq(S), NEW m \in 1 .. Len(s) + 1, NEW n \in m - 1 .. Len(s)
  PROVE  /\ SubSeq(s, m, n) \in Seq(S)
         /\ Len(SubSeq(s, m, n)) = n - m + 1
         /\ \A i \in 1 .. n - m + 1 : SubSeq(s, m, n)[i] = s[m + i - 1]
  OBVIOUS

\* The n bytes that add copies go to f and on, b of them, and then to the
\* positions from 0 on: none of the u positions in use is written, and each of
\* the n after them with its own byte.
Placed(c, s, u, n, f, b) ==
  /\ f \in 0 .. c - 1 /\ b \in 0 .. n /\ f + b <= c
  /\ \A i \in 1 .. u :
       /\ (s + i - 1) % c \in 0 .. c - 1
       /\ (s + i - 1) % c \notin f .. f + b - 1
       /\ ~((s + i - 1) % c < n - b)
  /\ \A i \in u + 1 .. u + n :
       /\ (s + i - 1) % c \in 0 .. c - 1
       /\ \/ /\ (s + i - 1) % c \in f .. f + b - 1
             /\ ((s + i - 1) % c) - f + 1 = i - u
          \/ /\ (s + i - 1) % c \notin f .. f + b - 1
             /\ (s + i - 1) % c < n - b
             /\ b + ((s + i - 1) % c) + 1 = i - u

LEMMA AddPositions ==
  ASSUME NEW c \in Nat \ {0}, NEW s \in 0 .. c - 1, NEW u \in 0 .. c, NEW n \in 0 .. c - u,
         NEW f, f = (s + u) % c, NEW b, b = IF n < c - f THEN n ELSE c - f
  PROVE  Placed(c, s, u, n, f, b)
<1>. DEFINE At(x) == IF x < c THEN x ELSE x - c
<1>0. \A x \in 0 .. 2 * c - 1 : x % c = At(x)
  BY Wraparound, Zenon
<1>1. f = IF s + u < c THEN s + u ELSE s + u - c
  <2>1. s + u \in 0 .. 2 * c - 1
    OBVIOUS
  <2>. QED
    BY <2>1, <1>0
<1>2. b = IF n < c - f THEN n ELSE c - f
  OBVIOUS
<1>3. f \in 0 .. c - 1 /\ b \in 0 .. n /\ f + b <= c
  BY <1>1, <1>2
<1>4. ASSUME NEW i \in 1 .. u + n
      PROVE  (s + i - 1) % c = IF s + i - 1 < c THEN s + i - 1 ELSE s + i - 1 - c
  <2>1. s + i - 1 \in 0 .. 2 * c - 1
    OBVIOUS
  <2>. QED
    BY <2>1, <1>0
<1>5. ASSUME NEW i \in 1 .. u
      PROVE  /\ (s + i - 1) % c \in 0 .. c - 1
             /\ (s + i - 1) % c \notin f .. f + b - 1
             /\ ~((s + i - 1) % c < n - b)
  <2>1. PICK p \in Int : /\ p = (s + i - 1) % c
                         /\ p = IF s + i - 1 < c THEN s + i - 1 ELSE s + i - 1 - c
    BY <1>4
  <2>2. p \in 0 .. c - 1 /\ p \notin f .. f + b - 1 /\ ~(p < n - b)
    BY <2>1, <1>1, <1>2, <1>3
  <2>. QED
    BY <2>1, <2>2
<1>6. ASSUME NEW i \in u + 1 .. u + n
      PROVE  /\ (s + i - 1) % c \in 0 .. c - 1
             /\ \/ /\ (s + i - 1) % c \in f .. f + b - 1
                   /\ ((s + i - 1) % c) - f + 1 = i - u
                \/ /\ (s + i - 1) % c \notin f .. f + b - 1
                   /\ (s + i - 1) % c < n - b
                   /\ b + ((s + i - 1) % c) + 1 = i - u
  <2>1. PICK p \in Int : /\ p = (s + i - 1) % c
                         /\ p = IF s + i - 1 < c THEN s + i - 1 ELSE s + i - 1 - c
    BY <1>4
  <2>2. /\ p \in 0 .. c - 1
        /\ \/ p \in f .. f + b - 1 /\ p - f + 1 = i - u
           \/ p \notin f .. f + b - 1 /\ p < n - b /\ b + p + 1 = i - u
    <3>1. CASE s + u < c /\ s + i - 1 < c
      BY <2>1, <1>1, <1>2, <1>3, <3>1
    <3>2. CASE s + u < c /\ ~(s + i - 1 < c)
      <4>1. f = s + u /\ p = s + i - 1 - c /\ n >= c - f /\ b = c - f
        BY <2>1, <1>1, <1>2, <3>2
      <4>2. s + u < c /\ i <= c /\ i >= 1 /\ s + i - 1 >= c
        BY <3>2
      <4>. QED
        BY <4>1, <4>2, SMTT(30)
    <3>3. CASE ~(s + u < c)
      BY <2>1, <1>1, <1>2, <1>3, <3>3
    <3>. QED
      BY <3>1, <3>2, <3>3
  <2>. QED
    BY <2>1, <2>2
<1>. QED
  BY <1>3, <1>5, <1>6 DEF Placed

\* drain reads k bytes, b of them from s on and then the others from 0 on, and
\* the bytes that stay are found from the new start on.
Taken(c, s, u, k, b) ==
  /\ b \in 0 .. k /\ s + b <= c /\ k - b <= c
  /\ \A i \in 1 .. b : (s + i - 1) % c = s + i - 1
  /\ \A i \in b + 1 .. k : (s + i - 1) % c = i - b - 1
  /\ (s + k) % c \in 0 .. c - 1
  /\ \A i \in 1 .. u - k : (((s + k) % c) + i - 1) % c = (s + (k + i) - 1) % c

LEMMA DrainPositions ==
  ASSUME NEW c \in Nat \ {0}, NEW s \in 0 .. c - 1, NEW u \in 0 .. c, NEW k \in 0 .. u,
         NEW b, b = IF k < c - s THEN k ELSE c - s
  PROVE  Taken(c, s, u, k, b)
<1>. DEFINE At(x) == IF x < c THEN x ELSE x - c
<1>0. \A x \in 0 .. 2 * c - 1 : x % c = At(x)
  BY Wraparound, Zenon
<1>1. b = IF k < c - s THEN k ELSE c - s
  OBVIOUS
<1>2. b \in 0 .. k /\ s + b <= c /\ k - b <= c
  BY <1>1
<1>3. ASSUME NEW i \in 1 .. u
      PROVE  (s + i - 1) % c = IF s + i - 1 < c THEN s + i - 1 ELSE s + i - 1 - c
  <2>1. s + i - 1 \in 0 .. 2 * c - 1
    OBVIOUS
  <2>. QED
    BY <2>1, <1>0, SMTT(30)
<1>4. \A i \in 1 .. b : (s + i - 1) % c = s + i - 1
  BY <1>1, <1>2, <1>3
<1>5. \A i \in b + 1 .. k : (s + i - 1) % c = i - b - 1
  BY <1>1, <1>2, <1>3
<1>6. PICK t \in 0 .. c - 1 : t = (s + k) % c /\ t = IF s + k < c THEN s + k ELSE s + k - c
  <2>1. s + k \in 0 .. 2 * c - 1
    OBVIOUS
  <2>2. (s + k) % c = IF s + k < c THEN s + k ELSE s + k - c
    BY <2>1, <1>0
  <2>3. (IF s + k < c THEN s + k ELSE s + k - c) \in 0 .. c - 1
    OBVIOUS
  <2>. QED
    BY <2>2, <2>3
<1>7. ASSUME NEW i \in 1 .. u - k
      PROVE  (t + i - 1) % c = (s + (k + i) - 1) % c
  <2>1. t + i - 1 \in 0 .. 2 * c - 1 /\ k + i \in 1 .. u
    BY <1>6
  <2>2. (t + i - 1) % c = IF t + i - 1 < c THEN t + i - 1 ELSE t + i - 1 - c
    BY <2>1, <1>0
  <2>3. (s + (k + i) - 1) % c = IF s + (k + i) - 1 < c THEN s + (k + i) - 1 ELSE s + (k + i) - 1 - c
    BY <2>1, <1>3
  <2>. QED
    BY <1>6, <2>1, <2>2, <2>3
<1>. QED
  BY <1>2, <1>4, <1>5, <1>6, <1>7, Zenon DEF Taken

-----------------------------------------------------------------------------
(***************************************************************************)
(* The queue of a driver, with tokens T and requests R: the free list and  *)
(* the chains share no descriptor, the token of a request is one of its    *)
(* chain, and a token that the device has or had has a request and is in   *)
(* one place.                                                              *)
(***************************************************************************)
Queues(T, R, none) ==
  [free : Seq(T), chain : [T -> Seq(T)], request : [T -> R \cup {none}], available : Seq(T),
   held : SUBSET T, returned : Seq(T), awake : BOOLEAN]

Chained(q, T, none) ==
  /\ IsInjective(q.free)
  /\ \A t \in T : IsInjective(q.chain[t]) /\ Range(q.chain[t]) \cap Range(q.free) = {}
  /\ \A t, u \in T : t # u => Range(q.chain[t]) \cap Range(q.chain[u]) = {}
  /\ \A t \in T : q.request[t] # none => t \in Range(q.chain[t])

InOnePlace(q, none) ==
  /\ IsInjective(q.available) /\ IsInjective(q.returned)
  /\ Range(q.available) \cap q.held = {}
  /\ Range(q.available) \cap Range(q.returned) = {}
  /\ q.held \cap Range(q.returned) = {}
  /\ \A t \in Range(q.available) \cup q.held \cup Range(q.returned) : q.request[t] # none

QueueInv(q, T, R, none) == q \in Queues(T, R, none) /\ Chained(q, T, none) /\ InOnePlace(q, none)

\* With and Without of AbstractQueue, for a request of n descriptors.
Offered(q, r, n) ==
  [q EXCEPT
     !.request[Head(q.free)] = r,
     !.chain[Head(q.free)] = SubSeq(q.free, 1, n),
     !.free = SubSeq(@, n + 1, Len(@)),
     !.available = Append(@, Head(q.free))]

Popped(q, t, none) ==
  [q EXCEPT
     !.request[t] = none,
     !.chain[t] = <<>>,
     !.free = q.chain[t] \o @,
     !.returned = Tail(@)]

TakenUp(q) == [q EXCEPT !.held = @ \cup {Head(q.available)}, !.available = Tail(@)]
GivenBack(q, t) == [q EXCEPT !.held = @ \ {t}, !.returned = Append(@, t)]
Awake(q, awake) == [q EXCEPT !.awake = awake]

LEMMA SameElements ==
  ASSUME NEW S, NEW s \in Seq(S), NEW t \in Seq(S), Len(s) = Len(t),
         \A i \in 1 .. Len(s) : s[i] = t[i]
  PROVE  s = t
<1>1. s \in [1 .. Len(s) -> S] /\ t \in [1 .. Len(s) -> S]
  OBVIOUS
<1> QED BY <1>1

LEMMA RangeIn == ASSUME NEW S, NEW s \in Seq(S) PROVE \A d \in Range(s) : d \in S
  BY SequenceFacts

\* The first element of a sequence and the others.
LEMMA TailFacts ==
  ASSUME NEW S, NEW s \in Seq(S), s # <<>>
  PROVE  /\ Head(s) \in S /\ Head(s) = s[1] /\ Tail(s) \in Seq(S) /\ Len(Tail(s)) = Len(s) - 1
         /\ \A i \in 1 .. Len(s) - 1 : Tail(s)[i] = s[i + 1]
         /\ Range(s) = {Head(s)} \cup Range(Tail(s))
         /\ IsInjective(s) => IsInjective(Tail(s)) /\ Head(s) \notin Range(Tail(s))
<1> DEFINE h == Head(s)
           t == Tail(s)
<1>1. /\ h \in S /\ t \in Seq(S) /\ Len(t) = Len(s) - 1 /\ h = s[1] /\ Len(s) \in Nat
      /\ 1 \in 1 .. Len(s) /\ \A i \in 1 .. Len(s) - 1 : t[i] = s[i + 1]
  OBVIOUS
<1> HIDE DEF h, t
<1>2. \A i \in 1 .. Len(s) : i = 1 \/ (i - 1 \in 1 .. Len(t) /\ s[i] = t[i - 1])
  <2> TAKE i \in 1 .. Len(s)
  <2>1. CASE i # 1
    <3>1. i - 1 \in 1 .. Len(s) - 1 /\ (i - 1) + 1 = i
      BY <1>1, <2>1
    <3> QED BY <1>1, <3>1
  <2> QED BY <2>1
<1>3. \A i \in 1 .. Len(t) : i + 1 \in 1 .. Len(s) /\ i + 1 # 1 /\ t[i] = s[i + 1]
  BY <1>1
<1>4. Range(s) = {h} \cup Range(t)
  <2>1. \A i \in 1 .. Len(s) : s[i] \in {h} \cup Range(t)
    BY <1>1, <1>2, SequenceFacts, Zenon
  <2>2. h \in Range(s) /\ \A i \in 1 .. Len(t) : t[i] \in Range(s)
    BY <1>1, <1>3, SequenceFacts
  <2>3. \A d \in Range(s) : d \in {h} \cup Range(t)
    BY <2>1, SequenceFacts
  <2>4. \A d \in Range(t) : d \in Range(s)
    BY <2>2, <1>1, SequenceFacts
  <2> QED BY <2>2, <2>3, <2>4, Zenon
<1>5. ASSUME IsInjective(s) PROVE IsInjective(t) /\ h \notin Range(t)
  <2>1. \A i, j \in 1 .. Len(s) : s[i] = s[j] => i = j
    BY <1>5 DEF IsInjective
  <2>2. \A i, j \in 1 .. Len(t) : t[i] = t[j] => i = j
    <3> SUFFICES ASSUME NEW i \in 1 .. Len(t), NEW j \in 1 .. Len(t), t[i] = t[j] PROVE i = j
      OBVIOUS
    <3>1. i + 1 = j + 1
      BY <1>3, <2>1
    <3> QED BY <3>1, <1>1
  <2>3. \A i \in 1 .. Len(t) : t[i] # h
    BY <1>1, <1>3, <2>1
  <2>4. DOMAIN t = 1 .. Len(t)
    BY <1>1
  <2> QED BY <2>2, <2>3, <2>4, <1>1, SequenceFacts, ZenonT(30) DEF IsInjective
<1> QED BY <1>1, <1>4, <1>5 DEF h, t

\* The first n elements of a sequence and the others.
LEMMA SplitFacts ==
  ASSUME NEW S, NEW s \in Seq(S), NEW n \in 0 .. Len(s)
  PROVE  /\ SubSeq(s, 1, n) \in Seq(S) /\ SubSeq(s, n + 1, Len(s)) \in Seq(S)
         /\ Len(SubSeq(s, 1, n)) = n /\ Len(SubSeq(s, n + 1, Len(s))) = Len(s) - n
         /\ \A i \in 1 .. n : SubSeq(s, 1, n)[i] = s[i]
         /\ \A i \in 1 .. Len(s) - n : SubSeq(s, n + 1, Len(s))[i] = s[n + i]
         /\ Range(s) = Range(SubSeq(s, 1, n)) \cup Range(SubSeq(s, n + 1, Len(s)))
         /\ IsInjective(s) => /\ IsInjective(SubSeq(s, 1, n)) /\ IsInjective(SubSeq(s, n + 1, Len(s)))
                              /\ Range(SubSeq(s, 1, n)) \cap Range(SubSeq(s, n + 1, Len(s))) = {}
<1> DEFINE a == SubSeq(s, 1, n)
           b == SubSeq(s, n + 1, Len(s))
<1>0. Len(s) \in Nat /\ n \in Nat /\ n <= Len(s)
  OBVIOUS
<1>1. /\ a \in Seq(S) /\ Len(a) = n /\ \A i \in 1 .. n : a[i] = s[i]
  OBVIOUS
<1>2. /\ b \in Seq(S) /\ Len(b) = Len(s) - n /\ \A i \in 1 .. Len(s) - n : b[i] = s[n + i]
  OBVIOUS
<1> HIDE DEF a, b
<1>3. \A i \in 1 .. Len(s) : \/ i \in 1 .. Len(a) /\ s[i] = a[i]
                             \/ i - n \in 1 .. Len(b) /\ s[i] = b[i - n]
  <2> TAKE i \in 1 .. Len(s)
  <2>1. CASE i > n
    <3>1. i - n \in 1 .. Len(s) - n /\ n + (i - n) = i
      BY <1>0, <2>1
    <3> QED BY <1>2, <3>1
  <2>2. CASE i <= n
    BY <1>0, <1>1, <2>2
  <2> QED BY <1>0, <2>1, <2>2
<1>4. /\ \A i \in 1 .. Len(a) : i \in 1 .. Len(s) /\ i <= n /\ a[i] = s[i]
      /\ \A i \in 1 .. Len(b) : n + i \in 1 .. Len(s) /\ b[i] = s[n + i]
  BY <1>0, <1>1, <1>2
<1>5. Range(s) = Range(a) \cup Range(b)
  <2>1. \A i \in 1 .. Len(s) : s[i] \in Range(a) \cup Range(b)
    BY <1>1, <1>2, <1>3, SequenceFacts, ZenonT(30)
  <2>2. \A i \in 1 .. Len(a) : a[i] \in Range(s)
    BY <1>4, SequenceFacts
  <2>3. \A i \in 1 .. Len(b) : b[i] \in Range(s)
    BY <1>4, SequenceFacts
  <2>4. /\ \A d \in Range(s) : \E i \in 1 .. Len(s) : d = s[i]
        /\ \A d \in Range(a) : \E i \in 1 .. Len(a) : d = a[i]
        /\ \A d \in Range(b) : \E i \in 1 .. Len(b) : d = b[i]
    BY <1>1, <1>2, SequenceFacts, Zenon
  <2>5. \A d \in Range(s) : d \in Range(a) \cup Range(b)
    BY <2>1, <2>4, Zenon
  <2>6. (\A d \in Range(a) : d \in Range(s)) /\ (\A d \in Range(b) : d \in Range(s))
    BY <2>2, <2>3, <2>4, Zenon
  <2> QED BY <2>5, <2>6
<1>6. ASSUME IsInjective(s) PROVE IsInjective(a) /\ IsInjective(b) /\ Range(a) \cap Range(b) = {}
  <2>1. \A i, j \in 1 .. Len(s) : s[i] = s[j] => i = j
    BY <1>6 DEF IsInjective
  <2>2. \A i, j \in 1 .. Len(a) : a[i] = a[j] => i = j
    BY <1>4, <2>1
  <2>3. \A i, j \in 1 .. Len(b) : b[i] = b[j] => i = j
    <3> SUFFICES ASSUME NEW i \in 1 .. Len(b), NEW j \in 1 .. Len(b), b[i] = b[j] PROVE i = j
      OBVIOUS
    <3>1. n + i = n + j
      BY <1>4, <2>1
    <3> QED BY <3>1, <1>0, <1>2
  <2>4. \A i \in 1 .. Len(a), j \in 1 .. Len(b) : a[i] # b[j]
    <3> SUFFICES ASSUME NEW i \in 1 .. Len(a), NEW j \in 1 .. Len(b), a[i] = b[j] PROVE FALSE
      OBVIOUS
    <3>1. i = n + j
      BY <1>4, <2>1
    <3> QED BY <3>1, <1>0, <1>1, <1>2
  <2>5. DOMAIN a = 1 .. Len(a) /\ DOMAIN b = 1 .. Len(b)
    BY <1>1, <1>2
  <2>6. IsInjective(a) /\ IsInjective(b)
    BY <2>2, <2>3, <2>5 DEF IsInjective
  <2> QED BY <2>4, <2>6, <1>1, <1>2, SequenceFacts, SMTT(30)
<1> QED BY <1>1, <1>2, <1>5, <1>6 DEF a, b

\* A queue is the record of its fields.
Fields(q) ==
  [free |-> q.free, chain |-> q.chain, request |-> q.request, available |-> q.available,
   held |-> q.held, returned |-> q.returned, awake |-> q.awake]

LEMMA QueueFields == ASSUME NEW T, NEW R, NEW none, NEW q \in Queues(T, R, none) PROVE q = Fields(q)
  BY DEF Queues, Fields

\* A function changed at one argument.
LEMMA Changed ==
  ASSUME NEW S, NEW V, NEW f \in [S -> V], NEW x \in S, NEW v \in V
  PROVE  /\ [f EXCEPT ![x] = v] \in [S -> V]
         /\ [f EXCEPT ![x] = v][x] = v
         /\ \A y \in S \ {x} : [f EXCEPT ![x] = v][y] = f[y]
  OBVIOUS

\* What an addition does to the fields of the queue.
LEMMA OfferedFields ==
  ASSUME NEW q, q = Fields(q), NEW r, NEW n
  PROVE  Offered(q, r, n) =
           [free |-> SubSeq(q.free, n + 1, Len(q.free)),
            chain |-> [q.chain EXCEPT ![Head(q.free)] = SubSeq(q.free, 1, n)],
            request |-> [q.request EXCEPT ![Head(q.free)] = r],
            available |-> Append(q.available, Head(q.free)),
            held |-> q.held, returned |-> q.returned, awake |-> q.awake]
<1>1. Offered(q, r, n) =
        [q EXCEPT !.request = [q.request EXCEPT ![Head(q.free)] = r],
                  !.chain = [q.chain EXCEPT ![Head(q.free)] = SubSeq(q.free, 1, n)],
                  !.free = SubSeq(q.free, n + 1, Len(q.free)),
                  !.available = Append(q.available, Head(q.free))]
  BY Zenon DEF Offered
<1> QED BY <1>1, Zenon DEF Fields

\* Adding a request takes descriptors of no other request.
AfterOffer(q, p, h, r, n, T, R, none) ==
  /\ QueueInv(p, T, R, none)
  /\ h \in T /\ h = q.free[1] /\ q.request[h] = none
  /\ p.free = SubSeq(q.free, n + 1, Len(q.free))
  /\ p.chain = [q.chain EXCEPT ![h] = SubSeq(q.free, 1, n)]
  /\ p.request = [q.request EXCEPT ![h] = r]
  /\ p.available = Append(q.available, h)
  /\ p.held = q.held /\ p.returned = q.returned /\ p.awake = q.awake

LEMMA OfferedInv ==
  ASSUME NEW T, NEW R, NEW none, NEW q, QueueInv(q, T, R, none), NEW r \in R, r # none, NEW n \in 1 .. Len(q.free),
         NEW p, p = Offered(q, r, n), NEW h, h = Head(q.free)
  PROVE  AfterOffer(q, p, h, r, n, T, R, none)
<1> DEFINE first == SubSeq(q.free, 1, n)
           rest == SubSeq(q.free, n + 1, Len(q.free))
<1>0. q \in Queues(T, R, none) /\ Chained(q, T, none) /\ InOnePlace(q, none)
  BY Zenon DEF QueueInv
<1>1. /\ q.free \in Seq(T) /\ q.chain \in [T -> Seq(T)] /\ q.request \in [T -> R \cup {none}]
      /\ q.available \in Seq(T) /\ q.held \in SUBSET T /\ q.returned \in Seq(T)
      /\ q.awake \in BOOLEAN
  BY <1>0 DEF Queues
<1>2. p = [free |-> rest, chain |-> [q.chain EXCEPT ![h] = first],
           request |-> [q.request EXCEPT ![h] = r], available |-> Append(q.available, h),
           held |-> q.held, returned |-> q.returned, awake |-> q.awake]
  <2>1. q = Fields(q)
    BY <1>0, QueueFields, Zenon
  <2> QED BY <2>1, OfferedFields, Zenon
<1>3. q.free # <<>> /\ n \in 0 .. Len(q.free) /\ Len(q.free) \in Nat
  BY <1>1
<1>4. h \in T /\ h = q.free[1] /\ h \in Range(q.free)
  BY <1>1, <1>3, TailFacts
<1>5. /\ first \in Seq(T) /\ rest \in Seq(T) /\ Len(first) = n
      /\ \A i \in 1 .. n : first[i] = q.free[i]
      /\ Range(q.free) = Range(first) \cup Range(rest)
      /\ IsInjective(first) /\ IsInjective(rest) /\ Range(first) \cap Range(rest) = {}
  <2>1. IsInjective(q.free)
    BY <1>0, Zenon DEF Chained
  <2> QED BY <1>1, <1>3, <2>1, SplitFacts, SMTT(30)
<1> HIDE DEF first, rest
<1>6. h \in Range(first)
  <2>1. 1 \in 1 .. n /\ 1 \in 1 .. Len(first)
    BY <1>5
  <2>2. first[1] \in Range(first)
    BY <2>1, <1>5, SequenceFacts, Zenon
  <2> QED BY <1>4, <1>5, <2>1, <2>2, Zenon
<1>7. q.request[h] = none
  BY <1>0, <1>4, Zenon DEF Chained
<1>8. /\ p.free = rest /\ p.chain = [q.chain EXCEPT ![h] = first]
      /\ p.request = [q.request EXCEPT ![h] = r] /\ p.available = Append(q.available, h)
      /\ p.held = q.held /\ p.returned = q.returned /\ p.awake = q.awake
  BY <1>2
<1>9. /\ p.chain \in [T -> Seq(T)] /\ p.chain[h] = first
      /\ \A t \in T \ {h} : p.chain[t] = q.chain[t]
  BY <1>1, <1>4, <1>5, <1>8, SMTT(30)
<1>10. /\ p.request \in [T -> R \cup {none}] /\ p.request[h] = r
       /\ \A t \in T \ {h} : p.request[t] = q.request[t]
  BY <1>1, <1>4, <1>8
<1>11. /\ p.available \in Seq(T) /\ Range(p.available) = Range(q.available) \cup {h}
       /\ IsInjective(q.available) /\ h \notin Range(q.available) => IsInjective(p.available)
  BY <1>1, <1>4, <1>8, AppendingFacts, SMTT(30)
<1>12. p \in Queues(T, R, none)
  <2>1. /\ rest \in Seq(T) /\ [q.chain EXCEPT ![h] = first] \in [T -> Seq(T)]
        /\ [q.request EXCEPT ![h] = r] \in [T -> R \cup {none}] /\ Append(q.available, h) \in Seq(T)
    BY <1>5, <1>8, <1>9, <1>10, <1>11, Zenon
  <2> QED BY <1>1, <1>2, <2>1, SMTT(30) DEF Queues
<1>13. Chained(p, T, none)
  <2>1. IsInjective(p.free)
    BY <1>5, <1>8, Zenon
  <2>2. ASSUME NEW t \in T
        PROVE  IsInjective(p.chain[t]) /\ Range(p.chain[t]) \cap Range(p.free) = {}
    <3>1. CASE t = h
      BY <3>1, <1>5, <1>8, <1>9, Zenon
    <3>2. CASE t # h
      <4>1. IsInjective(q.chain[t]) /\ Range(q.chain[t]) \cap Range(q.free) = {}
        BY <1>0, Zenon DEF Chained
      <4> QED BY <3>2, <4>1, <1>5, <1>8, <1>9, Zenon
    <3> QED BY <3>1, <3>2
  <2>3. ASSUME NEW t \in T, NEW u \in T, t # u
        PROVE  Range(p.chain[t]) \cap Range(p.chain[u]) = {}
    <3>0. /\ Range(q.chain[t]) \cap Range(q.free) = {} /\ Range(q.chain[u]) \cap Range(q.free) = {}
          /\ Range(q.chain[t]) \cap Range(q.chain[u]) = {}
      BY <1>0, <2>3, Zenon DEF Chained
    <3>1. CASE t = h
      BY <2>3, <3>0, <3>1, <1>5, <1>9, Zenon
    <3>2. CASE u = h
      BY <2>3, <3>0, <3>2, <1>5, <1>9, Zenon
    <3>3. CASE t # h /\ u # h
      BY <3>0, <3>3, <1>9, Zenon
    <3> QED BY <3>1, <3>2, <3>3, Zenon
  <2>4. ASSUME NEW t \in T, p.request[t] # none PROVE t \in Range(p.chain[t])
    <3>1. CASE t = h
      BY <3>1, <1>6, <1>9, Zenon
    <3>2. CASE t # h
      BY <2>4, <3>2, <1>0, <1>9, <1>10, Zenon DEF Chained
    <3> QED BY <3>1, <3>2
  <2> QED BY <2>1, <2>2, <2>3, <2>4, Zenon DEF Chained
<1>14. InOnePlace(p, none)
  <2>1. h \notin Range(q.available) \cup q.held \cup Range(q.returned)
    BY <1>0, <1>7, Zenon DEF InOnePlace
  <2>2. \A t \in Range(q.available) \cup q.held \cup Range(q.returned) : t \in T
    BY <1>1, RangeIn, Zenon
  <2>3. \A t \in Range(p.available) \cup p.held \cup Range(p.returned) : p.request[t] # none
    BY <1>0, <1>8, <1>10, <1>11, <2>1, <2>2, Zenon DEF InOnePlace
  <2>4. /\ Range(p.available) \cap p.held = {}
        /\ Range(p.available) \cap Range(p.returned) = {}
        /\ p.held \cap Range(p.returned) = {}
    BY <1>0, <1>8, <1>11, <2>1, Zenon DEF InOnePlace
  <2> QED BY <1>0, <1>8, <1>11, <2>1, <2>3, <2>4, Zenon DEF InOnePlace
<1> QED BY <1>4, <1>7, <1>8, <1>12, <1>13, <1>14, Zenon DEF AfterOffer, QueueInv, first, rest

\* Popping the first token that was returned puts its descriptors back.
AfterPop(q, p, t, T, R, none) ==
  /\ QueueInv(p, T, R, none)
  /\ t \in T /\ t = q.returned[1] /\ q.request[t] # none /\ t \in Range(q.returned)
  /\ p.free = q.chain[t] \o q.free
  /\ p.chain = [q.chain EXCEPT ![t] = <<>>]
  /\ p.request = [q.request EXCEPT ![t] = none]
  /\ p.returned = Tail(q.returned)
  /\ p.held = q.held /\ p.available = q.available /\ p.awake = q.awake

LEMMA PoppedInv ==
  ASSUME NEW T, NEW R, NEW none, NEW q, QueueInv(q, T, R, none), q.returned # <<>>,
         NEW t, t = Head(q.returned), NEW p, p = Popped(q, t, none)
  PROVE  AfterPop(q, p, t, T, R, none)
<1> DEFINE free == q.chain[t] \o q.free
           chain == [q.chain EXCEPT ![t] = <<>>]
           request == [q.request EXCEPT ![t] = none]
           rest == Tail(q.returned)
<1>0. q \in Queues(T, R, none) /\ Chained(q, T, none) /\ InOnePlace(q, none)
  BY Zenon DEF QueueInv
<1>1. /\ q.free \in Seq(T) /\ q.chain \in [T -> Seq(T)] /\ q.request \in [T -> R \cup {none}]
      /\ q.available \in Seq(T) /\ q.held \in SUBSET T /\ q.returned \in Seq(T)
      /\ q.awake \in BOOLEAN
  BY <1>0 DEF Queues
<1>2. p = [free |-> free, chain |-> chain, request |-> request, available |-> q.available,
           held |-> q.held, returned |-> rest, awake |-> q.awake]
  <2>1. q = Fields(q)
    BY <1>0, QueueFields, Zenon
  <2>2. Popped(q, t, none) =
          [q EXCEPT !.request = request, !.chain = chain, !.free = free, !.returned = rest]
    BY Zenon DEF Popped
  <2>3. Popped(q, t, none) =
          [free |-> free, chain |-> chain, request |-> request, available |-> q.available,
           held |-> q.held, returned |-> rest, awake |-> q.awake]
    BY <2>1, <2>2, Zenon DEF Fields
  <2> QED BY <2>3, Zenon
<1>3. /\ t \in T /\ t = q.returned[1] /\ Tail(q.returned) \in Seq(T)
      /\ Range(q.returned) = {t} \cup Range(Tail(q.returned))
      /\ IsInjective(q.returned) => IsInjective(Tail(q.returned)) /\ t \notin Range(Tail(q.returned))
  BY <1>1, TailFacts
<1>4. IsInjective(Tail(q.returned)) /\ t \notin Range(Tail(q.returned)) /\ t \in Range(q.returned)
  BY <1>0, <1>3, Zenon DEF InOnePlace
<1>5. q.request[t] # none /\ t \notin q.held /\ t \notin Range(q.available)
  BY <1>0, <1>4, Zenon DEF InOnePlace
<1>6. q.chain[t] \in Seq(T) /\ <<>> \in Seq(T)
  BY <1>1, <1>3
<1>7. /\ free \in Seq(T) /\ Range(free) = Range(q.chain[t]) \cup Range(q.free)
      /\ IsInjective(free)
  <2>1. IsInjective(q.free) /\ IsInjective(q.chain[t]) /\ Range(q.chain[t]) \cap Range(q.free) = {}
    BY <1>0, <1>3, Zenon DEF Chained
  <2> QED BY <1>1, <1>6, <2>1, ConcatenationFacts, SMTT(30)
<1>8. /\ chain \in [T -> Seq(T)] /\ chain[t] = <<>>
      /\ \A u \in T \ {t} : chain[u] = q.chain[u]
  BY <1>1, <1>3, <1>6, Changed, SMTT(30)
<1>9. /\ request \in [T -> R \cup {none}] /\ request[t] = none
      /\ \A u \in T \ {t} : request[u] = q.request[u]
  BY <1>1, <1>3, Changed
<1> HIDE DEF free, chain, request, rest
<1>10. /\ p.free = free /\ p.chain = chain /\ p.request = request /\ p.available = q.available
       /\ p.held = q.held /\ p.returned = rest /\ p.awake = q.awake
  BY <1>2
<1>11. p \in Queues(T, R, none)
  <2>1. rest \in Seq(T)
    BY <1>3, Zenon DEF rest
  <2> QED BY <1>1, <1>2, <1>7, <1>8, <1>9, <2>1, SMTT(30) DEF Queues
<1>12. Range(<<>>) = {} /\ IsInjective(<<>>)
  BY DEF Range, IsInjective
<1>13. Chained(p, T, none)
  <2>1. ASSUME NEW u \in T
        PROVE  IsInjective(p.chain[u]) /\ Range(p.chain[u]) \cap Range(p.free) = {}
    <3>1. CASE u = t
      BY <3>1, <1>8, <1>10, <1>12, Zenon
    <3>2. CASE u # t
      <4>1. /\ IsInjective(q.chain[u]) /\ Range(q.chain[u]) \cap Range(q.free) = {}
            /\ Range(q.chain[u]) \cap Range(q.chain[t]) = {}
        BY <1>0, <1>3, <3>2, Zenon DEF Chained
      <4> QED BY <3>2, <4>1, <1>7, <1>10, <1>8, Zenon
    <3> QED BY <3>1, <3>2
  <2>2. ASSUME NEW u \in T, NEW v \in T, u # v
        PROVE  Range(p.chain[u]) \cap Range(p.chain[v]) = {}
    <3>1. CASE u = t
      BY <3>1, <1>8, <1>10, <1>12, Zenon
    <3>2. CASE v = t
      BY <3>2, <1>8, <1>10, <1>12, Zenon
    <3>3. CASE u # t /\ v # t
      <4>1. Range(q.chain[u]) \cap Range(q.chain[v]) = {}
        BY <2>2, <1>0, Zenon DEF Chained
      <4>2. p.chain[u] = q.chain[u] /\ p.chain[v] = q.chain[v]
        BY <3>3, <1>8, <1>10, Zenon
      <4> QED BY <4>1, <4>2, Zenon
    <3> QED BY <3>1, <3>2, <3>3, Zenon
  <2>3. ASSUME NEW u \in T, p.request[u] # none PROVE u \in Range(p.chain[u])
    <3>1. u # t
      BY <2>3, <1>9, <1>10, Zenon
    <3> QED BY <2>3, <3>1, <1>0, <1>8, <1>10, <1>9, Zenon DEF Chained
  <2> QED BY <1>7, <1>10, <2>1, <2>2, <2>3, Zenon DEF Chained
<1>14. InOnePlace(p, none)
  <2>1. \A u \in Range(q.available) \cup q.held \cup Range(q.returned) : u \in T
    BY <1>1, RangeIn, Zenon
  <2>2. \A u \in Range(p.available) \cup p.held \cup Range(p.returned) :
          u \in T \ {t} /\ u \in Range(q.available) \cup q.held \cup Range(q.returned)
    BY <1>3, <1>4, <1>5, <1>10, <2>1, Zenon DEF rest
  <2>3. ASSUME NEW u \in Range(p.available) \cup p.held \cup Range(p.returned)
        PROVE  p.request[u] # none
    <3>1. q.request[u] # none
      BY <1>0, <2>2, Zenon DEF InOnePlace
    <3> QED BY <1>9, <1>10, <2>2, <3>1, Zenon
  <2>4. /\ Range(p.available) \cap p.held = {}
        /\ Range(p.available) \cap Range(p.returned) = {}
        /\ p.held \cap Range(p.returned) = {}
    BY <1>0, <1>3, <1>10, Zenon DEF InOnePlace, rest
  <2> QED BY <1>0, <1>4, <1>10, <1>3, <2>3, <2>4, Zenon DEF InOnePlace, rest
<1> QED BY <1>3, <1>4, <1>5, <1>10, <1>11, <1>13, <1>14, Zenon DEF AfterPop, QueueInv, free, chain, request, rest

\* The device takes the first token that was offered.
LEMMA TakenInv ==
  ASSUME NEW T, NEW R, NEW none, NEW q, QueueInv(q, T, R, none), q.available # <<>>,
         NEW p, p = TakenUp(q)
  PROVE  /\ QueueInv(p, T, R, none)
         /\ p.free = q.free /\ p.chain = q.chain /\ p.request = q.request /\ p.returned = q.returned
<1> DEFINE h == Head(q.available)
           rest == Tail(q.available)
           held == q.held \cup {h}
<1>0. q \in Queues(T, R, none) /\ Chained(q, T, none) /\ InOnePlace(q, none)
  BY Zenon DEF QueueInv
<1>1. /\ q.free \in Seq(T) /\ q.chain \in [T -> Seq(T)] /\ q.request \in [T -> R \cup {none}]
      /\ q.available \in Seq(T) /\ q.held \in SUBSET T /\ q.returned \in Seq(T)
      /\ q.awake \in BOOLEAN
  BY <1>0 DEF Queues
<1>2. p = [free |-> q.free, chain |-> q.chain, request |-> q.request, available |-> rest,
           held |-> held, returned |-> q.returned, awake |-> q.awake]
  <2>1. q = Fields(q)
    BY <1>0, QueueFields, Zenon
  <2> QED BY <2>1, Zenon DEF TakenUp, Fields
<1>3. /\ h \in T /\ rest \in Seq(T) /\ Range(q.available) = {h} \cup Range(rest)
      /\ IsInjective(q.available) => IsInjective(rest) /\ h \notin Range(rest)
  BY <1>1, TailFacts
<1> HIDE DEF h, rest
<1>4. /\ p.free = q.free /\ p.chain = q.chain /\ p.request = q.request /\ p.available = rest
      /\ p.held = q.held \cup {h} /\ p.returned = q.returned
  BY <1>2
<1>5. p \in Queues(T, R, none)
  BY <1>1, <1>2, <1>3 DEF Queues
<1>6. Chained(p, T, none)
  BY <1>0, <1>4, Zenon DEF Chained
<1>7. InOnePlace(p, none)
  <2>1. \A t \in Range(p.available) \cup p.held \cup Range(p.returned) : p.request[t] # none
    BY <1>0, <1>3, <1>4, Zenon DEF InOnePlace
  <2>2. /\ Range(p.available) \cap p.held = {}
        /\ Range(p.available) \cap Range(p.returned) = {}
        /\ p.held \cap Range(p.returned) = {}
    BY <1>0, <1>3, <1>4, Zenon DEF InOnePlace
  <2> QED BY <1>0, <1>3, <1>4, <2>1, <2>2, Zenon DEF InOnePlace
<1> QED BY <1>4, <1>5, <1>6, <1>7, Zenon DEF QueueInv

\* The device hands a token back.
LEMMA GivenInv ==
  ASSUME NEW T, NEW R, NEW none, NEW q, QueueInv(q, T, R, none), NEW t \in q.held,
         NEW p, p = GivenBack(q, t)
  PROVE  /\ QueueInv(p, T, R, none)
         /\ t \in T /\ q.request[t] # none /\ t \notin Range(q.returned)
         /\ p.free = q.free /\ p.chain = q.chain /\ p.request = q.request
         /\ p.returned = Append(q.returned, t) /\ p.held = q.held \ {t}
<1> DEFINE returned == Append(q.returned, t)
           held == q.held \ {t}
<1>0. q \in Queues(T, R, none) /\ Chained(q, T, none) /\ InOnePlace(q, none)
  BY Zenon DEF QueueInv
<1>1. /\ q.free \in Seq(T) /\ q.chain \in [T -> Seq(T)] /\ q.request \in [T -> R \cup {none}]
      /\ q.available \in Seq(T) /\ q.held \in SUBSET T /\ q.returned \in Seq(T)
      /\ q.awake \in BOOLEAN
  BY <1>0 DEF Queues
<1>2. p = [free |-> q.free, chain |-> q.chain, request |-> q.request, available |-> q.available,
           held |-> held, returned |-> returned, awake |-> q.awake]
  <2>1. q = Fields(q)
    BY <1>0, QueueFields, Zenon
  <2> QED BY <2>1, Zenon DEF GivenBack, Fields
<1>3. t \in T /\ q.request[t] # none /\ t \notin Range(q.returned) /\ t \notin Range(q.available)
  BY <1>0, <1>1, Zenon DEF InOnePlace
<1>4. /\ returned \in Seq(T) /\ Range(returned) = Range(q.returned) \cup {t}
      /\ IsInjective(q.returned) /\ t \notin Range(q.returned) => IsInjective(returned)
  BY <1>1, <1>3, AppendingFacts
<1> HIDE DEF returned
<1>5. /\ p.free = q.free /\ p.chain = q.chain /\ p.request = q.request /\ p.available = q.available
      /\ p.held = q.held \ {t} /\ p.returned = returned
  BY <1>2
<1>6. p \in Queues(T, R, none)
  BY <1>1, <1>2, <1>4 DEF Queues
<1>7. Chained(p, T, none)
  BY <1>0, <1>5, Zenon DEF Chained
<1>8. InOnePlace(p, none)
  <2>1. \A u \in Range(p.available) \cup p.held \cup Range(p.returned) : p.request[u] # none
    BY <1>0, <1>3, <1>4, <1>5, Zenon DEF InOnePlace
  <2>2. /\ Range(p.available) \cap p.held = {}
        /\ Range(p.available) \cap Range(p.returned) = {}
        /\ p.held \cap Range(p.returned) = {}
    BY <1>0, <1>3, <1>4, <1>5, Zenon DEF InOnePlace
  <2> QED BY <1>0, <1>3, <1>4, <1>5, <2>1, <2>2, Zenon DEF InOnePlace
<1> QED BY <1>3, <1>5, <1>6, <1>7, <1>8, Zenon DEF QueueInv, returned

\* A notification, and the device going to sleep.
LEMMA AwakeInv ==
  ASSUME NEW T, NEW R, NEW none, NEW q, QueueInv(q, T, R, none), NEW awake \in BOOLEAN,
         NEW p, p = Awake(q, awake)
  PROVE  /\ QueueInv(p, T, R, none)
         /\ p.free = q.free /\ p.chain = q.chain /\ p.request = q.request
         /\ p.available = q.available /\ p.held = q.held /\ p.returned = q.returned
<1>0. q \in Queues(T, R, none) /\ Chained(q, T, none) /\ InOnePlace(q, none)
  BY Zenon DEF QueueInv
<1>1. /\ q.free \in Seq(T) /\ q.chain \in [T -> Seq(T)] /\ q.request \in [T -> R \cup {none}]
      /\ q.available \in Seq(T) /\ q.held \in SUBSET T /\ q.returned \in Seq(T)
      /\ q.awake \in BOOLEAN
  BY <1>0 DEF Queues
<1>2. p = [free |-> q.free, chain |-> q.chain, request |-> q.request, available |-> q.available,
           held |-> q.held, returned |-> q.returned, awake |-> awake]
  <2>1. q = Fields(q)
    BY <1>0, QueueFields, Zenon
  <2> QED BY <2>1, Zenon DEF Awake, Fields
<1>3. /\ p.free = q.free /\ p.chain = q.chain /\ p.request = q.request
      /\ p.available = q.available /\ p.held = q.held /\ p.returned = q.returned
  BY <1>2
<1>4. p \in Queues(T, R, none)
  BY <1>1, <1>2 DEF Queues
<1>5. Chained(p, T, none) /\ InOnePlace(p, none)
  BY <1>0, <1>3, Zenon DEF Chained, InOnePlace
<1> QED BY <1>3, <1>4, <1>5, Zenon DEF QueueInv

-----------------------------------------------------------------------------
(***************************************************************************)
(* A queue whose requests take one descriptor each.                        *)
(***************************************************************************)
OneInv(q, T, R, none) ==
  /\ QueueInv(q, T, R, none)
  /\ \A t \in T : q.request[t] # none => q.chain[t] = <<t>>

LEMMA FirstOfSequence ==
  ASSUME NEW S, NEW s \in Seq(S), s # <<>>
  PROVE  /\ 1 \in 1 .. Len(s) /\ SubSeq(s, 1, 1) = <<s[1]>>
         /\ SubSeq(s, 1 + 1, Len(s)) = Tail(s)
<1>1. 1 \in 1 .. Len(s) /\ s[1] \in S
  OBVIOUS
<1>2. SubSeq(s, 1, 1) = <<s[1]>>
  <2> DEFINE a == SubSeq(s, 1, 1)
             b == <<s[1]>>
  <2>1. a \in Seq(S) /\ b \in Seq(S) /\ Len(a) = 1 /\ Len(b) = 1 /\ a[1] = s[1] /\ b[1] = s[1]
    BY <1>1
  <2> HIDE DEF a, b
  <2>2. Len(a) = Len(b) /\ \A i \in 1 .. Len(a) : a[i] = b[i]
    BY <2>1
  <2>3. a = b
    BY <2>1, <2>2, SameElements
  <2> QED BY <2>3 DEF a, b
<1>3. SubSeq(s, 1 + 1, Len(s)) = Tail(s)
  <2> DEFINE a == SubSeq(s, 1 + 1, Len(s))
             b == Tail(s)
  <2>1. a \in Seq(S) /\ Len(a) = Len(s) - 1 /\ \A i \in 1 .. Len(s) - 1 : a[i] = s[1 + i]
    <3>1. 1 \in 0 .. Len(s)
      BY <1>1
    <3>2. ASSUME NEW n \in 0 .. Len(s)
          PROVE  /\ SubSeq(s, n + 1, Len(s)) \in Seq(S) /\ Len(SubSeq(s, n + 1, Len(s))) = Len(s) - n
                 /\ \A i \in 1 .. Len(s) - n : SubSeq(s, n + 1, Len(s))[i] = s[n + i]
      BY SplitFacts
    <3> QED BY <3>1, <3>2, Zenon
  <2>2. b \in Seq(S) /\ Len(b) = Len(s) - 1 /\ \A i \in 1 .. Len(s) - 1 : b[i] = s[i + 1]
    BY <1>1
  <2> HIDE DEF a, b
  <2>3. Len(a) = Len(b) /\ \A i \in 1 .. Len(a) : a[i] = b[i]
    BY <2>1, <2>2
  <2>4. a = b
    BY <2>1, <2>2, <2>3, SameElements
  <2> QED BY <2>4 DEF a, b
<1> QED BY <1>1, <1>2, <1>3

\* add, with or without a notification after it.
AfterOfferOne(q, p, h, r, T, R, none) ==
  /\ OneInv(p, T, R, none)
  /\ h \in T /\ q.request[h] = none /\ p.free = Tail(q.free)
  /\ p.request = [q.request EXCEPT ![h] = r]
  /\ p.held = q.held /\ p.returned = q.returned

LEMMA OfferedOne ==
  ASSUME NEW T, NEW R, NEW none, NEW q, OneInv(q, T, R, none), q.free # <<>>, NEW r \in R, r # none,
         NEW p, p = Offered(q, r, 1) \/ p = Awake(Offered(q, r, 1), TRUE),
         NEW h, h = Head(q.free)
  PROVE  AfterOfferOne(q, p, h, r, T, R, none)
<1> DEFINE o == Offered(q, r, 1)
<1>0. QueueInv(q, T, R, none) /\ \A t \in T : q.request[t] # none => q.chain[t] = <<t>>
  BY Zenon DEF OneInv
<1>1. q.free \in Seq(T) /\ q.chain \in [T -> Seq(T)] /\ q.request \in [T -> R \cup {none}]
  BY <1>0 DEF QueueInv, Queues
<1>2. /\ 1 \in 1 .. Len(q.free) /\ SubSeq(q.free, 1, 1) = <<q.free[1]>>
      /\ SubSeq(q.free, 1 + 1, Len(q.free)) = Tail(q.free)
  BY <1>1, FirstOfSequence
<1> HIDE DEF o
<1>3. /\ QueueInv(o, T, R, none) /\ h \in T /\ h = q.free[1] /\ q.request[h] = none
      /\ o.free = SubSeq(q.free, 1 + 1, Len(q.free))
      /\ o.chain = [q.chain EXCEPT ![h] = SubSeq(q.free, 1, 1)]
      /\ o.request = [q.request EXCEPT ![h] = r]
      /\ o.held = q.held /\ o.returned = q.returned
  <2>1. o = Offered(q, r, 1)
    BY DEF o
  <2>2. AfterOffer(q, o, h, r, 1, T, R, none)
    BY <1>0, <1>2, <2>1, OfferedInv
  <2> QED BY <2>2, Zenon DEF AfterOffer
<1>4. /\ QueueInv(p, T, R, none) /\ p.free = o.free /\ p.chain = o.chain /\ p.request = o.request
      /\ p.held = o.held /\ p.returned = o.returned
  <2>1. CASE p = Awake(o, TRUE)
    <3>1. TRUE \in BOOLEAN
      OBVIOUS
    <3>2. QueueInv(o, T, R, none)
      BY <1>3, Zenon
    <3>3. ASSUME NEW a \in BOOLEAN, p = Awake(o, a)
          PROVE  /\ QueueInv(p, T, R, none) /\ p.free = o.free /\ p.chain = o.chain
                 /\ p.request = o.request /\ p.held = o.held /\ p.returned = o.returned
      BY <3>2, <3>3, AwakeInv
    <3> QED BY <2>1, <3>1, <3>3, Zenon
  <2>2. CASE p = o
    BY <2>2, <1>3, Zenon
  <2> QED BY <2>1, <2>2, Zenon DEF o
<1>5. ASSUME NEW t \in T, p.request[t] # none PROVE p.chain[t] = <<t>>
  <2>1. CASE t = h
    <3>1. p.chain[h] = SubSeq(q.free, 1, 1)
      BY <1>1, <1>3, <1>4, Zenon
    <3> QED BY <2>1, <3>1, <1>2, <1>3, Zenon
  <2>2. CASE t # h
    <3>1. p.chain[t] = q.chain[t] /\ p.request[t] = q.request[t]
      BY <2>2, <1>1, <1>3, <1>4, Zenon
    <3> QED BY <3>1, <1>0, <1>5, Zenon
  <2> QED BY <2>1, <2>2
<1> QED BY <1>2, <1>3, <1>4, <1>5, Zenon DEF AfterOfferOne, OneInv

\* pop_used of the first token that was returned.
AfterPopOne(q, p, t, T, R, none) ==
  /\ OneInv(p, T, R, none)
  /\ t \in T /\ t = q.returned[1] /\ q.request[t] # none /\ t \in Range(q.returned)
  /\ p.free = <<t>> \o q.free
  /\ p.request = [q.request EXCEPT ![t] = none]
  /\ p.returned = Tail(q.returned) /\ p.held = q.held

LEMMA PoppedOne ==
  ASSUME NEW T, NEW R, NEW none, NEW q, OneInv(q, T, R, none), q.returned # <<>>,
         NEW t, t = Head(q.returned), NEW p, p = Popped(q, t, none)
  PROVE  AfterPopOne(q, p, t, T, R, none)
<1>0. QueueInv(q, T, R, none) /\ \A u \in T : q.request[u] # none => q.chain[u] = <<u>>
  BY Zenon DEF OneInv
<1>1. q.chain \in [T -> Seq(T)] /\ q.request \in [T -> R \cup {none}]
  BY <1>0 DEF QueueInv, Queues
<1>2. /\ QueueInv(p, T, R, none)
      /\ t \in T /\ t = q.returned[1] /\ q.request[t] # none /\ t \in Range(q.returned)
      /\ p.free = q.chain[t] \o q.free
      /\ p.chain = [q.chain EXCEPT ![t] = <<>>]
      /\ p.request = [q.request EXCEPT ![t] = none]
      /\ p.returned = Tail(q.returned) /\ p.held = q.held
  <2>1. AfterPop(q, p, t, T, R, none)
    BY <1>0, PoppedInv
  <2> QED BY <2>1, Zenon DEF AfterPop
<1>3. ASSUME NEW u \in T, p.request[u] # none PROVE p.chain[u] = <<u>>
  <2>1. u # t
    BY <1>1, <1>2, <1>3, Zenon
  <2>2. p.chain[u] = q.chain[u] /\ p.request[u] = q.request[u]
    BY <2>1, <1>1, <1>2, Zenon
  <2> QED BY <2>2, <1>0, <1>3, Zenon
<1> QED BY <1>0, <1>2, <1>3, Zenon DEF AfterPopOne, OneInv

\* Steps that only move tokens to the device, notify it or let it sleep.
SameRequests(q, p, T, R, none) ==
  OneInv(p, T, R, none) /\ p.free = q.free /\ p.request = q.request

AfterQuietStep(q, p, T, R, none) ==
  SameRequests(q, p, T, R, none) /\ p.returned = q.returned

LEMMA QuietOne ==
  ASSUME NEW T, NEW R, NEW none, NEW q, OneInv(q, T, R, none),
         NEW p, \/ q.available # <<>> /\ p = TakenUp(q)
                \/ \E awake \in BOOLEAN : p = Awake(q, awake)
  PROVE  AfterQuietStep(q, p, T, R, none)
<1>0. QueueInv(q, T, R, none)
  BY Zenon DEF OneInv
<1>1. /\ QueueInv(p, T, R, none)
      /\ p.free = q.free /\ p.chain = q.chain /\ p.request = q.request /\ p.returned = q.returned
  <2>1. CASE q.available # <<>> /\ p = TakenUp(q)
    BY <1>0, <2>1, TakenInv
  <2>2. CASE \E awake \in BOOLEAN : p = Awake(q, awake)
    BY <1>0, <2>2, AwakeInv
  <2> QED BY <2>1, <2>2, Zenon
<1> QED BY <1>1, Zenon DEF AfterQuietStep, SameRequests, OneInv

\* The device hands a token back.
AfterGiveOne(q, p, t, T, R, none) ==
  /\ SameRequests(q, p, T, R, none)
  /\ t \in T /\ q.request[t] # none /\ t \notin Range(q.returned)
  /\ p.returned = Append(q.returned, t)

LEMMA GivenOne ==
  ASSUME NEW T, NEW R, NEW none, NEW q, OneInv(q, T, R, none), NEW t \in q.held,
         NEW p, p = GivenBack(q, t)
  PROVE  AfterGiveOne(q, p, t, T, R, none)
<1>0. QueueInv(q, T, R, none)
  BY Zenon DEF OneInv
<1>1. /\ QueueInv(p, T, R, none) /\ t \in T /\ q.request[t] # none /\ t \notin Range(q.returned)
      /\ p.free = q.free /\ p.chain = q.chain /\ p.request = q.request
      /\ p.returned = Append(q.returned, t)
  BY <1>0, GivenInv
<1> QED BY <1>1, Zenon DEF AfterGiveOne, SameRequests, OneInv

-----------------------------------------------------------------------------
(***************************************************************************)
(* A queue of n descriptors to which the requests 0, 1, 2, ... have been   *)
(* added, i of them: what the loops of the constructors make.              *)
(***************************************************************************)
Counting(n, i) == [j \in 1 .. n - i |-> i + j - 1]

Started(n, i, none) ==
  [free |-> Counting(n, i),
   chain |-> [t \in 0 .. n - 1 |-> IF t < i THEN <<t>> ELSE <<>>],
   request |-> [t \in 0 .. n - 1 |-> IF t < i THEN t ELSE none],
   available |-> [j \in 1 .. i |-> j - 1],
   held |-> {}, returned |-> <<>>, awake |-> TRUE]

EmptyQueue(n, none) ==
  [free |-> [i \in 1 .. n |-> i - 1],
   chain |-> [t \in 0 .. n - 1 |-> <<>>],
   request |-> [t \in 0 .. n - 1 |-> none],
   available |-> <<>>, held |-> {}, returned |-> <<>>, awake |-> TRUE]

LEMMA StartedEmpty ==
  ASSUME NEW n \in Nat, NEW none
  PROVE  Started(n, 0, none) = EmptyQueue(n, none)
<1>1. Counting(n, 0) = [i \in 1 .. n |-> i - 1]
  BY DEF Counting
<1>2. [t \in 0 .. n - 1 |-> IF t < 0 THEN <<t>> ELSE <<>>] = [t \in 0 .. n - 1 |-> <<>>]
  OBVIOUS
<1>3. [t \in 0 .. n - 1 |-> IF t < 0 THEN t ELSE none] = [t \in 0 .. n - 1 |-> none]
  OBVIOUS
<1>4. [j \in 1 .. 0 |-> j - 1] = <<>>
  OBVIOUS
<1> QED BY <1>1, <1>2, <1>3, <1>4, Zenon DEF Started, EmptyQueue

LEMMA EmptyInv ==
  ASSUME NEW n \in Nat, NEW R, NEW none
  PROVE  OneInv(EmptyQueue(n, none), 0 .. n - 1, R, none)
<1> DEFINE T == 0 .. n - 1
           free == [i \in 1 .. n |-> i - 1]
           chain == [t \in T |-> <<>>]
           request == [t \in T |-> none]
           q == EmptyQueue(n, none)
<1>1. free \in Seq(T) /\ DOMAIN free = 1 .. n /\ \A i \in 1 .. n : free[i] = i - 1
  OBVIOUS
<1>2. <<>> \in Seq(T) /\ {} \in SUBSET T /\ TRUE \in BOOLEAN /\ Range(<<>>) = {} /\ IsInjective(<<>>)
  BY DEF Range, IsInjective
<1>3. chain \in [T -> Seq(T)] /\ request \in [T -> R \cup {none}]
  BY <1>2
<1>4. IsInjective(free)
  BY <1>1 DEF IsInjective
<1>5. \A t \in T : chain[t] = <<>> /\ request[t] = none
  OBVIOUS
<1>6. q = [free |-> free, chain |-> chain, request |-> request, available |-> <<>>,
           held |-> {}, returned |-> <<>>, awake |-> TRUE]
  BY Zenon DEF EmptyQueue
<1> HIDE DEF T, free, chain, request, q
<1>7. q \in Queues(T, R, none)
  BY <1>1, <1>2, <1>3, <1>6 DEF Queues
<1>8. /\ q.free = free /\ q.chain = chain /\ q.request = request /\ q.available = <<>>
      /\ q.held = {} /\ q.returned = <<>>
  BY <1>6
<1>9. Chained(q, T, none)
  BY <1>2, <1>4, <1>5, <1>8, Zenon DEF Chained
<1>10. InOnePlace(q, none)
  BY <1>2, <1>8, Zenon DEF InOnePlace
<1>11. OneInv(q, T, R, none)
  BY <1>5, <1>7, <1>8, <1>9, <1>10, Zenon DEF OneInv, QueueInv
<1> QED BY <1>11 DEF T, q

LEMMA CountingFacts ==
  ASSUME NEW n \in Nat, NEW i \in 0 .. n - 1
  PROVE  /\ Counting(n, i) # <<>> /\ Head(Counting(n, i)) = i /\ SubSeq(Counting(n, i), 1, 1) = <<i>>
         /\ SubSeq(Counting(n, i), 1 + 1, Len(Counting(n, i))) = Tail(Counting(n, i))
         /\ Tail(Counting(n, i)) = Counting(n, i + 1)
<1> DEFINE s == Counting(n, i)
<1>1. n - i \in Nat /\ n - i >= 1
  OBVIOUS
<1>2. s \in Seq(Int) /\ Len(s) = n - i /\ \A j \in 1 .. n - i : s[j] = i + j - 1
  BY <1>1 DEF Counting
<1> HIDE DEF s
<1>3. s # <<>> /\ Head(s) = i /\ s[1] = i
  BY <1>1, <1>2
<1>4. SubSeq(s, 1, 1) = <<s[1]>> /\ SubSeq(s, 1 + 1, Len(s)) = Tail(s)
  BY <1>2, <1>3, FirstOfSequence
<1>5. Tail(s) = Counting(n, i + 1)
  <2> DEFINE a == Tail(s)
             b == Counting(n, i + 1)
  <2>1. a \in Seq(Int) /\ Len(a) = n - (i + 1) /\ \A j \in 1 .. n - (i + 1) : a[j] = (i + 1) + j - 1
    BY <1>1, <1>2, <1>3
  <2>2. b \in Seq(Int) /\ Len(b) = n - (i + 1) /\ \A j \in 1 .. n - (i + 1) : b[j] = (i + 1) + j - 1
    BY <1>1 DEF Counting
  <2> HIDE DEF a, b
  <2>3. a = b
    BY <2>1, <2>2, SameElements
  <2> QED BY <2>3 DEF a, b
<1> QED BY <1>3, <1>4, <1>5, Zenon DEF s

\* Adding the next request.
LEMMA StartedNext ==
  ASSUME NEW n \in Nat, NEW none, NEW i \in 0 .. n - 1
  PROVE  /\ Offered(Started(n, i, none), i, 1) = Started(n, i + 1, none)
         /\ Started(n, i, none).free # <<>> /\ Head(Started(n, i, none).free) = i
<1> DEFINE q == Started(n, i, none)
           free == Counting(n, i)
           available == [j \in 1 .. i |-> j - 1]
<1>1. /\ free # <<>> /\ Head(free) = i /\ SubSeq(free, 1, 1) = <<i>>
      /\ SubSeq(free, 1 + 1, Len(free)) = Counting(n, i + 1)
  BY CountingFacts, Zenon
<1>3. Append(available, i) = [j \in 1 .. i + 1 |-> j - 1]
  <2> DEFINE a == Append(available, i)
             b == [j \in 1 .. i + 1 |-> j - 1]
  <2>1. available \in Seq(Int) /\ Len(available) = i /\ \A j \in 1 .. i : available[j] = j - 1
    OBVIOUS
  <2>2. b \in Seq(Int) /\ Len(b) = i + 1 /\ \A j \in 1 .. i + 1 : b[j] = j - 1
    OBVIOUS
  <2> HIDE DEF available, b
  <2>3. a \in Seq(Int) /\ Len(a) = i + 1 /\ \A j \in 1 .. i + 1 : a[j] = j - 1
    BY <2>1
  <2> HIDE DEF a
  <2>4. a = b
    BY <2>2, <2>3, SameElements
  <2> QED BY <2>4 DEF a, b
<1>4. [[t \in 0 .. n - 1 |-> IF t < i THEN <<t>> ELSE <<>>] EXCEPT ![i] = <<i>>]
        = [t \in 0 .. n - 1 |-> IF t < i + 1 THEN <<t>> ELSE <<>>]
  <2> DEFINE f == [t \in 0 .. n - 1 |-> IF t < i THEN <<t>> ELSE <<>>]
             g == [t \in 0 .. n - 1 |-> IF t < i + 1 THEN <<t>> ELSE <<>>]
  <2>1. f \in [0 .. n - 1 -> Seq(Int)] /\ g \in [0 .. n - 1 -> Seq(Int)]
    OBVIOUS
  <2>2. g[i] = <<i>> /\ \A t \in 0 .. n - 1 : t # i => g[t] = f[t]
    OBVIOUS
  <2> HIDE DEF f, g
  <2>3. [f EXCEPT ![i] = <<i>>] = g
    BY <2>1, <2>2, Zenon
  <2> QED BY <2>3 DEF f, g
<1>5. [[t \in 0 .. n - 1 |-> IF t < i THEN t ELSE none] EXCEPT ![i] = i]
        = [t \in 0 .. n - 1 |-> IF t < i + 1 THEN t ELSE none]
  <2> DEFINE f == [t \in 0 .. n - 1 |-> IF t < i THEN t ELSE none]
             g == [t \in 0 .. n - 1 |-> IF t < i + 1 THEN t ELSE none]
  <2>1. f \in [0 .. n - 1 -> Int \cup {none}] /\ g \in [0 .. n - 1 -> Int \cup {none}]
    OBVIOUS
  <2>2. g[i] = i /\ \A t \in 0 .. n - 1 : t # i => g[t] = f[t]
    OBVIOUS
  <2> HIDE DEF f, g
  <2>3. [f EXCEPT ![i] = i] = g
    BY <2>1, <2>2
  <2> QED BY <2>3 DEF f, g
<1>6. /\ q.free = free /\ q.available = available
      /\ q.chain = [t \in 0 .. n - 1 |-> IF t < i THEN <<t>> ELSE <<>>]
      /\ q.request = [t \in 0 .. n - 1 |-> IF t < i THEN t ELSE none]
      /\ q.held = {} /\ q.returned = <<>> /\ q.awake = TRUE
  BY Zenon DEF Started
<1>7. q = Fields(q)
  BY Zenon DEF Started, Fields
<1> HIDE DEF q
<1>8. Offered(q, i, 1) =
           [free |-> SubSeq(q.free, 1 + 1, Len(q.free)),
            chain |-> [q.chain EXCEPT ![Head(q.free)] = SubSeq(q.free, 1, 1)],
            request |-> [q.request EXCEPT ![Head(q.free)] = i],
            available |-> Append(q.available, Head(q.free)),
            held |-> q.held, returned |-> q.returned, awake |-> q.awake]
  BY <1>7, OfferedFields, Zenon
<1> HIDE DEF free, available
<1>9. Offered(q, i, 1) = Started(n, i + 1, none)
  BY <1>1, <1>3, <1>4, <1>5, <1>6, <1>8, Zenon DEF Started
<1> QED BY <1>1, <1>6, <1>9, Zenon DEF q

LEMMA StartedInv ==
  ASSUME NEW n \in Nat, NEW none, none \notin 0 .. n - 1
  PROVE  \A i \in 0 .. n : OneInv(Started(n, i, none), 0 .. n - 1, 0 .. n - 1, none)
<1> DEFINE T == 0 .. n - 1
           G == {i \in 0 .. n : OneInv(Started(n, i, none), T, T, none)}
<1>1. 0 \in G
  <2>1. 0 \in 0 .. n
    OBVIOUS
  <2> QED BY <2>1, StartedEmpty, EmptyInv, Zenon
<1>2. ASSUME NEW i \in 0 .. n - 1, i \in G PROVE i + 1 \in G
  <2> DEFINE q == Started(n, i, none)
             p == Started(n, i + 1, none)
  <2>1. i + 1 \in 0 .. n
    OBVIOUS
  <2>2. p = Offered(q, i, 1) /\ q.free # <<>>
    BY StartedNext, Zenon
  <2>3. OneInv(q, T, T, none) /\ i \in T /\ i # none
    BY <1>2, Zenon
  <2> HIDE DEF q, p, T
  <2>4. OneInv(p, T, T, none)
    <3>1. AfterOfferOne(q, p, Head(q.free), i, T, T, none)
      BY <2>2, <2>3, OfferedOne, Zenon
    <3> QED BY <3>1, Zenon DEF AfterOfferOne
  <2> QED BY <2>1, <2>4, Zenon DEF p
<1> HIDE DEF G
<1>3. \A i \in 0 .. n : i \in G
  BY <1>1, <1>2, NatInductionUpTo, Zenon
<1> QED BY <1>3, Zenon DEF G

\* The loop itself, as the recursive function that AbstractQueue defines.
LEMMA StartedLoop ==
  ASSUME NEW n \in Nat, NEW none, NEW s, Len(s) = n, \A i \in 1 .. n : s[i] = i - 1,
         NEW f, f = CHOOSE g : g = [i \in 0 .. Len(s) |-> IF i = 0 THEN EmptyQueue(n, none)
                                                         ELSE Offered(g[i - 1], s[i], 1)]
  PROVE  f[Len(s)] = Started(n, n, none)
<1> DEFINE Is(g) == g = [i \in 0 .. Len(s) |-> IF i = 0 THEN EmptyQueue(n, none)
                                              ELSE Offered(g[i - 1], s[i], 1)]
           h == [i \in 0 .. n |-> Started(n, i, none)]
           G == {i \in 0 .. n : f[i] = Started(n, i, none)}
<1>1. ASSUME NEW i \in 1 .. n
      PROVE  i - 1 \in 0 .. n /\ i # 0 /\ Started(n, i, none) = Offered(Started(n, i - 1, none), s[i], 1)
  <2>1. i - 1 \in 0 .. n - 1 /\ (i - 1) + 1 = i /\ s[i] = i - 1 /\ i - 1 \in 0 .. n /\ i # 0
    OBVIOUS
  <2>2. Offered(Started(n, i - 1, none), i - 1, 1) = Started(n, (i - 1) + 1, none)
    BY <2>1, StartedNext, Zenon
  <2> QED BY <2>1, <2>2, Zenon
<1>2. Is(h)
  <2>1. h = [i \in 0 .. n |-> Started(n, i, none)] /\ \A i \in 0 .. n : h[i] = Started(n, i, none)
    BY Zenon
  <2> HIDE DEF h
  <2>2. ASSUME NEW i \in 0 .. n
        PROVE  Started(n, i, none) = IF i = 0 THEN EmptyQueue(n, none) ELSE Offered(h[i - 1], s[i], 1)
    <3>1. CASE i = 0
      BY <3>1, StartedEmpty, Zenon
    <3>2. CASE i # 0
      <4>1. i \in 1 .. n
        BY <3>2
      <4>2. i - 1 \in 0 .. n /\ Started(n, i, none) = Offered(Started(n, i - 1, none), s[i], 1)
        BY <4>1, <1>1, Zenon
      <4> QED BY <3>2, <4>2, <2>1, Zenon
    <3> QED BY <3>1, <3>2
  <2> QED BY <2>1, <2>2, Zenon
<1>3. Is(f)
  BY <1>2, Zenon
<1>4. 0 \in G
  <2>1. 0 \in 0 .. n
    OBVIOUS
  <2> QED BY <2>1, <1>3, StartedEmpty, Zenon
<1>5. ASSUME NEW i \in 0 .. n - 1, i \in G PROVE i + 1 \in G
  <2>1. i + 1 \in 1 .. n /\ i + 1 \in 0 .. n /\ (i + 1) - 1 = i /\ i + 1 # 0
    OBVIOUS
  <2>2. f[i + 1] = Offered(f[i], s[i + 1], 1)
    BY <1>3, <2>1, Zenon
  <2>3. Started(n, i + 1, none) = Offered(Started(n, i, none), s[i + 1], 1)
    BY <1>1, <2>1, Zenon
  <2> QED BY <1>5, <2>1, <2>2, <2>3, Zenon
<1> HIDE DEF G
<1>6. \A i \in 0 .. n : i \in G
  BY <1>4, <1>5, NatInductionUpTo, Zenon
<1>7. n \in 0 .. n
  OBVIOUS
<1> QED BY <1>6, <1>7, Zenon DEF G

-----------------------------------------------------------------------------
(***************************************************************************)
(* Queues whose requests are their own tokens, as those of OwningQueue and *)
(* VirtIOInput: all of them are in the queue, or all but one, or the first *)
(* i of n have been added.                                                 *)
(***************************************************************************)
Full(q, T, none) ==
  /\ OneInv(q, T, T, none) /\ q.free = <<>>
  /\ \A t \in T : q.request[t] = t

AllBut(q, t, T, none) ==
  /\ OneInv(q, T, T, none) /\ q.free = <<t>> /\ t \in T
  /\ q.request[t] = none /\ \A u \in T : u # t => q.request[u] = u

Adding(q, i, n, none) ==
  /\ OneInv(q, 0 .. n - 1, 0 .. n - 1, none) /\ q.free = Counting(n, i)
  /\ \A t \in 0 .. n - 1 : q.request[t] = IF t < i THEN t ELSE none

\* The token that is popped is free, and is the token that the next add returns.
LEMMA FullPopped ==
  ASSUME NEW T, NEW none, none \notin T, NEW q, Full(q, T, none), q.returned # <<>>,
         NEW t, t = Head(q.returned), NEW p, p = Popped(q, t, none)
  PROVE  AllBut(p, t, T, none) /\ p.returned = Tail(q.returned) /\ t = q.returned[1]
<1>0. OneInv(q, T, T, none) /\ q.free = <<>> /\ \A u \in T : q.request[u] = u
  BY Zenon DEF Full
<1>1. /\ OneInv(p, T, T, none) /\ t \in T /\ t = q.returned[1]
      /\ p.free = <<t>> \o q.free /\ p.request = [q.request EXCEPT ![t] = none]
      /\ p.returned = Tail(q.returned)
  <2>1. AfterPopOne(q, p, t, T, T, none)
    BY <1>0, PoppedOne
  <2> QED BY <2>1, Zenon DEF AfterPopOne
<1>2. p.free = <<t>>
  BY <1>0, <1>1
<1>3. q.request \in [T -> T \cup {none}]
  BY <1>0 DEF OneInv, QueueInv, Queues
<1>4. p.request[t] = none /\ \A u \in T : u # t => p.request[u] = u
  BY <1>0, <1>1, <1>3, Zenon
<1> QED BY <1>1, <1>2, <1>4, Zenon DEF AllBut

LEMMA AllButOffered ==
  ASSUME NEW T, NEW none, none \notin T, NEW q, NEW t, AllBut(q, t, T, none),
         NEW p, p = Offered(q, t, 1) \/ p = Awake(Offered(q, t, 1), TRUE)
  PROVE  Full(p, T, none) /\ p.returned = q.returned /\ Len(q.free) = 1 /\ Head(q.free) = t
<1>0. /\ OneInv(q, T, T, none) /\ q.free = <<t>> /\ t \in T
      /\ q.request[t] = none /\ \A u \in T : u # t => q.request[u] = u
  BY Zenon DEF AllBut
<1>1. q.free # <<>> /\ Head(q.free) = t /\ Tail(q.free) = <<>> /\ Len(q.free) = 1
  BY <1>0
<1>2. /\ OneInv(p, T, T, none) /\ p.free = Tail(q.free)
      /\ p.request = [q.request EXCEPT ![t] = t] /\ p.returned = q.returned
  <2>1. t # none
    BY <1>0
  <2>2. AfterOfferOne(q, p, t, t, T, T, none)
    BY <1>0, <1>1, <2>1, OfferedOne, ZenonT(30)
  <2> QED BY <2>2, Zenon DEF AfterOfferOne
<1>3. q.request \in [T -> T \cup {none}]
  BY <1>0 DEF OneInv, QueueInv, Queues
<1>4. \A u \in T : p.request[u] = u
  BY <1>0, <1>2, <1>3, Zenon
<1> QED BY <1>1, <1>2, <1>4, Zenon DEF Full

LEMMA AddingOffered ==
  ASSUME NEW n \in Nat, NEW none, none \notin 0 .. n - 1, NEW i \in 0 .. n - 1,
         NEW q, Adding(q, i, n, none), NEW p, p = Offered(q, i, 1)
  PROVE  /\ Head(q.free) = i
         /\ i + 1 = n => Full(p, 0 .. n - 1, none)
         /\ i + 1 # n => Adding(p, i + 1, n, none)
<1> DEFINE T == 0 .. n - 1
           s == Counting(n, i)
<1>0. /\ OneInv(q, T, T, none) /\ q.free = s
      /\ \A t \in T : q.request[t] = IF t < i THEN t ELSE none
  BY Zenon DEF Adding
<1>1. /\ s # <<>> /\ Head(s) = i
      /\ Tail(s) = Counting(n, i + 1)
  BY CountingFacts, Zenon
<1>2. Adding(q, i, n, none) /\ i \in T /\ i # none
  OBVIOUS
<1> HIDE DEF T, s
<1>3. /\ OneInv(p, T, T, none) /\ p.free = Tail(q.free) /\ p.request = [q.request EXCEPT ![i] = i]
  <2>1. q.free # <<>> /\ i = Head(q.free)
    BY <1>0, <1>1, Zenon
  <2>2. AfterOfferOne(q, p, i, i, T, T, none)
    BY <1>0, <1>2, <2>1, OfferedOne, ZenonT(30)
  <2> QED BY <2>2, Zenon DEF AfterOfferOne
<1>4. q.request \in [T -> T \cup {none}]
  BY <1>0 DEF OneInv, QueueInv, Queues
<1>5. p.request[i] = i /\ \A t \in T : t # i => p.request[t] = q.request[t]
  BY <1>2, <1>3, <1>4, Zenon
<1>6. \A t \in T : p.request[t] = IF t < i + 1 THEN t ELSE none
  <2> SUFFICES ASSUME NEW t \in T PROVE p.request[t] = IF t < i + 1 THEN t ELSE none
    OBVIOUS
  <2>1. CASE t = i
    BY <2>1, <1>5
  <2>2. CASE t # i
    <3>1. p.request[t] = IF t < i THEN t ELSE none
      BY <2>2, <1>0, <1>5, Zenon
    <3>2. t < i + 1 <=> t < i
      BY <2>2 DEF T
    <3> QED BY <3>1, <3>2
  <2> QED BY <2>1, <2>2, SMTT(30)
<1>7. ASSUME i + 1 = n PROVE Full(p, T, none)
  <2>1. Counting(n, i + 1) = <<>>
    BY <1>7 DEF Counting
  <2>2. p.free = <<>>
    BY <2>1, <1>0, <1>1, <1>3, Zenon
  <2>3. \A t \in T : p.request[t] = t
    BY <1>6, <1>7 DEF T
  <2> QED BY <2>2, <2>3, <1>3, Zenon DEF Full
<1>8. Adding(p, i + 1, n, none)
  BY <1>0, <1>1, <1>3, <1>6, Zenon DEF Adding, T
<1> QED BY <1>0, <1>1, <1>7, <1>8, Zenon DEF T

\* Steps that leave the free list and the requests alone.
LEMMA SameFull ==
  ASSUME NEW T, NEW none, NEW q, NEW p, SameRequests(q, p, T, T, none)
  PROVE  /\ Full(q, T, none) => Full(p, T, none)
         /\ \A t : AllBut(q, t, T, none) => AllBut(p, t, T, none)
BY Zenon DEF SameRequests, Full, AllBut

\* What the constructor of VirtIOInput leaves.
LEMMA StartedFull ==
  ASSUME NEW n \in Nat, NEW none, none \notin 0 .. n - 1,
         NEW p, p = Awake(Started(n, n, none), TRUE)
  PROVE  Full(p, 0 .. n - 1, none) /\ p.returned = <<>>
<1> DEFINE q == Started(n, n, none)
           T == 0 .. n - 1
<1>1. OneInv(q, T, T, none)
  <2>1. n \in 0 .. n
    OBVIOUS
  <2> QED BY <2>1, StartedInv, Zenon
<1>2. /\ q.free = Counting(n, n) /\ q.returned = <<>>
      /\ q.request = [t \in T |-> IF t < n THEN t ELSE none]
  BY Zenon DEF Started
<1>3. Counting(n, n) = <<>>
  BY DEF Counting
<1>4. \A t \in T : q.request[t] = t
  BY <1>2
<1> HIDE DEF q
<1>5. OneInv(p, T, T, none) /\ p.free = q.free /\ p.request = q.request /\ p.returned = q.returned
  <2>1. TRUE \in BOOLEAN /\ p = Awake(q, TRUE)
    BY DEF q
  <2>2. \E awake \in BOOLEAN : p = Awake(q, awake)
    BY <2>1, Zenon
  <2> HIDE DEF T
  <2>3. AfterQuietStep(q, p, T, T, none)
    BY <1>1, <2>2, QuietOne, Zenon
  <2> QED BY <2>3, Zenon DEF AfterQuietStep, SameRequests
<1> QED BY <1>2, <1>3, <1>4, <1>5, Zenon DEF Full

-----------------------------------------------------------------------------
(***************************************************************************)
(* Buffers that hold consecutive numbers modulo m: the buffers of the      *)
(* tokens in ret hold those after saved, and written is the next number.   *)
(***************************************************************************)
LEMMA RemainderOfSum ==
  ASSUME NEW m \in Nat, m > 0, NEW x \in Nat, NEW y \in Nat
  PROVE  ((x % m) + y) % m = (x + y) % m
<1>1. PICK p \in Int, r \in 0 .. m - 1 : x = m * p + r /\ r = x % m
  BY Quotient, Zenon
<1>2. PICK z \in Int : z = m * p
  OBVIOUS
<1>3. x = z + r /\ z % m = 0
  <2>1. (m * p + 0) % m = 0
    <3>1. 0 \in 0 .. m - 1
      OBVIOUS
    <3> QED BY <3>1, Remainder, Zenon
  <2> QED BY <1>1, <1>2, <2>1
<1>4. z \in Nat
  <2>1. p >= 0
    <3> SUFFICES ASSUME p <= -1 PROVE FALSE
      OBVIOUS
    <3>1. m * p <= -m
      OBVIOUS
    <3> QED BY <3>1, <1>1
  <2> QED BY <1>2, <2>1
<1>5. (z + (r + y)) % m = (r + y) % m
  <2>1. r + y \in Nat
    OBVIOUS
  <2> QED BY <1>3, <1>4, <2>1, Multiple, Zenon
<1>6. z + (r + y) = x + y
  BY <1>3
<1> QED BY <1>1, <1>5, <1>6

Numbered(ret, buf, saved, written, T, m) ==
  /\ buf \in [T -> 0 .. m - 1] /\ saved \in 0 .. m - 1
  /\ \A i \in 1 .. Len(ret) : buf[ret[i]] = (saved + i) % m
  /\ written = (saved + Len(ret) + 1) % m

LEMMA NumberedStart ==
  ASSUME NEW m \in Nat, m > 0, NEW T
  PROVE  Numbered(<<>>, [b \in T |-> m - 1], m - 1, 0, T, m)
<1>1. m - 1 \in 0 .. m - 1
  OBVIOUS
<1>2. (m - 1 + 0 + 1) % m = 0
  OBVIOUS
<1>3. Len(<<>>) = 0 /\ \A i \in 1 .. 0 : FALSE
  OBVIOUS
<1>4. [b \in T |-> m - 1] \in [T -> 0 .. m - 1]
  BY <1>1, Zenon
<1> QED BY <1>1, <1>2, <1>3, <1>4, Zenon DEF Numbered

\* The oldest of them is read,
LEMMA NumberedNext ==
  ASSUME NEW m \in Nat, m > 0, NEW T, NEW ret \in Seq(T), ret # <<>>, NEW buf, NEW saved, NEW written,
         Numbered(ret, buf, saved, written, T, m)
  PROVE  Numbered(Tail(ret), buf, buf[ret[1]], written, T, m)
<1> DEFINE n == Len(ret)
           t == Tail(ret)
<1>1. /\ buf \in [T -> 0 .. m - 1] /\ saved \in 0 .. m - 1
      /\ \A i \in 1 .. n : buf[ret[i]] = (saved + i) % m
      /\ written = (saved + n + 1) % m
  BY Zenon DEF Numbered
<1>2. /\ n \in Nat /\ 1 \in 1 .. n /\ Len(t) = n - 1 /\ \A i \in 1 .. n - 1 : t[i] = ret[i + 1]
      /\ ret[1] \in T
  OBVIOUS
<1> HIDE DEF n, t
<1>3. buf[ret[1]] = (saved + 1) % m /\ buf[ret[1]] \in 0 .. m - 1
  BY <1>1, <1>2, SMTT(30)
<1>4. \A i \in Nat : (((saved + 1) % m) + i) % m = (saved + (i + 1)) % m
  <2> TAKE i \in Nat
  <2>1. saved + 1 \in Nat /\ (saved + 1) + i = saved + (i + 1)
    BY <1>1
  <2>2. \A y \in Nat : (((saved + 1) % m) + y) % m = ((saved + 1) + y) % m
    BY <2>1, RemainderOfSum, Zenon
  <2> QED BY <2>1, <2>2, Zenon
<1>5. \A i \in 1 .. n - 1 : buf[t[i]] = (buf[ret[1]] + i) % m
  <2> TAKE i \in 1 .. n - 1
  <2>1. i + 1 \in 1 .. n /\ i \in Nat
    BY <1>2
  <2> QED BY <1>1, <1>2, <1>3, <1>4, <2>1, ZenonT(30)
<1>6. written = (buf[ret[1]] + (n - 1) + 1) % m
  <2>1. n - 1 \in Nat /\ n \in Nat /\ saved + n + 1 = saved + (n + 1)
    BY <1>1, <1>2, SMTT(30)
  <2>2. (((saved + 1) % m) + n) % m = (saved + (n + 1)) % m
    BY <1>4, <2>1
  <2>3. buf[ret[1]] + (n - 1) + 1 = buf[ret[1]] + n
    BY <1>3, <2>1
  <2> QED BY <1>1, <1>3, <2>1, <2>2, <2>3, SMTT(30)
<1>7. Numbered(t, buf, buf[ret[1]], written, T, m)
  BY <1>1, <1>2, <1>3, <1>5, <1>6, Zenon DEF Numbered
<1> QED BY <1>7, Zenon DEF t

\* and the next is written to a buffer that holds none of them.
LEMMA NumberedWrite ==
  ASSUME NEW m \in Nat, m > 0, NEW T, NEW ret \in Seq(T), NEW t \in T, t \notin Range(ret),
         NEW buf, NEW saved, NEW written, Numbered(ret, buf, saved, written, T, m)
  PROVE  Numbered(Append(ret, t), [buf EXCEPT ![t] = written], saved, (written + 1) % m, T, m)
<1> DEFINE n == Len(ret)
           a == Append(ret, t)
           new == [buf EXCEPT ![t] = written]
<1>1. /\ buf \in [T -> 0 .. m - 1] /\ saved \in 0 .. m - 1
      /\ \A i \in 1 .. n : buf[ret[i]] = (saved + i) % m
      /\ written = (saved + n + 1) % m
  BY Zenon DEF Numbered
<1>2. /\ n \in Nat /\ Len(a) = n + 1 /\ a[n + 1] = t /\ \A i \in 1 .. n : a[i] = ret[i]
  BY SMTT(30)
<1>3. \A i \in 1 .. n : ret[i] \in T /\ ret[i] # t
  BY SequenceFacts, SMTT(30)
<1>4. written \in 0 .. m - 1
  <2>1. saved + n + 1 \in Nat
    BY <1>1, <1>2, SMTT(30)
  <2> QED BY <1>1, <2>1, Quotient, SMTT(30)
<1>5. new \in [T -> 0 .. m - 1] /\ new[t] = written /\ \A u \in T : u # t => new[u] = buf[u]
  BY <1>1, <1>4, SMTT(30)
<1> HIDE DEF n, a, new
<1>6. \A i \in 1 .. n + 1 : new[a[i]] = (saved + i) % m
  <2> TAKE i \in 1 .. n + 1
  <2>1. CASE i = n + 1
    <3>1. saved + n + 1 = saved + i
      BY <1>1, <1>2, <2>1, SMTT(30)
    <3> QED BY <1>1, <1>2, <1>5, <2>1, <3>1, SMTT(30)
  <2>2. CASE i \in 1 .. n
    <3>1. a[i] = ret[i] /\ ret[i] \in T /\ ret[i] # t /\ buf[ret[i]] = (saved + i) % m
      BY <1>1, <1>2, <1>3, <2>2, Zenon
    <3> QED BY <3>1, <1>5, Zenon
  <2> QED BY <1>2, <2>1, <2>2, SMTT(30)
<1>7. (written + 1) % m = (saved + (n + 1) + 1) % m
  <2>1. saved + n + 1 \in Nat /\ (saved + n + 1) + 1 = saved + (n + 1) + 1
    BY <1>1, <1>2
  <2>2. \A y \in Nat : (((saved + n + 1) % m) + y) % m = ((saved + n + 1) + y) % m
    BY <2>1, RemainderOfSum, ZenonT(30)
  <2> QED BY <1>1, <2>1, <2>2
<1>8. Numbered(a, new, saved, (written + 1) % m, T, m)
  BY <1>1, <1>2, <1>5, <1>6, <1>7, Zenon DEF Numbered
<1> QED BY <1>8, Zenon DEF a, new

-----------------------------------------------------------------------------
(***************************************************************************)
(* Buffers whose tokens change, as those of VirtIONet: idx says under      *)
(* which token a buffer is, and each is either in the queue, with the      *)
(* client, or dropped.                                                     *)
(***************************************************************************)
Stored(request, idx, client, dropped, T, none) ==
  /\ request \in [T -> T \cup {none}] /\ idx \in [T -> T]
  /\ client \subseteq T /\ dropped \subseteq T /\ client \cap dropped = {}
  /\ \A t \in T : request[t] # none => idx[request[t]] = t
  /\ \A b \in T : (\E t \in T : request[t] = b) <=> b \notin client \cup dropped

\* The buffer of a token leaves the queue,
LEMMA StoredTaken ==
  ASSUME NEW T, NEW none, none \notin T, NEW request, NEW idx, NEW client, NEW dropped,
         Stored(request, idx, client, dropped, T, none), NEW t \in T, request[t] # none,
         NEW c, NEW d, \/ c = client \cup {request[t]} /\ d = dropped
                       \/ c = client /\ d = dropped \cup {request[t]}
  PROVE  Stored([request EXCEPT ![t] = none], idx, c, d, T, none)
<1> DEFINE b == request[t]
           new == [request EXCEPT ![t] = none]
<1>1. /\ request \in [T -> T \cup {none}] /\ idx \in [T -> T]
      /\ client \subseteq T /\ dropped \subseteq T /\ client \cap dropped = {}
      /\ \A u \in T : request[u] # none => idx[request[u]] = u
      /\ \A a \in T : (\E u \in T : request[u] = a) <=> a \notin client \cup dropped
  BY Zenon DEF Stored
<1>2. b \in T /\ b \notin client \cup dropped
  BY <1>1, SMTT(30)
<1>3. new \in [T -> T \cup {none}] /\ new[t] = none /\ \A u \in T : u # t => new[u] = request[u]
  BY <1>1, SMTT(30)
<1>4. \A u \in T : u # t => request[u] # b
  BY <1>1, <1>2, SMTT(30)
<1>5. c \cup d = client \cup dropped \cup {b} /\ c \subseteq T /\ d \subseteq T /\ c \cap d = {}
  BY <1>1, <1>2, SMTT(30)
<1> HIDE DEF b, new
<1>6. \A u \in T : new[u] # none => idx[new[u]] = u
  BY <1>1, <1>3, SMTT(30)
<1>7. \A a \in T : (\E u \in T : new[u] = a) <=> a \notin c \cup d
  <2> TAKE a \in T
  <2>1. CASE a = b
    BY <1>3, <1>4, <1>5, <2>1, SMTT(30)
  <2>2. CASE a # b
    <3>1. (\E u \in T : new[u] = a) <=> (\E u \in T : request[u] = a)
      BY <1>3, <2>2, SMTT(30) DEF b
    <3> QED BY <1>1, <1>5, <2>2, <3>1, Zenon
  <2> QED BY <2>1, <2>2, SMTT(30)
<1> QED BY <1>1, <1>3, <1>5, <1>6, <1>7, Zenon DEF Stored, new

\* and the client puts one back, under the token of the queue's choice.
LEMMA StoredGiven ==
  ASSUME NEW T, NEW none, none \notin T, NEW request, NEW idx, NEW client, NEW dropped,
         Stored(request, idx, client, dropped, T, none), NEW t \in T, request[t] = none,
         NEW b \in client
  PROVE  Stored([request EXCEPT ![t] = b], [idx EXCEPT ![b] = t], client \ {b}, dropped, T, none)
<1> DEFINE new == [request EXCEPT ![t] = b]
           at == [idx EXCEPT ![b] = t]
           c == client \ {b}
<1>1. /\ request \in [T -> T \cup {none}] /\ idx \in [T -> T]
      /\ client \subseteq T /\ dropped \subseteq T /\ client \cap dropped = {}
      /\ \A u \in T : request[u] # none => idx[request[u]] = u
      /\ \A a \in T : (\E u \in T : request[u] = a) <=> a \notin client \cup dropped
  BY Zenon DEF Stored
<1>2. b \in T /\ b # none /\ b \notin dropped /\ \A u \in T : request[u] # b
  BY <1>1
<1>3. new \in [T -> T \cup {none}] /\ new[t] = b /\ \A u \in T : u # t => new[u] = request[u]
  BY <1>1, <1>2, SMTT(30)
<1>4. at \in [T -> T] /\ at[b] = t /\ \A a \in T : a # b => at[a] = idx[a]
  BY <1>1, <1>2
<1>5. c \subseteq T /\ c \cap dropped = {} /\ \A a : a \in c <=> a \in client /\ a # b
  BY <1>1, SMTT(30)
<1> HIDE DEF new, at, c
<1>6. \A u \in T : new[u] # none => at[new[u]] = u
  <2> SUFFICES ASSUME NEW u \in T, new[u] # none PROVE at[new[u]] = u
    OBVIOUS
  <2>1. CASE u = t
    BY <1>3, <1>4, <2>1, SMTT(30)
  <2>2. CASE u # t
    <3>1. new[u] = request[u] /\ request[u] \in T /\ request[u] # b
      BY <1>1, <1>2, <1>3, <2>2, SMTT(30)
    <3> QED BY <1>1, <1>4, <3>1, SMTT(30)
  <2> QED BY <2>1, <2>2, SMTT(30)
<1>7. \A a \in T : (\E u \in T : new[u] = a) <=> a \notin c \cup dropped
  <2> TAKE a \in T
  <2>1. CASE a = b
    BY <1>2, <1>3, <1>5, <2>1, SMTT(30)
  <2>2. CASE a # b
    <3>1. (\E u \in T : new[u] = a) <=> (\E u \in T : request[u] = a)
      BY <1>3, <2>2, SMTT(30)
    <3> QED BY <1>1, <1>5, <2>2, <3>1, Zenon
  <2> QED BY <2>1, <2>2, SMTT(30)
<1> QED BY <1>1, <1>3, <1>4, <1>5, <1>6, <1>7, Zenon DEF Stored, new, at, c

-----------------------------------------------------------------------------
(***************************************************************************)
(* One buffer of a stream of bytes, numbered modulo m, as that of          *)
(* VirtIOConsole: got have been taken, and those between from and to in    *)
(* buf are the next ones, up to written.                                   *)
(***************************************************************************)
Holds(buf, from, to, got, written, m) ==
  /\ buf \in Seq(0 .. m - 1) /\ to \in 0 .. Len(buf) /\ from \in 0 .. to /\ got \in 0 .. m - 1
  /\ \A i \in 1 .. to - from : buf[from + i] = (got + i - 1) % m
  /\ written = (got + (to - from)) % m

\* Either the buffer is not in the queue, or nothing in it is unread.
Receiving(q, rt, buf, cursor, pending, got, written, T, R, none, m) ==
  /\ OneInv(q, T, R, none)
  /\ \/ /\ rt = none /\ q.free # <<>> /\ q.returned = <<>> /\ \A t \in T : q.request[t] = none
        /\ Holds(buf, cursor, pending, got, written, m)
     \/ /\ rt \in T /\ q.request[rt] # none /\ \A t \in T : t # rt => q.request[t] = none
        /\ cursor = pending /\ cursor \in Nat /\ got \in 0 .. m - 1
        /\ \/ q.returned = <<>> /\ written = got
           \/ q.returned = <<rt>> /\ Holds(buf, 0, Len(buf), got, written, m)

LEMMA HoldsNothing ==
  ASSUME NEW m \in Nat, m > 0, NEW buf, NEW c, NEW got, NEW written, Holds(buf, c, c, got, written, m)
  PROVE  written = got
<1>1. c \in Nat /\ got \in 0 .. m - 1 /\ written = (got + (c - c)) % m
  BY DEF Holds
<1>2. got + (c - c) = got
  BY <1>1
<1>3. got % m = got
  BY <1>1
<1> QED BY <1>1, <1>2, <1>3, SMTT(30)

LEMMA HoldsRest ==
  ASSUME NEW m \in Nat, m > 0, NEW buf, NEW c, NEW p, NEW got, NEW written,
         Holds(buf, c, p, got, written, m), NEW n \in Nat, c + n <= p
  PROVE  Holds(buf, c + n, p, (got + n) % m, written, m)
<1>1. /\ buf \in Seq(0 .. m - 1) /\ p \in 0 .. Len(buf) /\ c \in 0 .. p /\ got \in 0 .. m - 1
      /\ \A i \in 1 .. p - c : buf[c + i] = (got + i - 1) % m
      /\ written = (got + (p - c)) % m
  BY Zenon DEF Holds
<1>2. p \in Nat /\ c \in Nat /\ got \in Nat /\ Len(buf) \in Nat /\ got + n \in Nat /\ p - (c + n) \in Nat
  BY <1>1, SMTT(30)
<1>3. \A y \in Nat : (((got + n) % m) + y) % m = ((got + n) + y) % m
  BY <1>2, RemainderOfSum, ZenonT(30)
<1>4. (got + n) % m \in 0 .. m - 1
  BY <1>2, Quotient
<1>5. \A i \in 1 .. p - (c + n) : buf[(c + n) + i] = (((got + n) % m) + i - 1) % m
  <2> TAKE i \in 1 .. p - (c + n)
  <2>1. /\ n + i \in 1 .. p - c /\ c + (n + i) = (c + n) + i /\ i - 1 \in Nat
        /\ got + (n + i) - 1 = (got + n) + (i - 1)
    BY <1>2, SMTT(30)
  <2>2. buf[c + (n + i)] = (got + (n + i) - 1) % m
    BY <1>1, <2>1, ZenonT(30)
  <2>3. ((got + n) % m) + i - 1 = ((got + n) % m) + (i - 1)
    BY <1>4, <2>1
  <2> QED BY <1>3, <2>1, <2>2, <2>3
<1>6. written = (((got + n) % m) + (p - (c + n))) % m
  <2>1. (got + n) + (p - (c + n)) = got + (p - c)
    BY <1>2
  <2> QED BY <1>1, <1>2, <1>3, <2>1, Zenon
<1>7. c + n \in 0 .. p
  BY <1>2, SMTT(30)
<1> QED BY <1>1, <1>4, <1>5, <1>6, <1>7, Zenon DEF Holds

LEMMA HoldsNew ==
  ASSUME NEW m \in Nat, m > 0, NEW got \in 0 .. m - 1, NEW n \in Nat
  PROVE  LET buf == [i \in 1 .. n |-> (got + i - 1) % m]
         IN  Holds(buf, 0, Len(buf), got, (got + n) % m, m)
<1> DEFINE buf == [i \in 1 .. n |-> (got + i - 1) % m]
<1>1. \A i \in 1 .. n : (got + i - 1) % m \in 0 .. m - 1
  <2> TAKE i \in 1 .. n
  <2>1. got + i - 1 \in Nat
    OBVIOUS
  <2> QED BY <2>1, Quotient, SMTT(30)
<1>2. buf \in [1 .. n -> 0 .. m - 1]
  BY <1>1, Zenon
<1>3. \A i \in 1 .. n : buf[i] = (got + i - 1) % m
  BY Zenon
<1> HIDE DEF buf
<1>4. buf \in Seq(0 .. m - 1) /\ Len(buf) = n
  BY <1>2, SMTT(30)
<1>5. n \in 0 .. n /\ 0 \in 0 .. n /\ n - 0 = n /\ \A i \in 1 .. n : 0 + i = i
  OBVIOUS
<1>6. Holds(buf, 0, Len(buf), got, (got + n) % m, m)
  BY <1>3, <1>4, <1>5, Zenon DEF Holds
<1> QED BY <1>6, Zenon DEF buf

LEMMA ReceivingAsks ==
  ASSUME NEW T, NEW R, NEW none, none \notin T, NEW m \in Nat, m > 0, NEW q, NEW buf, NEW c, NEW got,
         NEW written, Receiving(q, none, buf, c, c, got, written, T, R, none, m), NEW r \in R, r # none,
         NEW p, p = Offered(q, r, 1) \/ p = Awake(Offered(q, r, 1), TRUE), NEW h, h = Head(q.free)
  PROVE  Receiving(p, h, buf, c, c, got, written, T, R, none, m)
<1>1. /\ OneInv(q, T, R, none) /\ q.free # <<>> /\ q.returned = <<>>
      /\ Holds(buf, c, c, got, written, m)
      /\ \A t \in T : q.request[t] = none
  BY Zenon DEF Receiving
<1>2. /\ OneInv(p, T, R, none) /\ h \in T /\ p.request = [q.request EXCEPT ![h] = r]
      /\ p.returned = q.returned
  <2>1. AfterOfferOne(q, p, h, r, T, R, none)
    BY <1>1, OfferedOne, Zenon
  <2> QED BY <2>1, Zenon DEF AfterOfferOne
<1>3. q.request \in [T -> R \cup {none}]
  BY <1>1 DEF OneInv, QueueInv, Queues
<1>4. p.request[h] = r /\ \A t \in T : t # h => p.request[t] = none
  BY <1>1, <1>2, <1>3, Zenon
<1>5. written = got
  BY <1>1, HoldsNothing, SMTT(30)
<1>6. got \in 0 .. m - 1 /\ c \in Nat
  BY <1>1, SMTT(30) DEF Holds
<1> QED BY <1>1, <1>2, <1>4, <1>5, <1>6, Zenon DEF Receiving

LEMMA ReceivingFinishes ==
  ASSUME NEW T, NEW R, NEW none, none \notin T, NEW m \in Nat, m > 0, NEW q, NEW rt, NEW buf, NEW c,
         NEW d, NEW got, NEW written, Receiving(q, rt, buf, c, d, got, written, T, R, none, m),
         q.returned # <<>>, rt = Head(q.returned), NEW p, p = Popped(q, rt, none)
  PROVE  Receiving(p, none, buf, 0, Len(buf), got, written, T, R, none, m)
<1>1. /\ OneInv(q, T, R, none) /\ rt \in T /\ \A t \in T : t # rt => q.request[t] = none
      /\ q.returned = <<rt>> /\ Holds(buf, 0, Len(buf), got, written, m)
  BY Zenon DEF Receiving
<1>2. /\ OneInv(p, T, R, none) /\ p.free = <<rt>> \o q.free /\ p.returned = Tail(q.returned)
      /\ p.request = [q.request EXCEPT ![rt] = none]
  <2>1. AfterPopOne(q, p, rt, T, R, none)
    BY <1>1, PoppedOne, ZenonT(30)
  <2> QED BY <2>1, Zenon DEF AfterPopOne
<1>3. q.request \in [T -> R \cup {none}] /\ q.free \in Seq(T)
  BY <1>1 DEF OneInv, QueueInv, Queues
<1>4. \A t \in T : p.request[t] = none
  BY <1>1, <1>2, <1>3, Zenon
<1>5. p.returned = <<>>
  <2>1. Tail(<<rt>>) = <<>>
    OBVIOUS
  <2> QED BY <1>1, <1>2, <2>1, Zenon
<1>6. p.free # <<>>
  <2>1. <<rt>> \in Seq(T)
    BY <1>1, SMTT(30)
  <2>2. Len(<<rt>> \o q.free) = Len(<<rt>>) + Len(q.free)
    BY <2>1, <1>3, SMTT(30)
  <2>3. Len(<<rt>>) = 1 /\ Len(q.free) \in Nat
    BY <1>3, SMTT(30)
  <2> QED BY <1>2, <2>2, <2>3
<1> QED BY <1>1, <1>2, <1>4, <1>5, <1>6, Zenon DEF Receiving

LEMMA ReceivingTakes ==
  ASSUME NEW T, NEW R, NEW none, none \notin T, NEW m \in Nat, m > 0, NEW q, NEW rt, NEW buf, NEW c,
         NEW d, NEW got, NEW written, Receiving(q, rt, buf, c, d, got, written, T, R, none, m), c # d,
         NEW n \in Nat, c + n <= d
  PROVE  Receiving(q, rt, buf, c + n, d, (got + n) % m, written, T, R, none, m)
<1>1. /\ OneInv(q, T, R, none) /\ rt = none /\ q.free # <<>> /\ q.returned = <<>>
      /\ \A t \in T : q.request[t] = none
  BY Zenon DEF Receiving
<1>2. Holds(buf, c, d, got, written, m)
  BY <1>1, Zenon DEF Receiving
<1>3. Holds(buf, c + n, d, (got + n) % m, written, m)
  BY <1>2, HoldsRest, SMTT(30)
<1> QED BY <1>1, <1>3, Zenon DEF Receiving

LEMMA ReceivingUsed ==
  ASSUME NEW T, NEW R, NEW none, none \notin T, NEW m \in Nat, m > 0, NEW q, NEW rt, NEW buf, NEW c,
         NEW d, NEW got, NEW written, Receiving(q, rt, buf, c, d, got, written, T, R, none, m),
         NEW t \in q.held, NEW p, p = GivenBack(q, t), NEW n \in Nat
  PROVE  Receiving(p, rt, [i \in 1 .. n |-> (written + i - 1) % m], c, d, got, (written + n) % m,
                   T, R, none, m)
<1>1. OneInv(q, T, R, none)
  BY Zenon DEF Receiving
<1>2. /\ OneInv(p, T, R, none) /\ p.request = q.request /\ t \in T /\ q.request[t] # none
      /\ t \notin Range(q.returned) /\ p.returned = Append(q.returned, t)
  <2>1. AfterGiveOne(q, p, t, T, R, none)
    BY <1>1, GivenOne, SMTT(30)
  <2> QED BY <2>1, Zenon DEF AfterGiveOne, SameRequests
<1>3. /\ rt \in T /\ q.request[rt] # none /\ \A u \in T : u # rt => q.request[u] = none
      /\ c = d /\ c \in Nat /\ got \in 0 .. m - 1 /\ t = rt
      /\ q.returned = <<rt>> \/ (q.returned = <<>> /\ written = got)
  BY <1>2, Zenon DEF Receiving
<1>4. q.returned = <<>> /\ written = got
  <2>1. rt \in Range(<<rt>>)
    BY SMTT(30) DEF Range
  <2> QED BY <1>2, <1>3, <2>1, SMTT(30)
<1>5. p.returned = <<rt>>
  <2>1. Append(<<>>, rt) = <<rt>>
    OBVIOUS
  <2> QED BY <1>2, <1>3, <1>4, <2>1, Zenon
<1>6. LET b == [i \in 1 .. n |-> (written + i - 1) % m]
      IN  Holds(b, 0, Len(b), got, (written + n) % m, m)
  BY <1>3, <1>4, HoldsNew, Zenon
<1> QED BY <1>2, <1>3, <1>5, <1>6, Zenon DEF Receiving

LEMMA ReceivingQuiet ==
  ASSUME NEW T, NEW R, NEW none, NEW m, NEW q, NEW rt, NEW buf, NEW c,
         NEW d, NEW got, NEW written, Receiving(q, rt, buf, c, d, got, written, T, R, none, m),
         NEW p, AfterQuietStep(q, p, T, R, none)
  PROVE  Receiving(p, rt, buf, c, d, got, written, T, R, none, m)
  BY Zenon DEF Receiving, AfterQuietStep, SameRequests
=============================================================================
