--------------------------- MODULE VirtQueueProofs --------------------------
(***************************************************************************)
(* The steps of pop_used preserve the inductive invariant of VirtQueue; the*)
(* theorems that follow from it; and what notifications, interrupts,       *)
(* shared buffers and the shared table keep on top of it.                  *)
(***************************************************************************)
EXTENDS VirtQueueInvariant

-----------------------------------------------------------------------------
(* A chain goes back to the free list *)

\* A chain and the free list fit in the descriptor table: they share no
\* descriptor and repeat none.
LEMMA Pigeonhole ==
  ASSUME NEW s \in Seq(Desc), NEW t \in Seq(Desc),
         IsInjective(s), IsInjective(t), Range(s) \cap Range(t) = {}
  PROVE  Len(s) + Len(t) <= SIZE
<1> DEFINE u == s \o t
<1>1. u \in Seq(Desc) /\ Len(u) = Len(s) + Len(t) /\ IsInjective(u) /\ Len(u) \in Nat
  BY ConcatFacts
<1> HIDE DEF u
<1>2. \A i \in 1 .. Len(u) : u[i] \in 0 .. SIZE - 1
  <2>1. \A i \in 1 .. Len(u) : u[i] \in Desc
    BY <1>1
  <2> QED BY <2>1 DEF Desc
<1>3. \A i, j \in 1 .. Len(u) : u[i] = u[j] => i = j
  <2>1. DOMAIN u = 1 .. Len(u)
    BY <1>1
  <2> QED BY <1>1, <2>1, Zenon DEF IsInjective
<1>4. SIZE \in Nat
  BY SizeAssumption
<1>5. Len(u) <= SIZE
  BY <1>1, <1>2, <1>3, <1>4, DifferentPlaces, Zenon
<1> QED BY <1>1, <1>5

\* The free list and the chains stay disjoint when a chain is put in front of
\* the free list.
LEMMA MoveToFree ==
  ASSUME NEW f \in Seq(Desc), NEW c \in [Desc -> Seq(Desc)], NEW hd \in Desc,
         Accounted(f, c)
  PROVE  Accounted(c[hd] \o f, [c EXCEPT ![hd] = <<>>])
<1> DEFINE f2 == c[hd] \o f
           c2 == [c EXCEPT ![hd] = <<>>]
<1>1. c[hd] \in Seq(Desc) /\ IsInjective(c[hd]) /\ Range(c[hd]) \cap Range(f) = {} /\ IsInjective(f)
  BY DEF Accounted
<1>2. Range(f2) = Range(c[hd]) \cup Range(f) /\ IsInjective(f2)
  BY <1>1, ConcatFacts
<1>3. c2[hd] = <<>> /\ \A h \in Desc : h # hd => c2[h] = c[h]
  OBVIOUS
<1>4. Range(<<>>) = {} /\ IsInjective(<<>>)
  BY DEF Range, IsInjective
<1> HIDE DEF f2, c2
<1>5. \A h \in Desc : IsInjective(c2[h])
  BY <1>3, <1>4, Zenon DEF Accounted
<1>6. \A h \in Desc : Range(f2) \cap Range(c2[h]) = {}
  BY <1>2, <1>3, <1>4 DEF Accounted
<1>7. \A h, g \in Desc : h # g => Range(c2[h]) \cap Range(c2[g]) = {}
  BY <1>3, <1>4, ZenonT(30) DEF Accounted
<1>8. \A d \in Desc : d \in Range(f2) \/ \E h \in Desc : d \in Range(c2[h])
  BY <1>2, <1>3, <1>4, Zenon DEF Accounted
<1>9. Accounted(f2, c2)
  BY <1>2, <1>5, <1>6, <1>7, <1>8, Zenon DEF Accounted
<1> QED BY <1>9 DEF f2, c2

LEMMA PopBeginInv == ASSUME IInv, NEW t \in Desc, PopBegin(t) PROVE IInv'
<1>1. /\ pc = "idle" /\ pc' \in {"recycle", "recycle_indirect"} /\ k = 0 /\ k' = 0
      /\ outstanding[t] # None /\ outstanding[t] \in Requests
      /\ head' = t /\ cur' = outstanding[t] /\ next' = t
      /\ free_head' = t /\ original_free_head' = free_head
      /\ UNCHANGED <<num_used, desc_shadow, indirect_lists, outstanding, free, chain>>
  BY DEF IInv, TypeOK, PopBegin, Goto, history
<1>2. TypeOK'
  BY <1>1, SMTT(30) DEF IInv, TypeOK, PopBegin, Goto, history
<1>3. DescriptorsAccounted' /\ FreeListLinked'
  BY <1>1 DEF IInv, DescriptorsAccounted, FreeListLinked
<1>4. ChainOf(t, outstanding[t])
  BY <1>1 DEF IInv, ChainInv
<1>5. /\ pc' = "recycle_indirect" <=> UsesList(outstanding[t])
      /\ pc' = "recycle" => DirectChain(t, outstanding[t])
  <2>1. pc' = IF "INDIRECT" \in desc_shadow[t].flags THEN "recycle_indirect" ELSE "recycle"
    BY DEF PopBegin, Goto
  <2>2. CASE DirectChain(t, outstanding[t])
    <3>1. 1 \in 1 .. N(outstanding[t]) /\ chain[t][1] = t
      BY <2>2 DEF DirectChain
    <3> QED BY <2>1, <2>2, <3>1, SMTT(30) DEF DirectChain
  <2>3. CASE ListChain(t, outstanding[t])
    BY <2>1, <2>3, SMTT(30) DEF ListChain
  <2> QED BY <2>2, <2>3, <1>4, SMTT(30) DEF ChainOf
<1>6. ChainInv'
  BY <1>1, SameChains
<1>7. RecycleInv'
  <2>1. pc' = "recycle" => 0 < N(outstanding[t]) /\ chain[t][1] = t
    BY <1>5 DEF DirectChain
  <2>2. pc' = "recycle" => ~UsesList(outstanding[t]) /\ N(outstanding[t]) \in Nat
    BY <1>5, BufsFacts, <1>1 DEF DirectChain, N
  <2>3. (UsesList(cur)' <=> UsesList(outstanding[t])) /\ N(cur)' = N(outstanding[t])
    BY <1>1 DEF UsesList, N, Bufs
  <2>4. cur' \in Requests /\ outstanding'[head'] = cur' /\ free_head' = head'
    BY <1>1
  <2>5. (pc' = "recycle_indirect" => UsesList(cur)') /\ (pc' = "recycle" => ~UsesList(cur)')
    BY <1>5, <2>2, <2>3, Zenon
  <2>6. pc' = "recycle" => k' = 0 /\ N(cur)' \in Nat /\ N(cur)' > 0 /\ next' = chain'[head'][1]
    BY <1>1, <2>1, <2>2, <2>3
  <2> QED BY <2>4, <2>5, <2>6 DEF RecycleInv
<1>8. AddInv'
  BY <1>1 DEF AddInv
<1> QED BY <1>1, <1>2, <1>3, <1>6, <1>7, <1>8 DEF IInv, NoPanic

\* A chain and the free list have nothing in common, nor have two chains.
LEMMA InUse ==
  ASSUME IInv, NEW h \in Desc
  PROVE  /\ chain[h] \in Seq(Desc) /\ free \in Seq(Desc)
         /\ Len(chain[h]) \in Nat /\ Len(free) \in Nat
         /\ Len(chain[h]) + Len(free) <= SIZE
         /\ \A i \in 1 .. Len(chain[h]) : chain[h][i] \in Desc /\ chain[h][i] \notin Range(free)
         /\ \A i, j \in 1 .. Len(chain[h]) : chain[h][i] = chain[h][j] => i = j
         /\ \A g \in Desc : g # h =>
              \A i \in 1 .. Len(chain[h]), j \in 1 .. Len(chain[g]) : chain[h][i] # chain[g][j]
<1>1. /\ chain[h] \in Seq(Desc) /\ free \in Seq(Desc)
      /\ Len(chain[h]) \in Nat /\ Len(free) \in Nat
  BY DEF IInv, TypeOK
<1>2. /\ IsInjective(chain[h]) /\ IsInjective(free)
      /\ Range(free) \cap Range(chain[h]) = {} /\ Range(chain[h]) \cap Range(free) = {}
      /\ \A g \in Desc : g # h => Range(chain[h]) \cap Range(chain[g]) = {}
  BY Zenon DEF IInv, DescriptorsAccounted, Accounted
<1>3. Len(chain[h]) + Len(free) <= SIZE
  BY <1>1, <1>2, Pigeonhole
<1>4. \A i \in 1 .. Len(chain[h]) : chain[h][i] \in Desc /\ chain[h][i] \in Range(chain[h])
  BY <1>1, SeqFacts
<1>5. \A i, j \in 1 .. Len(chain[h]) : chain[h][i] = chain[h][j] => i = j
  BY <1>1, <1>2, SeqFacts DEF IsInjective
<1>6. \A g \in Desc : \A j \in 1 .. Len(chain[g]) : chain[g][j] \in Range(chain[g])
  <2> TAKE g \in Desc
  <2>1. chain[g] \in Seq(Desc)
    BY DEF IInv, TypeOK
  <2> QED BY <2>1, SeqFacts
<1>7. \A g \in Desc : g # h =>
        \A i \in 1 .. Len(chain[h]), j \in 1 .. Len(chain[g]) : chain[h][i] # chain[g][j]
  <2> SUFFICES ASSUME NEW g \in Desc, g # h, NEW i \in 1 .. Len(chain[h]),
                      NEW j \in 1 .. Len(chain[g]), chain[h][i] = chain[g][j]
               PROVE  FALSE
    OBVIOUS
  <2> QED BY <1>2, <1>4, <1>6
<1>8. \A i \in 1 .. Len(chain[h]) : chain[h][i] \notin Range(free)
  BY <1>2, <1>4
<1> QED BY <1>1, <1>3, <1>4, <1>5, <1>7, <1>8, ZenonT(40)

\* What the loop of recycle_descriptors knows about the chain it walks.
LEMMA Walking ==
  ASSUME IInv, pc = "recycle"
  PROVE  /\ cur \in Requests /\ outstanding[head] = cur /\ cur # None /\ head \in Desc
         /\ N(cur) \in 1 .. SIZE /\ k \in Nat /\ k <= N(cur)
         /\ free_head = head
         /\ DirectChain(head, cur)
         /\ num_used \in Nat /\ num_used + k + Len(free) = SIZE
         /\ num_used >= N(cur) - k
<1>1. /\ cur \in Requests /\ outstanding[head] = cur /\ head \in Desc /\ free_head = head
      /\ ~UsesList(cur) /\ k \in Nat /\ k <= N(cur)
  BY DEF IInv, RecycleInv, TypeOK
<1>2. cur # None
  BY <1>1, ConstantAssumption
<1>3. ChainOf(head, outstanding[head])
  BY <1>1, <1>2 DEF IInv, ChainInv
<1>4. DirectChain(head, cur)
  BY <1>1, <1>3 DEF ChainOf, ListChain
<1>5. Len(chain[head]) = N(cur) /\ N(cur) \in 1 .. SIZE
  BY <1>4 DEF DirectChain
<1>6. num_used \in Nat /\ num_used + k + Len(free) = SIZE
  BY DEF IInv, TypeOK, DescriptorsAccounted
<1>7. N(cur) + Len(free) <= SIZE /\ Len(free) \in Nat
  BY <1>1, <1>5, InUse, Zenon
<1>8. num_used >= N(cur) - k
  BY <1>1, <1>5, <1>6, <1>7, SizeAssumption
<1> QED BY <1>1, <1>2, <1>4, <1>5, <1>6, <1>8, SMTT(30), SMTT(60)

LEMMA RecycleStepInv == ASSUME IInv, Recycle PROVE IInv'
<1> DEFINE d == UnsetBuf(desc_shadow[next])
           e == IF DescNext(d) = None THEN Relink(d) ELSE d
<1>1. pc = "recycle" /\ k < N(cur)
  BY DEF Recycle, N
<1>2. /\ next = chain[head][k + 1] /\ next \in Desc /\ next # None
      /\ k + 1 \in 1 .. N(cur) /\ Len(chain[head]) = N(cur)
  <2>1. k + 1 \in 1 .. N(cur) /\ Len(chain[head]) = N(cur) /\ next = chain[head][k + 1]
    BY <1>1, Walking, SMTT(30), SMTT(60) DEF IInv, RecycleInv, DirectChain
  <2> QED BY <2>1, <1>1, Walking, InUse, ConstantAssumption, SMTT(30), SMTT(60)
<1>3. /\ pc' = "recycle" /\ k' = k + 1 /\ num_used' = num_used - 1 /\ next' = DescNext(d)
      /\ desc_shadow' = [desc_shadow EXCEPT ![next] = e]
      /\ desc' = [desc EXCEPT ![next] = e]
      /\ shared' = shared \ {desc_shadow[next].addr}
      /\ UNCHANGED <<free_head, indirect_lists, cur, head, original_free_head, outstanding,
                     free, chain>>
      /\ UNCHANGED <<avail_idx, last_used_idx, avail, used, last, enabled, device, notified,
                     interrupt>>
  BY <1>1, <1>2, SMTT(30) DEF Recycle, history
<1>4. /\ "INDIRECT" \notin desc_shadow[next].flags
      /\ "NEXT" \in desc_shadow[next].flags <=> k + 1 < N(cur)
      /\ k + 1 < N(cur) => desc_shadow[next].next = chain[head][(k + 1) + 1]
  BY <1>1, <1>2, Walking, Zenon DEF DirectChain
<1>5. desc_shadow[next] \in Descriptor /\ original_free_head \in Desc
  BY <1>2 DEF IInv, TypeOK
<1>6. /\ d \in Descriptor /\ d.flags = desc_shadow[next].flags /\ d.next = desc_shadow[next].next
      /\ Relink(d) \in Descriptor /\ Relink(d).flags = d.flags
      /\ Relink(d).next = original_free_head
  BY <1>5, Zenon DEF Descriptor, UnsetBuf, Relink
<1> HIDE DEF d
<1>7. /\ DescNext(d) = IF k + 1 < N(cur) THEN chain[head][(k + 1) + 1] ELSE None
      /\ DescNext(d) = None <=> ~(k + 1 < N(cur))
  <2>1. d.next # None
    BY <1>6, ConstantAssumption DEF Descriptor
  <2> QED BY <2>1, <1>4, <1>6 DEF DescNext
<1>8. /\ e \in Descriptor /\ e.flags = desc_shadow[next].flags
      /\ k + 1 < N(cur) => e.next = desc_shadow[next].next
      /\ ~(k + 1 < N(cur)) => e.next = original_free_head
  BY <1>6, <1>7, SMTT(30)
<1> HIDE DEF e
<1>9. /\ desc_shadow'[next] = e
      /\ \A x \in Desc : x # next => desc_shadow'[x] = desc_shadow[x]
  BY <1>2, <1>3, SMTT(30) DEF IInv, TypeOK
<1>10. TypeOK'
  <2>1. num_used' \in 0 .. SIZE /\ k' \in 0 .. SIZE
    BY <1>1, <1>3, Walking, InUse, SizeAssumption, SMTT(30)
  <2>2. desc_shadow' \in [Desc -> Descriptor] /\ desc' \in [Desc -> Descriptor]
    BY <1>2, <1>3, <1>8, Zenon DEF IInv, TypeOK
  <2>3. next' \in Desc \cup {None}
    BY <1>3, <1>6 DEF DescNext, Descriptor
  <2>4. shared' \subseteq Buffers
    BY <1>3 DEF IInv, TypeOK
  <2> QED BY <1>1, <1>3, <2>1, <2>2, <2>3, <2>4, Zenon DEF IInv, TypeOK
<1>11. DescriptorsAccounted'
  <2>1. (Accounted(free, chain))'
    BY <1>3, Zenon DEF IInv, DescriptorsAccounted, Accounted
  <2>2. (num_used - 1) + (k + 1) + Len(free) = SIZE
    BY <1>1, Walking, InUse, SizeAssumption, SMTT(30)
  <2> QED BY <2>1, <2>2, <1>3 DEF DescriptorsAccounted
<1>12. FreeListLinked'
  <2>1. \A i \in 1 .. Len(free) : free[i] \in Desc /\ free[i] # next
    <3>1. next \notin Range(free) /\ free \in Seq(Desc)
      BY <1>1, <1>2, Walking, InUse, Zenon
    <3> QED BY <3>1, SeqFacts, SMTT(30)
  <2>2. Len(free) \in Nat /\ \A i \in 1 .. Len(free) - 1 : i \in 1 .. Len(free)
    BY <1>1, Walking, InUse, SMTT(30)
  <2> QED BY <2>1, <2>2, <1>1, <1>3, <1>9 DEF IInv, FreeListLinked
<1>13. DirectChain(head, cur)'
  <2>1. ASSUME NEW i \in 1 .. N(cur)
        PROVE  LET x == desc_shadow'[chain[head][i]]
               IN  /\ "INDIRECT" \notin x.flags
                   /\ "NEXT" \in x.flags <=> i < N(cur)
                   /\ i < N(cur) => x.next = chain[head][i + 1]
                   /\ i > k' => x.addr = Bufs(cur)[i]
    <3>1. /\ "INDIRECT" \notin desc_shadow[chain[head][i]].flags
          /\ "NEXT" \in desc_shadow[chain[head][i]].flags <=> i < N(cur)
          /\ i < N(cur) => desc_shadow[chain[head][i]].next = chain[head][i + 1]
          /\ i > k => desc_shadow[chain[head][i]].addr = Bufs(cur)[i]
      BY <1>1, Walking, Zenon DEF DirectChain
    <3>2. CASE i = k + 1
      BY <3>1, <3>2, <1>2, <1>3, <1>8, <1>9, SMTT(30)
    <3>3. CASE i # k + 1
      <4>1. chain[head][i] \in Desc /\ chain[head][i] # next
        BY <3>3, <1>1, <1>2, Walking, InUse, Zenon
      <4>2. desc_shadow'[chain[head][i]] = desc_shadow[chain[head][i]]
        BY <4>1, <1>9
      <4>3. i > k' => i > k
        BY <1>1, <1>3, Walking, SMTT(30)
      <4> QED BY <4>2, <4>3, <3>1, Zenon
    <3> QED BY <3>2, <3>3, SMTT(30)
  <2>2. /\ ~UsesList(cur) /\ N(cur) \in 1 .. SIZE /\ indirect_lists[head] = None
        /\ Len(chain[head]) = N(cur) /\ chain[head][1] = head
    BY <1>1, Walking, SMTT(30) DEF DirectChain
  <2> QED BY <2>1, <2>2, <1>3, Zenon DEF DirectChain
<1>14. ChainInv'
  <2> SUFFICES ASSUME NEW h \in Desc
               PROVE  /\ outstanding'[h] # None => ChainOf(h, outstanding[h])'
                      /\ outstanding'[h] = None => indirect_lists'[h] = None /\ chain'[h] = <<>>
    BY <1>3 DEF ChainInv, Adding
  <2>1. outstanding[h] = None => indirect_lists[h] = None /\ chain[h] = <<>>
    BY <1>1, Zenon DEF IInv, ChainInv, Adding
  <2>2. ASSUME h = head PROVE ChainOf(h, outstanding[h])'
    <3>1. outstanding'[h] = cur' /\ DirectChain(h, cur)'
      BY <2>2, <1>1, <1>3, <1>13, Walking, Zenon
    <3> QED BY <3>1 DEF ChainOf, DirectChain
  <2>3. ASSUME outstanding[h] # None, h # head PROVE ChainOf(h, outstanding[h])'
    <3>1. ChainOf(h, outstanding[h]) /\ outstanding[h] \in Requests
      BY <2>3 DEF IInv, ChainInv, TypeOK
    <3>2. TypeOK /\ indirect_lists'[h] = indirect_lists[h] /\ chain'[h] = chain[h]
      BY <1>3, Zenon DEF IInv
    <3>3. \A i \in 1 .. Len(chain[h]) : desc_shadow'[chain[h][i]] = desc_shadow[chain[h][i]]
      <4> TAKE i \in 1 .. Len(chain[h])
      <4>1. chain[h][i] \in Desc /\ chain[h][i] # chain[head][k + 1]
        BY <2>3, <1>1, <1>2, Walking, InUse, Zenon
      <4> QED BY <4>1, <1>2, <1>9, SMTT(30), SMTT(60)
    <3>4. outstanding'[h] = outstanding[h]
      BY <1>3
    <3> QED BY <3>1, <2>3, <3>2, <3>3, <3>4, TokenFrame, Zenon
  <2> QED BY <2>1, <2>2, <2>3, <1>3, SMTT(30)
<1>15. RecycleInv'
  <2>1. /\ cur \in Requests /\ outstanding[head] = cur /\ free_head = head /\ ~UsesList(cur)
        /\ k + 1 <= N(cur)
    BY <1>1, Walking, SMTT(30), SMTT(60) DEF DirectChain
  <2>2. k + 1 = N(cur) => desc_shadow'[chain[head][k + 1]].next = original_free_head
    BY <1>2, <1>8, <1>9, SMTT(30)
  <2> QED BY <2>1, <2>2, <1>3, <1>7, Zenon DEF RecycleInv
<1>16. AddInv' /\ NoPanic' /\ indirect_lists' \in [Desc -> Seq(Entry) \cup {None}]
  BY <1>3, ZenonT(30) DEF AddInv, NoPanic, IInv
<1> QED BY <1>3, <1>10, <1>11, <1>12, <1>14, <1>15, <1>16 DEF IInv

\* The recycled chain, whose last descriptor is linked to the old free list,
\* becomes the front of the free list.
LEMMA PutBack ==
  ASSUME IInv, pc \in {"recycle", "recycle_indirect"}, pc' = "idle",
         head \in Desc, free_head = head, free_head' = head,
         free' = chain[head] \o free,
         Len(chain[head]) > 0, chain[head][1] = head,
         \A i \in 1 .. Len(chain[head]) - 1 :
           desc_shadow'[chain[head][i]].next = chain[head][i + 1],
         desc_shadow'[chain[head][Len(chain[head])]].next = original_free_head,
         \A x \in Desc : x \in Range(free) => desc_shadow'[x] = desc_shadow[x]
  PROVE  /\ free' \in Seq(Desc) /\ Len(free') = Len(chain[head]) + Len(free)
         /\ FreeListLinked'
<1> DEFINE c == chain[head]
           m == Len(c)
           n == Len(free)
<1>1. c \in Seq(Desc) /\ free \in Seq(Desc) /\ m \in Nat /\ n \in Nat /\ m > 0
  BY InUse, SMTT(30)
<1>2. /\ free' \in Seq(Desc) /\ Len(free') = m + n
      /\ \A i \in 1 .. m : free'[i] = c[i]
      /\ \A i \in 1 .. n : free'[m + i] = free[i]
  BY <1>1, ConcatFacts, SMTT(30)
<1>3. /\ \A i \in 1 .. m - 1 : desc_shadow'[c[i]].next = c[i + 1]
      /\ desc_shadow'[c[m]].next = original_free_head
      /\ c[1] = head
  OBVIOUS
<1>4. /\ \A i \in 1 .. n - 1 : desc_shadow'[free[i]].next = free[i + 1]
      /\ n > 0 => free[1] = original_free_head
  <2>1. \A i \in 1 .. n : desc_shadow'[free[i]] = desc_shadow[free[i]]
    BY <1>1, SeqFacts, SMTT(30)
  <2>2. \A i \in 1 .. n - 1 : i \in 1 .. n /\ desc_shadow[free[i]].next = free[i + 1]
    BY <1>1, SMTT(30) DEF IInv, FreeListLinked
  <2>3. n > 0 => free[1] = original_free_head
    BY DEF IInv, FreeListLinked, NoPanic
  <2> QED BY <2>1, <2>2, <2>3, ZenonT(30)
<1> HIDE DEF c, m, n
<1>5. ASSUME NEW i \in 1 .. Len(free') - 1 PROVE desc_shadow'[free'[i]].next = free'[i + 1]
  <2>1. i \in Nat /\ i >= 1 /\ i <= m + n - 1
    BY <1>1, <1>2
  <2>2. CASE i < m
    <3>1. i \in 1 .. m - 1 /\ i \in 1 .. m /\ i + 1 \in 1 .. m
      BY <2>2, <1>1
    <3> QED BY <3>1, <1>2, <1>3, Zenon
  <2>3. CASE i = m
    <3>1. n > 0 /\ 1 \in 1 .. n /\ m \in 1 .. m
      BY <2>3, <1>1, <1>2, SMTT(30)
    <3> QED BY <2>3, <3>1, <1>2, <1>3, <1>4, Zenon
  <2>4. CASE i > m
    <3>1. /\ i - m \in 1 .. n - 1 /\ i - m \in 1 .. n /\ (i - m) + 1 \in 1 .. n
          /\ i = m + (i - m) /\ i + 1 = m + ((i - m) + 1)
      BY <2>1, <2>4, <1>1, SMTT(30)
    <3>2. free'[i] = free[i - m] /\ free'[i + 1] = free[(i - m) + 1]
      BY <3>1, <1>2, Zenon
    <3> QED BY <3>1, <3>2, <1>4, SMTT(30)
  <2>5. i < m \/ i = m \/ i > m
    BY <2>1, <1>1, SMTT(30)
  <2> QED BY <2>2, <2>3, <2>4, <2>5, Zenon
<1>6. free'[1] = free_head'
  <2>1. 1 \in 1 .. m
    BY <1>1
  <2> QED BY <2>1, <1>2, <1>3, SMTT(30)
<1> QED BY <1>2, <1>5, <1>6, Zenon DEF FreeListLinked, c, m, n

\* What the end of pop_used does to the state that IInv is about, once the
\* chain's links are in place.
LEMMA PopEndInv ==
  ASSUME IInv, pc \in {"recycle", "recycle_indirect"}, PopEnd, TypeOK',
         FreeListLinked', Len(free') = Len(chain[head]) + Len(free),
         num_used' + Len(chain[head]) + Len(free) = SIZE,
         outstanding[head] # None,
         indirect_lists' \in [Desc -> Seq(Entry) \cup {None}],
         indirect_lists'[head] = None,
         \A h \in Desc : h # head => indirect_lists'[h] = indirect_lists[h],
         \A h \in Desc : h # head =>
           \A i \in 1 .. Len(chain[h]) : desc_shadow'[chain[h][i]] = desc_shadow[chain[h][i]]
  PROVE  IInv'
<1>1. /\ pc' = "idle" /\ k' = 0 /\ head \in Desc
      /\ free' = chain[head] \o free
      /\ chain' = [chain EXCEPT ![head] = <<>>]
      /\ outstanding' = [outstanding EXCEPT ![head] = None]
  BY Zenon DEF PopEnd, Return, IInv, TypeOK
<1>2. /\ chain'[head] = <<>> /\ outstanding'[head] = None
      /\ \A h \in Desc : h # head => chain'[h] = chain[h] /\ outstanding'[h] = outstanding[h]
  BY <1>1, SMTT(30) DEF IInv, TypeOK
<1>3. DescriptorsAccounted'
  <2>1. Accounted(free', chain')
    <3>1. free \in Seq(Desc) /\ chain \in [Desc -> Seq(Desc)] /\ Accounted(free, chain)
      BY DEF IInv, TypeOK, DescriptorsAccounted
    <3> QED BY <3>1, <1>1, MoveToFree, Zenon
  <2>2. (Accounted(free, chain))'
    BY <2>1, ZenonT(30) DEF Accounted
  <2>3. num_used' + k' + Len(free') = SIZE
    <3>1. num_used' \in Nat /\ Len(chain[head]) \in Nat /\ Len(free) \in Nat
      BY <1>1, InUse, SMTT(30) DEF TypeOK
    <3> QED BY <3>1, <1>1, SMTT(30), SMTT(60)
  <2> QED BY <2>2, <2>3, ZenonT(30) DEF DescriptorsAccounted
<1>4. ChainInv'
  <2> SUFFICES ASSUME NEW h \in Desc
               PROVE  /\ outstanding'[h] # None => ChainOf(h, outstanding[h])'
                      /\ outstanding'[h] = None => indirect_lists'[h] = None /\ chain'[h] = <<>>
    BY <1>1, Zenon DEF ChainInv, Adding
  <2>1. CASE h = head
    BY <2>1, <1>2, Zenon
  <2>2. CASE h # head
    <3>1. outstanding[h] = None => indirect_lists[h] = None /\ chain[h] = <<>>
      BY Zenon DEF IInv, ChainInv, Adding
    <3>2. ASSUME outstanding[h] # None PROVE ChainOf(h, outstanding[h])'
      <4>1. ChainOf(h, outstanding[h]) /\ outstanding[h] \in Requests /\ TypeOK
        BY <3>2, Zenon DEF IInv, ChainInv, TypeOK
      <4> QED BY <4>1, <2>2, <1>2, TokenFrame, SMTT(30)
    <3> QED BY <3>1, <3>2, <2>2, <1>2, Zenon
  <2> QED BY <2>1, <2>2, ZenonT(30)
<1>5. AddInv' /\ RecycleInv' /\ NoPanic'
  BY <1>1 DEF AddInv, RecycleInv, NoPanic
<1> QED BY <1>1, <1>3, <1>4, <1>5, SMTT(30) DEF IInv

\* The fields that PopEnd writes keep their types.
LEMMA PopEndType ==
  ASSUME TypeOK, PopEnd, free' \in Seq(Desc)
  PROVE  /\ last_used_idx' \in Index
         /\ avail' \in [ring : [Desc -> Desc], idx : Index, flags : {0, 1}, used_event : Index]
         /\ outstanding' \in [Desc -> Requests \cup {None}]
         /\ chain' \in [Desc -> Seq(Desc)]
         /\ pc' = "idle" /\ cur' = None /\ k' \in 0 .. SIZE
         /\ head' \in Desc /\ last' \in Desc /\ original_free_head' \in Desc
         /\ next' = None
<1>1. 0 \in Desc /\ 0 \in 0 .. SIZE
  BY SizeAssumption DEF Desc
<1>2. last_used_idx \in Index /\ Inc(last_used_idx) \in Index
  BY IndexFacts DEF TypeOK
<1>3. avail' \in [ring : [Desc -> Desc], idx : Index, flags : {0, 1}, used_event : Index]
  BY <1>2, ZenonT(30) DEF TypeOK, PopEnd
<1>4. outstanding' \in [Desc -> Requests \cup {None}] /\ chain' \in [Desc -> Seq(Desc)]
  <2>1. <<>> \in Seq(Desc)
    BY SMTT(30), SMTT(60)
  <2> QED BY <2>1 DEF TypeOK, PopEnd
<1> QED BY <1>1, <1>2, <1>3, <1>4, Zenon DEF PopEnd, Return

LEMMA RecycleEndInv == ASSUME IInv, RecycleEnd PROVE IInv'
<1>1. pc = "recycle" /\ k = N(cur)
  BY SMTT(30) DEF RecycleEnd, N
<1>2. /\ next = None /\ Len(chain[head]) = N(cur) /\ chain[head][1] = head
      /\ desc_shadow[chain[head][N(cur)]].next = original_free_head
      /\ \A i \in 1 .. N(cur) - 1 : desc_shadow[chain[head][i]].next = chain[head][i + 1]
      /\ indirect_lists[head] = None
  <2>1. /\ next = IF k < N(cur) THEN chain[head][k + 1] ELSE None
        /\ desc_shadow[chain[head][k]].next = original_free_head
    BY <1>1 DEF IInv, RecycleInv
  <2>2. k \in Nat /\ ~(k < N(cur)) /\ \A i \in 1 .. N(cur) - 1 : i \in 1 .. N(cur) /\ i < N(cur)
    BY <1>1, Walking, SMTT(30)
  <2>3. DirectChain(head, cur)
    BY <1>1, Walking, SMTT(30)
  <2>4. \A i \in 1 .. N(cur) : i < N(cur) => desc_shadow[chain[head][i]].next = chain[head][i + 1]
    BY <2>3 DEF DirectChain
  <2>5. Len(chain[head]) = N(cur) /\ chain[head][1] = head /\ indirect_lists[head] = None
    BY <2>3 DEF DirectChain
  <2> QED BY <1>1, <2>1, <2>2, <2>4, <2>5, Zenon
<1>3. /\ PopEnd
      /\ UNCHANGED <<num_used, free_head, desc_shadow, indirect_lists>>
      /\ UNCHANGED <<avail_idx, desc, used, shared, enabled, device, notified, interrupt>>
  BY <1>2 DEF RecycleEnd
<1>4. pc' = "idle" /\ free' = chain[head] \o free
  BY <1>3, SMTT(30) DEF PopEnd, Return
<1>5. /\ free' \in Seq(Desc) /\ Len(free') = Len(chain[head]) + Len(free)
      /\ FreeListLinked'
  <2>1. free_head = head /\ head \in Desc /\ Len(chain[head]) > 0
    BY <1>1, <1>2, Walking, SMTT(30)
  <2> QED BY <2>1, <1>1, <1>2, <1>3, <1>4, PutBack, Zenon
<1>6. TypeOK'
  BY <1>3, <1>5, PopEndType, Zenon DEF IInv, TypeOK
<1>7. num_used' + Len(chain[head]) + Len(free) = SIZE
  BY <1>1, <1>2, <1>3, Walking
<1>8. outstanding[head] # None
  BY <1>1, Walking
<1>9. indirect_lists' \in [Desc -> Seq(Entry) \cup {None}]
  BY <1>3, SMTT(30) DEF IInv
<1> QED BY <1>1, <1>2, <1>3, <1>5, <1>6, <1>7, <1>8, <1>9, PopEndInv, SMTT(30), SMTT(60)

LEMMA RecycleIndirectInv == ASSUME IInv, RecycleIndirect PROVE IInv'
<1> DEFINE d == Relink(UnsetBuf(desc_shadow[head]))
<1>1. /\ pc = "recycle_indirect" /\ cur \in Requests /\ outstanding[head] = cur /\ cur # None
      /\ head \in Desc /\ free_head = head /\ k = 0 /\ UsesList(cur)
  BY ConstantAssumption, ZenonT(30) DEF RecycleIndirect, IInv, RecycleInv, TypeOK
<1>2. ListChain(head, cur)
  <2>1. ChainOf(head, outstanding[head])
    BY <1>1, SMTT(30) DEF IInv, ChainInv
  <2> QED BY <1>1, <2>1, Zenon DEF ChainOf, DirectChain
<1>3. /\ chain[head] = <<head>> /\ Len(chain[head]) = 1 /\ chain[head][1] = head
      /\ indirect_lists[head] = IndirectList(cur) /\ indirect_lists[head] # None
      /\ Len(indirect_lists[head]) = N(cur)
  BY <1>1, <1>2, ListFacts, SMTT(30), SMTT(60) DEF ListChain
<1>4. /\ PopEnd
      /\ indirect_lists' = [indirect_lists EXCEPT ![head] = None]
      /\ desc_shadow' = [desc_shadow EXCEPT ![head] = d]
      /\ num_used' = num_used - 1
      /\ shared' \subseteq shared
      /\ UNCHANGED <<free_head, avail_idx, desc, used, enabled, device, notified, interrupt>>
  BY <1>3 DEF RecycleIndirect, N
<1>5. d \in Descriptor /\ d.next = original_free_head
  <2>1. desc_shadow[head] \in Descriptor /\ original_free_head \in Desc
    BY <1>1, SMTT(30) DEF IInv, TypeOK
  <2> QED BY <2>1, ZenonT(30) DEF Descriptor, UnsetBuf, Relink
<1> HIDE DEF d
<1>6. /\ desc_shadow'[head] = d
      /\ \A x \in Desc : x # head => desc_shadow'[x] = desc_shadow[x]
      /\ indirect_lists'[head] = None
      /\ \A h \in Desc : h # head => indirect_lists'[h] = indirect_lists[h]
  BY <1>1, <1>4 DEF IInv, TypeOK
<1>7. pc' = "idle" /\ free' = chain[head] \o free
  BY <1>4, SMTT(30) DEF PopEnd, Return
<1>8. /\ free' \in Seq(Desc) /\ Len(free') = Len(chain[head]) + Len(free)
      /\ FreeListLinked'
  <2>1. head \notin Range(free)
    <3>1. 1 \in 1 .. Len(chain[head])
      BY <1>3, SMTT(30)
    <3>2. chain[head][1] \notin Range(free)
      BY <3>1, <1>1, InUse, SMTT(30)
    <3> QED BY <3>2, <1>3, SMTT(30)
  <2>2. \A i \in 1 .. Len(chain[head]) - 1 :
          desc_shadow'[chain[head][i]].next = chain[head][i + 1]
    BY <1>3, SMTT(30)
  <2>3. /\ desc_shadow'[chain[head][Len(chain[head])]].next = original_free_head
        /\ Len(chain[head]) > 0 /\ free_head' = head
        /\ \A x \in Desc : x \in Range(free) => desc_shadow'[x] = desc_shadow[x]
    BY <1>1, <1>3, <1>4, <1>5, <1>6, <2>1, SMTT(30)
  <2> QED BY <2>2, <2>3, <1>1, <1>3, <1>7, PutBack, ZenonT(30)
<1>9. num_used \in Nat /\ num_used - 1 \in 0 .. SIZE /\ (num_used - 1) + 1 + Len(free) = SIZE
  <2>1. num_used \in Nat /\ num_used + 0 + Len(free) = SIZE
    BY <1>1, SMTT(30) DEF IInv, TypeOK, DescriptorsAccounted
  <2>2. 1 + Len(free) <= SIZE /\ Len(free) \in Nat
    BY <1>1, <1>3, InUse, Zenon
  <2> QED BY <2>1, <2>2, SizeAssumption, SMTT(30)
<1>10. TypeOK'
  <2>1. desc_shadow' \in [Desc -> Descriptor]
    BY <1>4, <1>5, Zenon DEF IInv, TypeOK
  <2> QED BY <2>1, <1>4, <1>8, <1>9, PopEndType, ZenonT(30) DEF IInv, TypeOK
<1>11. \A h \in Desc : h # head =>
         \A i \in 1 .. Len(chain[h]) : desc_shadow'[chain[h][i]] = desc_shadow[chain[h][i]]
  <2> SUFFICES ASSUME NEW h \in Desc, h # head, NEW i \in 1 .. Len(chain[h])
               PROVE  desc_shadow'[chain[h][i]] = desc_shadow[chain[h][i]]
    BY Zenon
  <2>1. 1 \in 1 .. Len(chain[head])
    BY <1>3, SMTT(30)
  <2>2. chain[h][i] \in Desc
    BY InUse, SMTT(30)
  <2>3. chain[head][1] # chain[h][i]
    BY <2>1, <1>1, InUse, SMTT(30)
  <2> QED BY <2>2, <2>3, <1>3, <1>6, SMTT(30)
<1>12. indirect_lists' \in [Desc -> Seq(Entry) \cup {None}]
  BY <1>4, ZenonT(30) DEF IInv
<1>13. num_used' + Len(chain[head]) + Len(free) = SIZE
  BY <1>3, <1>4, <1>9, SMTT(30), SMTT(60)
<1> QED BY <1>1, <1>4, <1>6, <1>8, <1>10, <1>11, <1>12, <1>13, PopEndInv, Zenon

-----------------------------------------------------------------------------
(* The theorems *)

\* What recycle_descriptors is about to unshare: it follows from the chains.
LEMMA UnshareFacts == IInv => UnshareMatchesShare
<1> SUFFICES ASSUME IInv PROVE UnshareMatchesShare
  OBVIOUS
<1>1. ASSUME pc = "recycle", k < Len(Bufs(cur))
      PROVE  next # None /\ desc_shadow[next].addr = Bufs(cur)[k + 1]
  <2>1. k + 1 \in 1 .. N(cur) /\ k + 1 > k /\ Len(chain[head]) = N(cur)
    BY <1>1, Walking, SMTT(30) DEF N, DirectChain
  <2>2. next = chain[head][k + 1]
    BY <1>1, Zenon DEF IInv, RecycleInv, N
  <2>3. desc_shadow[chain[head][k + 1]].addr = Bufs(cur)[k + 1]
    BY <1>1, <2>1, Walking, Zenon DEF DirectChain
  <2>4. chain[head][k + 1] \in Desc
    BY <1>1, <2>1, Walking, InUse, ZenonT(30)
  <2> QED BY <2>2, <2>3, <2>4, ConstantAssumption, Zenon
<1>2. ASSUME pc = "recycle_indirect"
      PROVE  /\ desc_shadow[head].addr = ListAddr
             /\ indirect_lists[head] # None
             /\ \A i \in 1 .. Len(Bufs(cur)) : indirect_lists[head][i].addr = Bufs(cur)[i]
  <2>1. /\ cur \in Requests /\ outstanding[head] = cur /\ cur # None /\ head \in Desc
        /\ UsesList(cur)
    BY <1>2, ConstantAssumption, ZenonT(30) DEF IInv, RecycleInv, TypeOK
  <2>2. ListChain(head, cur)
    BY <2>1 DEF IInv, ChainInv, ChainOf, DirectChain
  <2> QED BY <2>1, <2>2, ListFacts, SMTT(30) DEF ListChain, N
<1> QED BY <1>1, <1>2 DEF UnshareMatchesShare

LEMMA NextInv == IInv /\ [Next]_vars => IInv'
<1> SUFFICES ASSUME IInv, [Next]_vars PROVE IInv'
  OBVIOUS
<1>1. ASSUME NEW r \in Requests, AddBegin(r) PROVE IInv'
  BY <1>1, AddBeginInv
<1>2. CASE AddDirect
  BY <1>2, AddDirectInv
<1>3. CASE AddDirectEnd
  BY <1>3, AddDirectEndInv
<1>4. CASE AddIndirect
  BY <1>4, AddIndirectInv
<1>5. CASE AddRing
  BY <1>5, AddRingInv
<1>6. CASE AddPublish
  BY <1>6, AddPublishInv
<1>7. ASSUME NEW t \in Desc, PopBegin(t) PROVE IInv'
  BY <1>7, PopBeginInv, Zenon
<1>8. CASE Recycle
  BY <1>8, RecycleStepInv
<1>9. CASE RecycleEnd
  BY <1>9, RecycleEndInv
<1>10. CASE RecycleIndirect
  BY <1>10, RecycleIndirectInv
<1>11. CASE Notify \/ Sleep \/ Wake \/ \E enable \in BOOLEAN : SetDevNotify(enable)
  BY <1>11, CallerInv, SMTT(30)
<1>12. CASE Device
  BY <1>12, DeviceInv
<1>13. CASE UNCHANGED vars
  <2>1. UNCHANGED owned
    BY <1>13, ZenonT(40) DEF vars, owned, fields
  <2>2. TypeOK'
    BY <1>13 DEF IInv, TypeOK, vars, fields, call, history
  <2> QED BY <2>1, <2>2, Frame, SMTT(30)
<1> QED BY <1>1, <1>2, <1>3, <1>4, <1>5, <1>6, <1>7, <1>8, <1>9, <1>10, <1>11, <1>12, <1>13, Zenon
        DEF Next, Driver

\* The inductive invariant holds in every state of every execution of add,
\* pop_used and set_dev_notify next to a concurrent device.
THEOREM Invariance == Spec => []IInv
BY InitInv, NextInv, PTL DEF Spec

\* Every field of VirtQueue keeps its type: num_used never leaves 0 .. SIZE
\* although it is a u16 that recycle_descriptors decrements, free_head and every
\* link are descriptor indices, the ring indices wrap.
THEOREM TypeCorrect == Spec => []TypeOK
<1>1. IInv => TypeOK
  BY DEF IInv
<1> QED BY <1>1, Invariance, PTL

\* add and pop_used never lose a descriptor and never hand one out that a chain
\* still uses.
THEOREM NoDescriptorLost == Spec => []DescriptorsAccounted
<1>1. IInv => DescriptorsAccounted
  BY DEF IInv
<1> QED BY <1>1, Invariance, PTL

\* The links of the shadow thread exactly the free descriptors.
THEOREM FreeListIntegrity == Spec => []FreeListLinked
<1>1. IInv => FreeListLinked
  BY DEF IInv
<1> QED BY <1>1, Invariance, PTL

\* No assertion and no panic of add_indirect and recycle_descriptors is reached.
THEOREM PanicFree == Spec => []NoPanic
<1>1. IInv => NoPanic
  BY SMTT(30) DEF IInv
<1> QED BY <1>1, Invariance, PTL

\* recycle_descriptors unshares every buffer with the address that add shared
\* it with.
THEOREM UnshareCorrect == Spec => []UnshareMatchesShare
BY UnshareFacts, Invariance, PTL

-----------------------------------------------------------------------------
(* Notifications and interrupts *)

\* A device that is going to sleep has asked for the next buffer, and one that
\* sleeps although there is a buffer was notified, or add has just published
\* that buffer and its caller is about to ask should_notify.
NotifyInv ==
  /\ avail.idx = avail_idx
  /\ device.state # "awake" =>
       IF event_idx THEN used.avail_event = device.avail_idx ELSE used.flags = 0
  /\ device.state = "asleep" /\ device.avail_idx # avail_idx =>
       notified \/ (pc = "notify" /\ avail_idx = Inc(device.avail_idx))

\* used_event follows last_used_idx, the flag follows set_dev_notify, and a
\* caller that sleeps has enabled interrupts and was sent one if it can pop.
InterruptInv ==
  /\ event_idx => avail.used_event = last_used_idx
  /\ ~event_idx /\ enabled => avail.flags = 0
  /\ pc = "asleep" => enabled /\ (can_pop => interrupt)

SignalInv == NotifyInv /\ InterruptInv

\* The steps of a call that touch neither the indices nor the signals.
LEMMA SignalFrame ==
  ASSUME SignalInv,
         UNCHANGED <<avail_idx, last_used_idx, used, enabled, device, notified, interrupt>>,
         avail'.idx = avail.idx, avail'.flags = avail.flags,
         avail'.used_event = avail.used_event,
         pc = "notify" => pc' = "notify", pc' # "asleep"
  PROVE  SignalInv'
<1>1. NotifyInv'
  BY SMTT(30) DEF SignalInv, NotifyInv
<1>2. InterruptInv'
  BY DEF SignalInv, InterruptInv
<1> QED BY <1>1, <1>2, ZenonT(40) DEF SignalInv

LEMMA SignalAdd ==
  ASSUME IInv, SignalInv,
         (\E r \in Requests : AddBegin(r)) \/ AddDirect \/ AddDirectEnd \/ AddIndirect \/ AddRing
  PROVE  SignalInv'
<1>1. UNCHANGED <<avail_idx, last_used_idx, used, enabled, device, notified, interrupt>>
  BY Zenon DEF AddBegin, AddDirect, AddDirectEnd, AddIndirect, AddRing, fields
<1>2. pc # "notify" /\ pc' # "asleep"
  BY Zenon DEF AddBegin, AddDirect, AddDirectEnd, AddIndirect, AddRing, Goto
<1>3. CASE avail' = avail
  BY <1>1, <1>2, <1>3, SignalFrame, SMTT(30)
<1>4. CASE AddRing
  <2>1. avail \in [ring : [Desc -> Desc], idx : Index, flags : {0, 1}, used_event : Index]
        /\ avail' = [avail EXCEPT !.ring[Slot(avail_idx)] = head]
    BY <1>4 DEF IInv, TypeOK, AddRing
  <2>2. avail'.idx = avail.idx /\ avail'.flags = avail.flags
        /\ avail'.used_event = avail.used_event
    BY <2>1
  <2> QED BY <1>1, <1>2, <2>2, SignalFrame
<1> QED BY <1>3, <1>4, Zenon DEF AddBegin, AddDirect, AddDirectEnd, AddIndirect

\* A device that slept on an empty ring is the one that should_notify is about
\* to find.
LEMMA SignalPublish == ASSUME IInv, SignalInv, AddPublish PROVE SignalInv'
<1>1. /\ pc = "avail_idx" /\ pc' = "notify" /\ avail_idx' = Inc(avail_idx)
      /\ avail' = [avail EXCEPT !.idx = Inc(avail_idx)]
      /\ UNCHANGED <<last_used_idx, used, enabled, device, notified, interrupt>>
  BY DEF AddPublish, Goto
<1>2. /\ avail'.idx = Inc(avail_idx) /\ avail'.flags = avail.flags
      /\ avail'.used_event = avail.used_event
  BY <1>1 DEF IInv, TypeOK
<1>3. NotifyInv'
  BY <1>1, <1>2 DEF SignalInv, NotifyInv
<1>4. InterruptInv'
  BY <1>1, <1>2 DEF SignalInv, InterruptInv
<1> QED BY <1>3, <1>4 DEF SignalInv

\* should_notify compares the indices without regard to wrapping; it is asked
\* right after the one index that the sleeping device waits for, where that
\* makes no difference.
LEMMA SignalNotify == ASSUME IInv, SignalInv, Notify PROVE SignalInv'
<1>1. /\ pc = "notify" /\ pc' = "idle" /\ notified' = (notified \/ should_notify)
      /\ UNCHANGED <<avail_idx, last_used_idx, used, avail, enabled, device, interrupt>>
  BY DEF Notify, Return, fields
<1>2. InterruptInv'
  BY <1>1 DEF SignalInv, InterruptInv, can_pop
<1>3. ASSUME device.state = "asleep", device.avail_idx # avail_idx, ~notified
      PROVE  should_notify
  <2>1. avail_idx = Inc(device.avail_idx)
    BY <1>3 DEF SignalInv, NotifyInv
  <2>2. CASE event_idx
    <3>1. used.avail_event = device.avail_idx
      BY <1>3, <2>2, SMTT(30) DEF SignalInv, NotifyInv
    <3>2. avail_idx \in Int
      BY SizeAssumption DEF IInv, TypeOK, Index
    <3> QED BY <2>1, <2>2, <3>1, <3>2, SMTT(30) DEF should_notify
  <2>3. CASE ~event_idx
    BY <1>3, <2>3 DEF SignalInv, NotifyInv, should_notify
  <2> QED BY <2>2, <2>3
<1>4. NotifyInv'
  <2>1. notified \in BOOLEAN
    BY DEF IInv, TypeOK
  <2> QED BY <1>1, <1>3, <2>1, Zenon DEF SignalInv, NotifyInv
<1> QED BY <1>2, <1>4 DEF SignalInv

\* The end of pop_used moves used_event with last_used_idx.
LEMMA SignalPop ==
  ASSUME IInv, SignalInv, (\E t \in Desc : PopBegin(t)) \/ Recycle \/ RecycleEnd \/ RecycleIndirect
  PROVE  SignalInv'
<1>1. /\ UNCHANGED <<avail_idx, used, enabled, device, notified, interrupt>>
      /\ pc # "notify" /\ pc' # "asleep"
      /\ (last_used_idx' = last_used_idx /\ avail' = avail) \/ PopEnd
  BY DEF PopBegin, Recycle, RecycleEnd, RecycleIndirect, PopEnd, Return, Goto, fields
<1>2. CASE last_used_idx' = last_used_idx /\ avail' = avail
  BY <1>1, <1>2, SignalFrame
<1>3. CASE PopEnd
  <2>1. /\ last_used_idx' = Inc(last_used_idx)
        /\ avail' = IF event_idx THEN [avail EXCEPT !.used_event = Inc(last_used_idx)] ELSE avail
        /\ avail \in [ring : [Desc -> Desc], idx : Index, flags : {0, 1}, used_event : Index]
    BY <1>3 DEF PopEnd, IInv, TypeOK
  <2>2. /\ avail'.idx = avail.idx /\ avail'.flags = avail.flags
        /\ event_idx => avail'.used_event = last_used_idx'
    BY <2>1
  <2>3. NotifyInv'
    BY <1>1, <2>2 DEF SignalInv, NotifyInv
  <2>4. InterruptInv'
    BY <1>1, <2>2 DEF SignalInv, InterruptInv
  <2> QED BY <2>3, <2>4 DEF SignalInv
<1> QED BY <1>1, <1>2, <1>3, SMTT(30)

\* The caller sleeps only when interrupts are enabled and nothing can be popped.
LEMMA SignalCaller ==
  ASSUME IInv, SignalInv, Sleep \/ Wake \/ \E enable \in BOOLEAN : SetDevNotify(enable)
  PROVE  SignalInv'
<1>1. /\ UNCHANGED <<avail_idx, last_used_idx, used, device, notified>>
      /\ pc # "notify" /\ pc' # "notify"
  BY DEF Sleep, Wake, SetDevNotify, Goto, fields, call
<1>2. CASE Sleep
  <2>1. enabled /\ ~can_pop /\ UNCHANGED <<avail, enabled>>
    BY <1>2, SMTT(30) DEF Sleep
  <2>2. NotifyInv'
    BY <1>1, <2>1, Zenon DEF SignalInv, NotifyInv
  <2>3. InterruptInv'
    BY <1>1, <2>1, ZenonT(40) DEF SignalInv, InterruptInv, can_pop
  <2> QED BY <2>2, <2>3 DEF SignalInv
<1>3. CASE Wake
  <2>1. pc' = "idle" /\ UNCHANGED <<avail, enabled>>
    BY <1>3, SMTT(30), SMTT(60) DEF Wake, Goto
  <2>2. NotifyInv'
    BY <1>1, <2>1 DEF SignalInv, NotifyInv
  <2>3. InterruptInv'
    BY <1>1, <2>1 DEF SignalInv, InterruptInv
  <2> QED BY <2>2, <2>3 DEF SignalInv
<1>4. ASSUME NEW enable \in BOOLEAN, SetDevNotify(enable) PROVE SignalInv'
  <2>1. /\ pc = "idle" /\ pc' = "idle" /\ enabled' = (event_idx \/ enable)
        /\ avail' = IF event_idx THEN avail ELSE [avail EXCEPT !.flags = IF enable THEN 0 ELSE 1]
        /\ avail \in [ring : [Desc -> Desc], idx : Index, flags : {0, 1}, used_event : Index]
    BY <1>4 DEF SetDevNotify, call, IInv, TypeOK
  <2>2. /\ avail'.idx = avail.idx /\ avail'.used_event = avail.used_event
        /\ ~event_idx /\ enable => avail'.flags = 0
    BY <2>1
  <2>3. NotifyInv'
    BY <1>1, <2>1, <2>2 DEF SignalInv, NotifyInv
  <2>4. InterruptInv'
    BY <1>1, <2>1, <2>2 DEF SignalInv, InterruptInv
  <2> QED BY <2>3, <2>4 DEF SignalInv
<1> QED BY <1>2, <1>3, <1>4

\* The device interrupts for the entry that used_event names, which is the one
\* that a sleeping caller has not seen.
LEMMA SignalDevice == ASSUME IInv, SignalInv, Device PROVE SignalInv'
<1>1. UNCHANGED <<avail_idx, last_used_idx, avail, enabled, pc>>
  BY Zenon DEF Device, DeviceTake, DeviceUse, DeviceSuppress, DeviceArm, DeviceCheck, DeviceWake,
         driverVars, fields, call
<1>2. /\ used \in [ring : [Desc -> Desc], idx : Index, flags : {0, 1}, avail_event : Index]
      /\ device \in [avail_idx : Index, held : SUBSET Desc, state : {"awake", "armed", "asleep"}]
      /\ interrupt \in BOOLEAN
  BY Zenon DEF IInv, TypeOK
<1>3. CASE DeviceTake
  <2>1. device'.state = "awake" /\ UNCHANGED <<used, notified, interrupt>>
    BY <1>2, <1>3 DEF DeviceTake
  <2> QED BY <1>1, <2>1 DEF SignalInv, NotifyInv, InterruptInv, can_pop
<1>4. ASSUME NEW h \in Desc, DeviceUse(h) PROVE SignalInv'
  <2>1. /\ device'.state = device.state /\ device'.avail_idx = device.avail_idx
        /\ used'.avail_event = used.avail_event /\ used'.flags = used.flags
        /\ notified' = notified
    BY <1>2, <1>4, ZenonT(40) DEF DeviceUse
  <2>2. NotifyInv'
    BY <1>1, <2>1 DEF SignalInv, NotifyInv
  <2>3. interrupt' = (interrupt \/ IF event_idx THEN avail.used_event = used.idx ELSE avail.flags = 0)
    BY <1>4 DEF DeviceUse
  <2>4. pc = "asleep" /\ ~can_pop => interrupt'
    BY <2>3, Zenon DEF SignalInv, InterruptInv, can_pop
  <2>5. pc = "asleep" /\ can_pop => interrupt'
    BY <2>3, Zenon DEF SignalInv, InterruptInv
  <2>6. InterruptInv'
    BY <1>1, <2>4, <2>5 DEF SignalInv, InterruptInv
  <2> QED BY <2>2, <2>6 DEF SignalInv
<1>5. CASE DeviceSuppress \/ DeviceArm
  <2>1. /\ used'.idx = used.idx /\ device'.avail_idx = device.avail_idx
        /\ UNCHANGED <<notified, interrupt>>
        /\ device'.state # "asleep"
        /\ device'.state # "awake" =>
             IF event_idx THEN used'.avail_event = device.avail_idx ELSE used'.flags = 0
    BY <1>2, <1>5, SMTT(30) DEF DeviceSuppress, DeviceArm
  <2>2. NotifyInv'
    BY <1>1, <2>1, SMTT(30) DEF SignalInv, NotifyInv
  <2>3. InterruptInv'
    BY <1>1, <2>1 DEF SignalInv, InterruptInv, can_pop
  <2> QED BY <2>2, <2>3 DEF SignalInv
<1>6. CASE DeviceCheck \/ DeviceWake
  <2>1. /\ device'.avail_idx = device.avail_idx
        /\ UNCHANGED <<used, interrupt>>
        /\ device'.state # "awake" => device.state # "awake"
        /\ device'.state = "asleep" => device.avail_idx = avail.idx
    BY <1>2, <1>6, SMTT(30) DEF DeviceCheck, DeviceWake
  <2>2. NotifyInv'
    BY <1>1, <2>1, Zenon DEF SignalInv, NotifyInv
  <2>3. InterruptInv'
    BY <1>1, <2>1 DEF SignalInv, InterruptInv, can_pop
  <2> QED BY <2>2, <2>3 DEF SignalInv
<1> QED BY <1>3, <1>4, <1>5, <1>6, SMTT(30) DEF Device

\* At every step of add, pop_used and the device, a side that sleeps, or is about
\* to, has seen the other's index or has left its flag or event index where the
\* other will meet it.
THEOREM SignalsKept == Spec => []SignalInv
<1>1. Init => SignalInv
  BY DEF Init, SignalInv, NotifyInv, InterruptInv
<1>2. IInv /\ SignalInv /\ [Next]_vars => SignalInv'
  <2> SUFFICES ASSUME IInv, SignalInv, [Next]_vars PROVE SignalInv'
    OBVIOUS
  <2>1. CASE Driver
    BY <2>1, SignalAdd, SignalPublish, SignalNotify, SignalPop, SignalCaller, Zenon DEF Driver
  <2>2. CASE Device
    BY <2>2, SignalDevice, Zenon
  <2>3. CASE UNCHANGED vars
    BY <2>3, Zenon DEF vars, fields, call, SignalInv, NotifyInv, InterruptInv, can_pop
  <2> QED BY <2>1, <2>2, <2>3 DEF Next
<1> QED BY <1>1, <1>2, Invariance, PTL DEF Spec

\* A sleeping device is never left with a buffer that it was not told about:
\* the order of add (publish, then should_notify) against the device's (ask,
\* look again, then sleep), for every interleaving and every index modulus.
THEOREM NotificationsKept == Spec => []NoLostNotification
<1>1. SignalInv => NoLostNotification
  BY DEF SignalInv, NotifyInv, NoLostNotification
<1> QED BY <1>1, SignalsKept, PTL

\* A caller that waits for an interrupt gets one when a buffer comes back:
\* pop_used moves used_event on, and set_dev_notify clears the flag.
THEOREM InterruptsKept == Spec => []NoLostInterrupt
<1>1. SignalInv => NoLostInterrupt
  BY DEF SignalInv, InterruptInv, NoLostInterrupt
<1> QED BY <1>1, SignalsKept, PTL

-----------------------------------------------------------------------------
(* The buffers that are shared with the device *)

\* Buffer i of request r is shared: a token stands for r, and recycle_descriptors
\* has not come to the buffer; or add has shared it and not yet published r.
Live(r, i) ==
  \/ \E t \in Desc : outstanding[t] = r /\ ~(pc = "recycle" /\ t = head /\ i <= k)
  \/ r = cur /\ pc = "add_direct" /\ i <= k
  \/ r = cur /\ pc \in {"avail_ring", "avail_idx"}

SharedInv ==
  /\ \A t, u \in Desc : outstanding[t] = outstanding[u] /\ outstanding[t] # None => t = u
  /\ Unpublished => \A t \in Desc : outstanding[t] # cur
  /\ \A b \in shared : \E r \in Requests : \E i \in 1 .. N(r) : b = Bufs(r)[i]
  /\ \A r \in Requests : \A i \in 1 .. N(r) : Bufs(r)[i] \in shared <=> Live(r, i)

\* A buffer has one place in one request.
LEMMA OnePlace ==
  ASSUME NEW r \in Requests, NEW q \in Requests, NEW i \in 1 .. N(r), NEW j \in 1 .. N(q),
         Bufs(r)[i] = Bufs(q)[j]
  PROVE  r = q /\ i = j
BY RequestAssumption, Zenon DEF N

\* The steps that share and unshare nothing and leave the tokens alone.
LEMMA SharedFrame ==
  ASSUME SharedInv, UNCHANGED <<shared, outstanding>>,
         Unpublished' => \A t \in Desc : outstanding[t] # cur',
         \A r \in Requests : \A i \in 1 .. N(r) : Live(r, i)' <=> Live(r, i)
  PROVE  SharedInv'
<1>1. \A r \in Requests : \A i \in 1 .. N(r) : Bufs(r)[i] \in shared' <=> Live(r, i)'
  BY DEF SharedInv
<1>2. \A b \in shared' : \E r \in Requests : \E i \in 1 .. N(r) : b = Bufs(r)[i]
  BY DEF SharedInv
<1>3. \A t, u \in Desc : outstanding'[t] = outstanding'[u] /\ outstanding'[t] # None => t = u
  BY DEF SharedInv
<1> QED BY <1>1, <1>2, <1>3, SMTT(30) DEF SharedInv


\* The device's steps change no variable of the driver.
LEMMA DeviceFrame == Device => UNCHANGED <<shared, outstanding, pc, cur, k, head>>
<1>1. Device => UNCHANGED driverVars
  BY Zenon DEF Device, DeviceTake, DeviceUse, DeviceSuppress, DeviceArm, DeviceCheck, DeviceWake
<1>2. UNCHANGED driverVars => UNCHANGED <<shared, outstanding, pc, cur, k, head>>
  BY DEF driverVars, call
<1> QED BY <1>1, <1>2, Zenon

LEMMA SharedQuiet ==
  ASSUME IInv, SharedInv,
         \/ \E r \in Requests : AddBegin(r)
         \/ AddDirectEnd \/ AddRing \/ Notify \/ \E t \in Desc : PopBegin(t)
         \/ Sleep \/ Wake \/ \E enable \in BOOLEAN : SetDevNotify(enable)
         \/ Device \/ UNCHANGED vars
  PROVE  SharedInv'
<1>1. UNCHANGED <<shared, outstanding>>
  <2>1. CASE \E r \in Requests : AddBegin(r)
    BY <2>1 DEF AddBegin
  <2>2. CASE AddDirectEnd \/ AddRing \/ Notify
    BY <2>2, Zenon DEF AddDirectEnd, AddRing, Notify
  <2>3. CASE \E t \in Desc : PopBegin(t)
    BY <2>3, Zenon DEF PopBegin
  <2>4. CASE Sleep \/ Wake \/ UNCHANGED vars
    BY <2>4 DEF Sleep, Wake, vars
  <2>5. CASE Device \/ \E enable \in BOOLEAN : SetDevNotify(enable)
    BY <2>5, DeviceFrame, Zenon DEF SetDevNotify
  <2> QED BY <2>1, <2>2, <2>3, <2>4, <2>5, Zenon
<1>2. CASE UNCHANGED <<pc, cur, k, head>>
  <2>1. \A r \in Requests : \A i \in 1 .. N(r) : Live(r, i)' <=> Live(r, i)
    BY <1>1, <1>2 DEF Live
  <2> QED BY <1>1, <1>2, <2>1, SharedFrame, SMTT(30), SMTT(60) DEF SharedInv, Unpublished
<1>3. ASSUME NEW q \in Requests, AddBegin(q) PROVE SharedInv'
  <2>1. /\ pc = "idle" /\ pc' \in {"add_direct", "add_indirect"} /\ cur' = q /\ k' = 0
        /\ \A t \in Desc : outstanding[t] # q
    BY <1>3, SMTT(30) DEF AddBegin, Goto
  <2>2. \A r \in Requests : \A i \in 1 .. N(r) : Live(r, i)' <=> Live(r, i)
    BY <1>1, <2>1, BufsFacts, SMTT(30), SMTT(60) DEF Live
  <2> QED BY <1>1, <2>1, <2>2, SharedFrame, Zenon
<1>4. CASE AddDirectEnd
  <2>1. /\ pc = "add_direct" /\ pc' = "avail_ring" /\ k = N(cur) /\ UNCHANGED <<cur, head>>
    BY <1>4, SMTT(30), SMTT(60) DEF AddDirectEnd, Goto, N
  <2>2. \A r \in Requests : \A i \in 1 .. N(r) : Live(r, i)' <=> Live(r, i)
    BY <1>1, <2>1, BufsFacts, SMTT(30), SMTT(60) DEF Live
  <2> QED BY <1>1, <2>1, <2>2, SharedFrame DEF SharedInv, Unpublished
<1>5. CASE AddRing
  <2>1. pc = "avail_ring" /\ pc' = "avail_idx" /\ UNCHANGED <<cur, head, k>>
    BY <1>5, Zenon DEF AddRing, Goto
  <2>2. \A r \in Requests : \A i \in 1 .. N(r) : Live(r, i)' <=> Live(r, i)
    BY <1>1, <2>1, Zenon DEF Live
  <2> QED BY <1>1, <2>1, <2>2, SharedFrame DEF SharedInv, Unpublished
<1>6. ASSUME NEW t \in Desc, PopBegin(t) PROVE SharedInv'
  <2>1. pc = "idle" /\ pc' \in {"recycle", "recycle_indirect"} /\ k' = 0
    BY <1>6, ZenonT(30) DEF PopBegin, Goto, IInv
  <2>2. \A r \in Requests : \A i \in 1 .. N(r) : Live(r, i)' <=> Live(r, i)
    BY <1>1, <2>1, BufsFacts, SMTT(30) DEF Live
  <2> QED BY <1>1, <2>1, <2>2, SharedFrame, Zenon DEF Unpublished
<1>7. CASE Notify \/ Sleep \/ Wake
  <2>1. pc \in {"notify", "idle", "asleep"} /\ pc' \in {"idle", "asleep"}
    BY <1>7, Zenon DEF Notify, Return, Sleep, Wake, Goto
  <2>2. \A r \in Requests : \A i \in 1 .. N(r) : Live(r, i)' <=> Live(r, i)
    BY <1>1, <2>1, SMTT(30) DEF Live
  <2> QED BY <1>1, <2>1, <2>2, SharedFrame, Zenon DEF Unpublished
<1>8. CASE Device \/ UNCHANGED vars \/ \E enable \in BOOLEAN : SetDevNotify(enable)
  <2>1. UNCHANGED <<pc, cur, k, head>>
    <3>1. CASE Device
      BY <3>1, DeviceFrame, Zenon
    <3>2. CASE UNCHANGED vars
      BY <3>2 DEF vars, call
    <3>3. CASE \E enable \in BOOLEAN : SetDevNotify(enable)
      BY <3>3 DEF SetDevNotify, call
    <3> QED BY <1>8, <3>1, <3>2, <3>3, Zenon
  <2> QED BY <1>2, <2>1, SMTT(30)
<1> QED BY <1>3, <1>4, <1>5, <1>6, <1>7, <1>8, SMTT(30)

\* The steps of add that share: the next buffer of the request, or all of them.
LEMMA SharedAdd ==
  ASSUME IInv, SharedInv, AddDirect \/ AddIndirect
  PROVE  SharedInv'
<1>1. /\ cur \in Requests /\ N(cur) \in Nat /\ k \in Nat
      /\ UNCHANGED <<outstanding, cur, head>>
      /\ \A t \in Desc : outstanding[t] # cur
      /\ pc \in {"add_direct", "add_indirect"}
  <2>1. pc \in {"add_direct", "add_indirect"} /\ UNCHANGED <<outstanding, cur, head>>
    <3>1. AddDirect => pc = "add_direct" /\ UNCHANGED <<outstanding, cur, head>>
      BY Zenon DEF AddDirect
    <3>2. AddIndirect => pc = "add_indirect" /\ UNCHANGED <<outstanding, cur, head>>
      BY Zenon DEF AddIndirect
    <3> QED BY <3>1, <3>2, Zenon
  <2>2. AddInv /\ TypeOK
    BY Zenon DEF IInv
  <2>3. cur \in Requests /\ N(cur) \in 1 .. SIZE
    BY <2>1, <2>2, Zenon DEF AddInv
  <2>4. k \in 0 .. SIZE
    BY <2>2, Zenon DEF TypeOK
  <2>5. N(cur) \in Nat /\ k \in Nat
    BY <2>3, <2>4, SizeAssumption
  <2> QED BY <2>1, <2>3, <2>4, <2>5, Zenon DEF SharedInv, Unpublished
<1>2. \A t, u \in Desc : outstanding'[t] = outstanding'[u] /\ outstanding'[t] # None => t = u
  BY <1>1, SMTT(30) DEF SharedInv
<1>3. ASSUME NEW S, S \subseteq 1 .. N(cur), shared' = shared \cup {Bufs(cur)[i] : i \in S},
             pc' # "recycle",
             \A i \in 1 .. N(cur) : Live(cur, i)' <=> Live(cur, i) \/ i \in S
      PROVE  SharedInv'
  <2>1. \A b \in shared' : \E r \in Requests : \E i \in 1 .. N(r) : b = Bufs(r)[i]
    BY <1>1, <1>3, Zenon DEF SharedInv
  <2>2. \A r \in Requests : \A i \in 1 .. N(r) :
          (\E j \in S : Bufs(r)[i] = Bufs(cur)[j]) <=> r = cur /\ i \in S
    BY <1>1, <1>3, OnePlace, Zenon
  <2>3. \A r \in Requests : \A i \in 1 .. N(r) :
          Bufs(r)[i] \in shared' <=> Live(r, i) \/ (r = cur /\ i \in S)
    BY <1>3, <2>2, Zenon DEF SharedInv
  <2>4. \A r \in Requests : \A i \in 1 .. N(r) :
          r # cur => (Live(r, i)' <=> Live(r, i))
    BY <1>1, <1>3 DEF Live
  <2>5. \A r \in Requests : \A i \in 1 .. N(r) : Bufs(r)[i] \in shared' <=> Live(r, i)'
    <3>1. \A i \in 1 .. N(cur) : Bufs(cur)[i] \in shared' <=> Live(cur, i)'
      <4>1. \A i \in 1 .. N(cur) : Bufs(cur)[i] \in shared' <=> Live(cur, i) \/ i \in S
        BY <1>1, <2>3, Zenon
      <4> QED BY <1>3, <4>1, Zenon
    <3>2. \A r \in Requests : r # cur =>
            \A i \in 1 .. N(r) : Bufs(r)[i] \in shared' <=> Live(r, i)'
      BY <2>3, <2>4, Zenon
    <3>3. \A r \in Requests : r = cur =>
            \A i \in 1 .. N(r) : Bufs(r)[i] \in shared' <=> Live(r, i)'
      BY <1>1, <3>1
    <3> QED BY <3>2, <3>3, Zenon
  <2>6. Unpublished' => \A t \in Desc : outstanding'[t] # cur'
    BY <1>1
  <2> QED BY <1>2, <2>1, <2>5, <2>6, Zenon DEF SharedInv
<1>4. CASE AddDirect
  <2>1. /\ pc = "add_direct" /\ pc' = pc /\ k < N(cur) /\ k' = k + 1
        /\ shared' = shared \cup {Bufs(cur)[k + 1]}
    BY <1>4, Zenon DEF AddDirect, N
  <2> DEFINE S == {k + 1}
  <2>2. shared' = shared \cup {Bufs(cur)[i] : i \in S}
    BY <2>1, SMTT(30)
  <2>3. \A i \in 1 .. N(cur) : Live(cur, i) <=> i <= k
    BY <1>1, <2>1, Zenon DEF Live
  <2>4. \A i \in 1 .. N(cur) : Live(cur, i)' <=> i <= k + 1
    BY <1>1, <2>1, Zenon DEF Live
  <2>5. S \subseteq 1 .. N(cur) /\ \A i \in 1 .. N(cur) : i <= k + 1 <=> i <= k \/ i \in S
    BY <1>1, <2>1
  <2>6. pc' # "recycle"
    BY <2>1
  <2> HIDE DEF S
  <2>7. \A i \in 1 .. N(cur) : Live(cur, i)' <=> Live(cur, i) \/ i \in S
    BY <2>3, <2>4, <2>5, Zenon
  <2> QED BY <1>3, <2>2, <2>5, <2>6, <2>7, Zenon
<1>5. CASE AddIndirect
  <2>1. pc = "add_indirect" /\ shared' = shared \cup {Bufs(cur)[i] : i \in 1 .. N(cur)}
    BY <1>5, Zenon DEF AddIndirect, N
  <2>2. pc' = "avail_ring"
    <3>1. pc' \in {"avail_ring", "panic"}
      BY <1>5, Zenon DEF AddIndirect, Goto
    <3>2. NoPanic'
      BY <1>5, AddIndirectInv, SMTT(30) DEF IInv
    <3> QED BY <3>1, <3>2 DEF NoPanic
  <2>3. \A i \in 1 .. N(cur) : Live(cur, i)'
    BY <1>1, <2>2, Zenon DEF Live
  <2> DEFINE S == 1 .. N(cur)
  <2>4. /\ S \subseteq 1 .. N(cur) /\ shared' = shared \cup {Bufs(cur)[i] : i \in S}
        /\ pc' # "recycle"
        /\ \A i \in 1 .. N(cur) : Live(cur, i)' <=> Live(cur, i) \/ i \in S
    BY <2>1, <2>2, <2>3, Zenon
  <2> HIDE DEF S
  <2> QED BY <1>3, <2>4, Zenon
<1> QED BY <1>4, <1>5, Zenon

\* add returns the token: the buffers that it shared are now the token's.
LEMMA SharedPublish ==
  ASSUME IInv, SharedInv, AddPublish
  PROVE  SharedInv'
<1>1. /\ pc = "avail_idx" /\ pc' = "notify" /\ UNCHANGED <<shared, cur, head>>
      /\ outstanding' = [outstanding EXCEPT ![head] = cur]
  BY Zenon DEF AddPublish, Goto
<1>2. head \in Desc /\ outstanding \in [Desc -> Requests \cup {None}]
  BY Zenon DEF IInv, TypeOK
<1>3. outstanding[head] = None /\ cur \in Requests
  BY <1>1, <1>2, Zenon DEF IInv, ChainInv, AddInv, Adding
<1>4. \A t \in Desc : outstanding[t] # cur
  BY <1>1 DEF SharedInv, Unpublished
<1>5. outstanding'[head] = cur /\ \A t \in Desc : t # head => outstanding'[t] = outstanding[t]
  BY <1>1, <1>2, Zenon
<1>6. \A t, u \in Desc : outstanding'[t] = outstanding'[u] /\ outstanding'[t] # None => t = u
  BY <1>4, <1>5, SMTT(30) DEF SharedInv
<1>7. \A r \in Requests : \A i \in 1 .. N(r) : Live(r, i)' <=> Live(r, i)
  <2> TAKE r \in Requests
  <2> TAKE i \in 1 .. N(r)
  <2>1. r # None
    BY ConstantAssumption
  <2>2. Live(r, i) <=> (\E t \in Desc : outstanding[t] = r) \/ r = cur
    BY <1>1 DEF Live
  <2>3. Live(r, i)' <=> \E t \in Desc : outstanding'[t] = r
    BY <1>1 DEF Live
  <2> QED BY <1>2, <1>3, <1>5, <2>1, <2>2, <2>3, SMTT(30), SMTT(60)
<1>8. \A r \in Requests : \A i \in 1 .. N(r) : Bufs(r)[i] \in shared' <=> Live(r, i)'
  BY <1>1, <1>7, SMTT(30) DEF SharedInv
<1>9. \A b \in shared' : \E r \in Requests : \E i \in 1 .. N(r) : b = Bufs(r)[i]
  BY <1>1, Zenon DEF SharedInv
<1> QED BY <1>1, <1>6, <1>8, <1>9 DEF SharedInv, Unpublished

\* recycle_descriptors unshares the buffer it comes to, and no other.
LEMMA SharedRecycle ==
  ASSUME IInv, SharedInv, Recycle
  PROVE  SharedInv'
<1>1. /\ pc = "recycle" /\ k < N(cur) /\ UNCHANGED <<outstanding, cur, head>>
  BY DEF Recycle, N
<1>2. /\ cur \in Requests /\ outstanding[head] = cur /\ cur # None /\ head \in Desc
      /\ N(cur) \in Nat /\ k \in Nat
  BY <1>1, Walking, SMTT(30)
<1>3. next # None /\ desc_shadow[next].addr = Bufs(cur)[k + 1]
  BY <1>1, UnshareFacts, Zenon DEF UnshareMatchesShare, N
<1>4. pc' = pc /\ k' = k + 1 /\ shared' = shared \ {Bufs(cur)[k + 1]}
  BY <1>3 DEF Recycle
<1>5. k + 1 \in 1 .. N(cur)
  BY <1>1, <1>2
<1>6. \A t \in Desc : outstanding[t] = cur => t = head
  BY <1>2 DEF SharedInv
<1>7. \A r \in Requests : \A i \in 1 .. N(r) : Live(r, i)' <=> Live(r, i) /\ ~(r = cur /\ i = k + 1)
  <2>1. \A i \in 1 .. N(cur) : Live(cur, i) <=> ~(i <= k)
    BY <1>1, <1>2, <1>6, SMTT(30) DEF Live
  <2>2. \A i \in 1 .. N(cur) : Live(cur, i)' <=> ~(i <= k + 1)
    BY <1>1, <1>2, <1>4, <1>6 DEF Live
  <2>3. \A i \in 1 .. N(cur) : ~(i <= k + 1) <=> ~(i <= k) /\ i # k + 1
    BY <1>2
  <2>4. \A r \in Requests : r # cur => \A i \in 1 .. N(r) : Live(r, i)' <=> Live(r, i)
    BY <1>1, <1>2, <1>4 DEF Live
  <2>5. \A r \in Requests : r = cur =>
          \A i \in 1 .. N(r) : Live(r, i)' <=> Live(r, i) /\ i # k + 1
    BY <1>1, <2>1, <2>2, <2>3, SMTT(30), SMTT(60)
  <2> QED BY <2>4, <2>5, Zenon
<1>8. \A r \in Requests : \A i \in 1 .. N(r) :
        Bufs(r)[i] = Bufs(cur)[k + 1] <=> r = cur /\ i = k + 1
  BY <1>2, <1>5, OnePlace
<1>9. \A r \in Requests : \A i \in 1 .. N(r) : Bufs(r)[i] \in shared' <=> Live(r, i)'
  <2>1. \A r \in Requests : \A i \in 1 .. N(r) :
          Bufs(r)[i] \in shared' <=> Live(r, i) /\ Bufs(r)[i] # Bufs(cur)[k + 1]
    BY <1>4 DEF SharedInv
  <2> QED BY <1>7, <1>8, <2>1, Zenon
<1>10. \A b \in shared' : \E r \in Requests : \E i \in 1 .. N(r) : b = Bufs(r)[i]
  BY <1>4 DEF SharedInv
<1>11. \A t, u \in Desc : outstanding'[t] = outstanding'[u] /\ outstanding'[t] # None => t = u
  BY <1>1, Zenon DEF SharedInv
<1> QED BY <1>1, <1>4, <1>9, <1>10, <1>11, Zenon DEF SharedInv, Unpublished

\* The end of pop_used takes the token away when none of its buffers is shared.
LEMMA SharedReturned ==
  ASSUME IInv, SharedInv, PopEnd, pc \in {"recycle", "recycle_indirect"},
         shared' \subseteq shared,
         \A r \in Requests : r # cur => \A i \in 1 .. N(r) :
           Bufs(r)[i] \in shared' <=> Bufs(r)[i] \in shared,
         \A i \in 1 .. N(cur) : Bufs(cur)[i] \notin shared'
  PROVE  SharedInv'
<1>1. pc' = "idle" /\ outstanding' = [outstanding EXCEPT ![head] = None]
  BY Zenon DEF PopEnd, Return
<1>2. /\ head \in Desc /\ outstanding \in [Desc -> Requests \cup {None}]
      /\ cur \in Requests /\ outstanding[head] = cur /\ cur # None
  BY ConstantAssumption, Zenon DEF IInv, TypeOK, RecycleInv
<1>3. outstanding'[head] = None /\ \A t \in Desc : t # head => outstanding'[t] = outstanding[t]
  BY <1>1, <1>2, Zenon
<1>4. \A t, u \in Desc : outstanding'[t] = outstanding'[u] /\ outstanding'[t] # None => t = u
  <2>1. \A t, u \in Desc : outstanding[t] = outstanding[u] /\ outstanding[t] # None => t = u
    BY Zenon DEF SharedInv
  <2> QED BY <1>3, <2>1
<1>5. \A t \in Desc : outstanding[t] = cur => t = head
  BY <1>2 DEF SharedInv
<1>6. \A r \in Requests : \A i \in 1 .. N(r) : Live(r, i)' <=> \E t \in Desc : outstanding'[t] = r
  BY <1>1, SMTT(30), SMTT(60) DEF Live
<1>7. \A r \in Requests : r = cur => \A i \in 1 .. N(r) : Bufs(r)[i] \in shared' <=> Live(r, i)'
  BY <1>2, <1>3, <1>5, <1>6, SMTT(30)
<1>8. \A r \in Requests : r # cur => \A i \in 1 .. N(r) : Bufs(r)[i] \in shared' <=> Live(r, i)'
  <2> SUFFICES ASSUME NEW r \in Requests, r # cur, NEW i \in 1 .. N(r)
               PROVE  Bufs(r)[i] \in shared' <=> Live(r, i)'
    BY SMTT(30)
  <2>1. r # None
    BY ConstantAssumption, Zenon
  <2>2. Live(r, i) <=> \E t \in Desc : outstanding[t] = r
    BY <1>2, Zenon DEF Live
  <2>3. (\E t \in Desc : outstanding[t] = r) <=> \E t \in Desc : outstanding'[t] = r
    BY <1>2, <1>3, <2>1
  <2> QED BY <1>6, <2>2, <2>3, ZenonT(30) DEF SharedInv
<1>9. \A r \in Requests : \A i \in 1 .. N(r) : Bufs(r)[i] \in shared' <=> Live(r, i)'
  BY <1>7, <1>8, Zenon
<1>10. \A b \in shared' : \E r \in Requests : \E i \in 1 .. N(r) : b = Bufs(r)[i]
  BY Zenon DEF SharedInv
<1> QED BY <1>1, <1>4, <1>9, <1>10 DEF SharedInv, Unpublished

\* The two ways recycle_descriptors ends.
LEMMA SharedPop ==
  ASSUME IInv, SharedInv, RecycleEnd \/ RecycleIndirect
  PROVE  SharedInv'
<1>1. CASE RecycleEnd
  <2>1. pc = "recycle" /\ k = N(cur) /\ shared' = shared
    BY <1>1, SMTT(30) DEF RecycleEnd, N
  <2>2. /\ cur \in Requests /\ outstanding[head] = cur /\ cur # None /\ head \in Desc
        /\ N(cur) \in Nat
    BY <2>1, Walking, Zenon
  <2>3. PopEnd
    <3>1. next = None
      BY <2>1, <2>2, SMTT(30), SMTT(60) DEF IInv, RecycleInv
    <3> QED BY <1>1, <3>1, Zenon DEF RecycleEnd
  <2>4. \A i \in 1 .. N(cur) : ~Live(cur, i)
    BY <2>1, <2>2, SMTT(30) DEF Live, SharedInv
  <2>5. \A i \in 1 .. N(cur) : Bufs(cur)[i] \notin shared'
    BY <2>1, <2>2, <2>4, Zenon DEF SharedInv
  <2> QED BY <2>1, <2>3, <2>5, SharedReturned, Zenon
<1>2. CASE RecycleIndirect
  <2>1. pc = "recycle_indirect"
    BY <1>2, Zenon DEF RecycleIndirect
  <2>2. cur \in Requests /\ indirect_lists[head] = IndirectList(cur)
    <3>1. /\ cur \in Requests /\ outstanding[head] = cur /\ cur # None /\ head \in Desc
          /\ UsesList(cur)
      BY <2>1, ConstantAssumption, Zenon DEF IInv, RecycleInv, TypeOK
    <3>2. ListChain(head, cur)
      BY <3>1, ZenonT(30) DEF IInv, ChainInv, ChainOf, DirectChain
    <3> QED BY <3>1, <3>2, Zenon DEF ListChain
  <2>3. /\ Len(indirect_lists[head]) = N(cur) /\ indirect_lists[head] # None
        /\ \A i \in 1 .. N(cur) : indirect_lists[head][i].addr = Bufs(cur)[i]
    BY <2>2, ListFacts, Zenon
  <2>4. PopEnd /\ shared' = shared \ {indirect_lists[head][i].addr : i \in 1 .. N(cur)}
    BY <1>2, <2>3, ZenonT(30) DEF RecycleIndirect, N
  <2>5. {indirect_lists[head][i].addr : i \in 1 .. N(cur)} = {Bufs(cur)[i] : i \in 1 .. N(cur)}
    BY <2>3, SMTT(30)
  <2>6. \A i \in 1 .. N(cur) : Bufs(cur)[i] \notin shared'
    BY <2>4, <2>5, ZenonT(30)
  <2>7. \A r \in Requests : r # cur => \A i \in 1 .. N(r) :
          Bufs(r)[i] \notin {Bufs(cur)[j] : j \in 1 .. N(cur)}
    BY <2>2, OnePlace, Zenon
  <2>8. \A r \in Requests : r # cur => \A i \in 1 .. N(r) :
          Bufs(r)[i] \in shared' <=> Bufs(r)[i] \in shared
    BY <2>4, <2>5, <2>7, ZenonT(40)
  <2>9. shared' \subseteq shared
    BY <2>4
  <2> QED BY <2>1, <2>4, <2>6, <2>8, <2>9, SharedReturned, Zenon
<1> QED BY <1>1, <1>2

LEMMA SharedNext == IInv /\ SharedInv /\ [Next]_vars => SharedInv'
BY SharedQuiet, SharedAdd, SharedPublish, SharedRecycle, SharedPop, Zenon DEF Next, Driver

\* Every buffer is shared exactly while its request is live, at every step of
\* add and pop_used, and no request is outstanding twice.
THEOREM BuffersLive == Spec => []SharedInv
<1>1. Init => SharedInv
  <2> SUFFICES ASSUME Init PROVE SharedInv
    BY Zenon
  <2>1. pc = "idle" /\ shared = {} /\ \A t \in Desc : outstanding[t] = None
    BY SMTT(30) DEF Init
  <2>2. \A r \in Requests : \A i \in 1 .. N(r) : ~Live(r, i)
    BY <2>1, ConstantAssumption, Zenon DEF Live
  <2> QED BY <2>1, <2>2 DEF SharedInv, Unpublished
<1> QED BY <1>1, SharedNext, Invariance, PTL DEF Spec

\* Between calls exactly the buffers of the requests that were added and not
\* popped are shared with the device, whatever the queue size and the requests.
THEOREM SharesKept == Spec => []SharedExactly
<1>1. IInv /\ SharedInv => SharedExactly
  <2> SUFFICES ASSUME IInv, SharedInv, pc \in {"idle", "asleep"}
               PROVE  shared = UNION {Range(Bufs(outstanding[t])) :
                                        t \in {u \in Desc : outstanding[u] # None}}
    BY SMTT(30), SMTT(60) DEF SharedExactly
  <2>1. \A t \in Desc : outstanding[t] # None => outstanding[t] \in Requests
    BY SMTT(30), SMTT(60) DEF IInv, TypeOK
  <2>2. \A r \in Requests : \A b : b \in Range(Bufs(r)) <=> \E i \in 1 .. N(r) : b = Bufs(r)[i]
    BY BufsFacts, SMTT(30) DEF Range, N
  <2>3. \A r \in Requests : \A i \in 1 .. N(r) :
          Bufs(r)[i] \in shared <=> \E t \in Desc : outstanding[t] = r
    BY Zenon DEF SharedInv, Live
  <2>4. ASSUME NEW b \in shared
        PROVE  \E t \in Desc : outstanding[t] # None /\ b \in Range(Bufs(outstanding[t]))
    <3>1. PICK r \in Requests : \E i \in 1 .. N(r) : b = Bufs(r)[i]
      BY DEF SharedInv
    <3>2. PICK t \in Desc : outstanding[t] = r
      BY <2>3, <3>1, SMTT(30), SMTT(60)
    <3> QED BY <2>2, <3>1, <3>2, ConstantAssumption, Zenon
  <2>5. ASSUME NEW t \in Desc, outstanding[t] # None, NEW b \in Range(Bufs(outstanding[t]))
        PROVE  b \in shared
    BY <2>1, <2>2, <2>3, <2>5, SMTT(30), SMTT(60)
  <2> QED BY <2>4, <2>5
<1> QED BY <1>1, BuffersLive, Invariance, PTL

-----------------------------------------------------------------------------
(* The shared table agrees with the shadow on the descriptors in use, and a  *)
(* descriptor is writable exactly when the caller passed an output buffer.   *)

Belongs(h, r) == outstanding[h] = r \/ (Unpublished /\ h = head /\ r = cur)

Mirrored(h) == \A i \in 1 .. Len(chain[h]) : desc[chain[h][i]] = desc_shadow[chain[h][i]]

Directed(h) ==
  \A r \in Requests : Belongs(h, r) /\ ~UsesList(r) =>
    \A i \in 1 .. Len(chain[h]) : "WRITE" \in desc_shadow[chain[h][i]].flags <=> IsWrite(r, i)

TableInv == \A h \in Desc : Mirrored(h) /\ Directed(h)

\* What the invariant says about the rings.
LEMMA RingTypes ==
  ASSUME IInv
  PROVE  /\ avail.ring \in [Desc -> Desc] /\ avail.idx \in Index /\ avail_idx \in Index
         /\ used.ring \in [Desc -> Desc] /\ used.idx \in Index /\ last_used_idx \in Index
         /\ device.avail_idx \in Index /\ device.held \subseteq Desc
         /\ head \in Desc /\ outstanding \in [Desc -> Requests \cup {None}]
BY DEF IInv, TypeOK

\* A chain whose descriptors a step leaves alone.
LEMMA TableKept ==
  ASSUME TableInv, NEW h \in Desc, chain'[h] = chain[h],
         \A i \in 1 .. Len(chain[h]) : /\ desc'[chain[h][i]] = desc[chain[h][i]]
                                       /\ desc_shadow'[chain[h][i]] = desc_shadow[chain[h][i]],
         \A r \in Requests : Belongs(h, r)' => Belongs(h, r) \/ Len(chain[h]) = 0
  PROVE  (Mirrored(h) /\ Directed(h))'
<1>1. Mirrored(h) /\ Directed(h)
  BY Zenon DEF TableInv
<1>2. Mirrored(h)'
  BY <1>1, SMTT(30), SMTT(60) DEF Mirrored
<1>3. ASSUME NEW r \in Requests, Belongs(h, r)', ~UsesList(r), NEW i \in 1 .. Len(chain[h])
      PROVE  "WRITE" \in desc_shadow'[chain[h][i]].flags <=> IsWrite(r, i)
  <2>1. Len(chain[h]) # 0
    BY <1>3
  <2>2. Belongs(h, r)
    BY <1>3, <2>1, Zenon
  <2> QED BY <1>1, <1>3, <2>2, Zenon DEF Directed
<1>4. Directed(h)'
  BY <1>3, Zenon DEF Directed, UsesList, N, IsWrite, Bufs
<1> QED BY <1>2, <1>4, Zenon

\* The steps that write neither table nor a chain.
LEMMA TableQuiet ==
  ASSUME IInv, TableInv,
         \/ \E r \in Requests : AddBegin(r)
         \/ AddRing \/ AddPublish \/ Notify
         \/ \E t \in Desc : PopBegin(t)
         \/ Sleep \/ Wake \/ \E enable \in BOOLEAN : SetDevNotify(enable)
         \/ Device \/ UNCHANGED vars
  PROVE  TableInv'
<1> DEFINE tables == <<desc, desc_shadow, chain>>
<1>1. ASSUME UNCHANGED tables,
             \A h \in Desc : \A r \in Requests :
               Belongs(h, r)' => Belongs(h, r) \/ Len(chain[h]) = 0
      PROVE  TableInv'
  <2>1. \A h \in Desc : (Mirrored(h) /\ Directed(h))'
    BY <1>1, TableKept, Zenon
  <2> QED BY <2>1, Zenon DEF TableInv
<1>2. ASSUME UNCHANGED tables, UNCHANGED outstanding, ~Unpublished' PROVE TableInv'
  BY <1>1, <1>2 DEF Belongs
<1>3. ASSUME NEW q \in Requests, AddBegin(q) PROVE TableInv'
  <2>1. UNCHANGED tables /\ UNCHANGED outstanding /\ ~Unpublished
    BY <1>3, SMTT(30), SMTT(60) DEF AddBegin, fields, history, Unpublished
  <2>2. pc' \in {"add_direct", "add_indirect"} /\ k' = 0
    BY <1>3 DEF AddBegin, Goto
  <2>3. IInv'
    BY <1>3, AddBeginInv
  <2>4. Len(chain'[head']) = 0
    <3>1. CASE pc' = "add_direct"
      <4>1. Len(chain'[head']) = k'
        BY <2>3, <3>1, ZenonT(30) DEF IInv, AddInv
      <4> QED BY <2>2, <4>1, Zenon
    <3>2. CASE pc' = "add_indirect"
      <4>1. outstanding'[head'] = None /\ head' \in Desc
        BY <2>3, <3>2, ZenonT(30) DEF IInv, AddInv, TypeOK
      <4>2. chain'[head'] = <<>>
        BY <2>3, <3>2, <4>1, Zenon DEF IInv, ChainInv, Adding
      <4> QED BY <4>2, SMTT(30)
    <3> QED BY <2>2, <3>1, <3>2, Zenon
  <2>5. \A h \in Desc : \A r \in Requests :
          Belongs(h, r)' => Belongs(h, r) \/ Len(chain[h]) = 0
    BY <2>1, <2>4 DEF Belongs
  <2> QED BY <1>1, <2>1, <2>5, Zenon
<1>4. CASE AddRing
  <2>1. UNCHANGED tables /\ UNCHANGED <<outstanding, head, cur>> /\ Unpublished
    BY <1>4 DEF AddRing, fields, history, Unpublished
  <2> QED BY <1>1, <2>1 DEF Belongs
<1>5. CASE AddPublish
  <2>1. /\ UNCHANGED tables /\ UNCHANGED <<head, cur>> /\ Unpublished /\ ~Unpublished'
        /\ outstanding' = [outstanding EXCEPT ![head] = cur]
    BY <1>5, SMTT(30), SMTT(60) DEF AddPublish, history, Unpublished, Goto
  <2>2. outstanding \in [Desc -> Requests \cup {None}] /\ head \in Desc
    BY RingTypes
  <2> QED BY <1>1, <2>1, <2>2 DEF Belongs
<1>6. CASE Notify
  <2>1. UNCHANGED tables /\ UNCHANGED outstanding /\ ~Unpublished'
    BY <1>6 DEF Notify, Return, fields, history, Unpublished
  <2> QED BY <1>2, <2>1, SMTT(30), SMTT(60)
<1>7. ASSUME NEW t \in Desc, PopBegin(t) PROVE TableInv'
  <2>1. UNCHANGED tables /\ UNCHANGED outstanding /\ ~Unpublished'
    BY <1>7, ZenonT(40) DEF PopBegin, Goto, history, Unpublished
  <2> QED BY <1>2, <2>1, Zenon
<1>8. CASE Sleep \/ Wake
  <2>1. UNCHANGED tables /\ UNCHANGED outstanding /\ ~Unpublished'
    BY <1>8 DEF Sleep, Wake, Goto, fields, history, Unpublished
  <2> QED BY <1>2, <2>1
<1>9. ASSUME NEW enable \in BOOLEAN, SetDevNotify(enable) PROVE TableInv'
  <2>1. UNCHANGED tables /\ UNCHANGED outstanding /\ ~Unpublished'
    BY <1>9 DEF SetDevNotify, fields, call, history, Unpublished
  <2> QED BY <1>2, <2>1
<1>10. CASE Device \/ UNCHANGED vars
  <2>1. UNCHANGED tables /\ UNCHANGED <<outstanding, head, cur, pc>>
    <3>1. Device => UNCHANGED driverVars
      BY Zenon DEF Device, DeviceTake, DeviceUse, DeviceSuppress, DeviceArm, DeviceCheck,
                   DeviceWake
    <3>2. UNCHANGED driverVars => UNCHANGED tables /\ UNCHANGED <<outstanding, head, cur, pc>>
      BY DEF driverVars, fields, call, history
    <3>3. UNCHANGED vars => UNCHANGED tables /\ UNCHANGED <<outstanding, head, cur, pc>>
      BY Zenon DEF vars, fields, call, history
    <3> QED BY <1>10, <3>1, <3>2, <3>3, Zenon
  <2> QED BY <1>1, <2>1 DEF Belongs, Unpublished
<1> QED BY <1>3, <1>4, <1>5, <1>6, <1>7, <1>8, <1>9, <1>10, Zenon

\* A step that writes the same descriptor in both tables, in the chain of one head.
LEMMA TableWritten ==
  ASSUME IInv, TableInv, NEW h \in Desc, NEW x \in Desc, NEW v,
         \A g \in Desc : g # h => \A i \in 1 .. Len(chain[g]) : chain[g][i] # x,
         desc' = [desc EXCEPT ![x] = v], desc_shadow' = [desc_shadow EXCEPT ![x] = v],
         \A g \in Desc : g # h => chain'[g] = chain[g],
         \A g \in Desc : g # h => \A r \in Requests : Belongs(g, r)' => Belongs(g, r),
         (Mirrored(h) /\ Directed(h))'
  PROVE  TableInv'
<1>1. desc \in [Desc -> Descriptor] /\ desc_shadow \in [Desc -> Descriptor]
  BY ZenonT(30) DEF IInv, TypeOK
<1>2. \A y \in Desc : y # x => desc'[y] = desc[y] /\ desc_shadow'[y] = desc_shadow[y]
  BY <1>1, ZenonT(30)
<1>3. ASSUME NEW g \in Desc, g # h PROVE (Mirrored(g) /\ Directed(g))'
  <2>1. \A i \in 1 .. Len(chain[g]) : chain[g][i] \in Desc /\ chain[g][i] # x
    BY <1>3, InUse, ZenonT(30)
  <2>2. \A i \in 1 .. Len(chain[g]) : /\ desc'[chain[g][i]] = desc[chain[g][i]]
                                      /\ desc_shadow'[chain[g][i]] = desc_shadow[chain[g][i]]
    BY <1>2, <2>1, ZenonT(30)
  <2>3. chain'[g] = chain[g] /\ \A r \in Requests : Belongs(g, r)' => Belongs(g, r)
    BY <1>3
  <2> QED BY <2>2, <2>3, TableKept, ZenonT(30)
<1> QED BY <1>3, ZenonT(30) DEF TableInv

\* One more descriptor for the chain that add_direct builds.
LEMMA TableAddDirect ==
  ASSUME IInv, TableInv, AddDirect
  PROVE  TableInv'
<1> DEFINE d == SetBuf(desc_shadow[free_head], Bufs(cur)[k + 1], IsWrite(cur, k + 1), {"NEXT"})
<1>1. /\ pc = "add_direct" /\ cur \in Requests /\ head \in Desc /\ k \in Nat
      /\ outstanding[head] = None /\ Len(chain[head]) = k /\ k < N(cur)
      /\ Len(free) >= N(cur) - k /\ Len(free) \in Nat /\ N(cur) \in Nat
  <2>1. N(cur) \in 1 .. SIZE
    BY Building, Zenon
  <2>2. N(cur) \in Nat
    BY <2>1, SizeAssumption
  <2> QED BY <2>2, Building, Zenon
<1>2. /\ chain' = [chain EXCEPT ![head] = Append(chain[head], free_head)]
      /\ desc_shadow' = [desc_shadow EXCEPT ![free_head] = d]
      /\ desc' = [desc EXCEPT ![free_head] = d]
      /\ UNCHANGED <<pc, cur, head, outstanding>>
  BY Zenon DEF AddDirect
<1>3. free_head \in Desc /\ \A g \in Desc : \A i \in 1 .. Len(chain[g]) : chain[g][i] # free_head
  <2>1. Len(free) > 0
    BY <1>1, SMTT(30), SMTT(60)
  <2> QED BY <1>1, <2>1, FirstFree, Zenon
<1>4. "WRITE" \in d.flags <=> IsWrite(cur, k + 1)
  <2>1. d.flags = {"NEXT"} \cup (IF IsWrite(cur, k + 1) THEN {"WRITE"} ELSE {})
    BY Zenon DEF SetBuf
  <2> QED BY <2>1, Zenon
<1> HIDE DEF d
<1>5. /\ desc \in [Desc -> Descriptor] /\ desc_shadow \in [Desc -> Descriptor]
      /\ chain \in [Desc -> Seq(Desc)]
  BY DEF IInv, TypeOK
<1>6. /\ desc'[free_head] = d /\ desc_shadow'[free_head] = d
      /\ \A y \in Desc : y # free_head => desc'[y] = desc[y] /\ desc_shadow'[y] = desc_shadow[y]
      /\ \A g \in Desc : g # head => chain'[g] = chain[g]
  BY <1>2, <1>3, <1>5, Zenon
<1>7. /\ Len(chain'[head]) = k + 1 /\ chain'[head][k + 1] = free_head
      /\ \A i \in 1 .. k : chain'[head][i] = chain[head][i]
  <2>1. chain'[head] = Append(chain[head], free_head) /\ chain[head] \in Seq(Desc)
    BY <1>1, <1>2, <1>5, Zenon
  <2>2. Len(chain[head]) = k /\ free_head \in Desc
    BY <1>1, <1>3, Zenon
  <2>3. /\ Len(Append(chain[head], free_head)) = Len(chain[head]) + 1
        /\ \A i \in 1 .. Len(chain[head]) : Append(chain[head], free_head)[i] = chain[head][i]
        /\ Append(chain[head], free_head)[Len(chain[head]) + 1] = free_head
    BY <2>1, <2>2, AppendFacts, Zenon
  <2> QED BY <2>1, <2>2, <2>3, Zenon
<1>8. \A i \in 1 .. k : chain[head][i] \in Desc /\ chain[head][i] # free_head
  BY <1>1, <1>3, InUse, Zenon
<1>9. \A g \in Desc : \A r \in Requests : Belongs(g, r)' => Belongs(g, r)
  BY <1>2 DEF Belongs, Unpublished
<1>10. Mirrored(head) /\ Directed(head)
  BY <1>1 DEF TableInv
<1>11. \A i \in 1 .. k + 1 : i \in 1 .. k \/ i = k + 1
  BY <1>1, SMTT(30)
<1>12. \A i \in 1 .. k : /\ desc'[chain'[head][i]] = desc[chain[head][i]]
                         /\ desc_shadow'[chain'[head][i]] = desc_shadow[chain[head][i]]
  BY <1>6, <1>7, <1>8, Zenon
<1>13. Mirrored(head)'
  <2>1. \A i \in 1 .. k : desc[chain[head][i]] = desc_shadow[chain[head][i]]
    BY <1>1, <1>10, Zenon DEF Mirrored
  <2>2. \A i \in 1 .. k + 1 : desc'[chain'[head][i]] = desc_shadow'[chain'[head][i]]
    BY <1>6, <1>7, <1>11, <1>12, <2>1, SMTT(30), SMTT(60)
  <2> QED BY <1>2, <1>7, <2>2, Zenon DEF Mirrored
<1>14. Directed(head)'
  <2> SUFFICES ASSUME NEW r \in Requests, Belongs(head, r), ~UsesList(r), NEW i \in 1 .. k + 1
               PROVE  "WRITE" \in desc_shadow'[chain'[head][i]].flags <=> IsWrite(r, i)
    BY <1>2, <1>7, <1>9, ZenonT(30) DEF Directed, UsesList, N, IsWrite, Bufs, Belongs, Unpublished
  <2>1. r = cur
    BY <1>1, ConstantAssumption DEF Belongs
  <2>2. CASE i \in 1 .. k
    <3>1. "WRITE" \in desc_shadow[chain[head][i]].flags <=> IsWrite(r, i)
      BY <1>1, <1>10, <2>2, ZenonT(30) DEF Directed
    <3> QED BY <1>12, <2>2, <3>1, Zenon
  <2>3. CASE i = k + 1
    BY <1>4, <1>6, <1>7, <2>1, <2>3, Zenon
  <2> QED BY <1>11, <2>2, <2>3, Zenon
<1> QED BY <1>1, <1>2, <1>3, <1>6, <1>9, <1>13, <1>14, TableWritten, Zenon

\* A step that rewrites a descriptor of a chain in both tables and keeps WRITE.
LEMMA TableRewrite ==
  ASSUME IInv, TableInv, NEW h \in Desc, NEW j \in 1 .. Len(chain[h]), NEW v,
         desc' = [desc EXCEPT ![chain[h][j]] = v],
         desc_shadow' = [desc_shadow EXCEPT ![chain[h][j]] = v],
         "WRITE" \in v.flags <=> "WRITE" \in desc_shadow[chain[h][j]].flags,
         UNCHANGED chain,
         \A g \in Desc : \A r \in Requests : Belongs(g, r)' => Belongs(g, r)
  PROVE  TableInv'
<1>1. /\ desc \in [Desc -> Descriptor] /\ desc_shadow \in [Desc -> Descriptor]
      /\ \A i \in 1 .. Len(chain[h]) : chain[h][i] \in Desc
      /\ \A g \in Desc : g # h => \A i \in 1 .. Len(chain[g]) : chain[g][i] # chain[h][j]
  <2>1. desc \in [Desc -> Descriptor] /\ desc_shadow \in [Desc -> Descriptor]
    BY Zenon DEF IInv, TypeOK
  <2>2. \A i \in 1 .. Len(chain[h]) : chain[h][i] \in Desc
    BY InUse, Zenon
  <2>3. \A g \in Desc : g # h => \A i \in 1 .. Len(chain[g]) : chain[g][i] # chain[h][j]
    BY InUse, Zenon
  <2> QED BY <2>1, <2>2, <2>3, Zenon
<1> DEFINE x == chain[h][j]
<1>2. /\ desc'[x] = v /\ desc_shadow'[x] = v /\ x \in Desc
      /\ \A y \in Desc : y # x => desc'[y] = desc[y] /\ desc_shadow'[y] = desc_shadow[y]
  BY <1>1, ZenonT(30)
<1>3. "WRITE" \in v.flags <=> "WRITE" \in desc_shadow[x].flags
  BY Zenon
<1>4. Mirrored(h) /\ Directed(h)
  BY Zenon DEF TableInv
<1> HIDE DEF x
<1>5. \A i \in 1 .. Len(chain[h]) : desc'[chain[h][i]] = desc_shadow'[chain[h][i]]
  BY <1>1, <1>2, <1>4, Zenon DEF Mirrored
<1>6. Mirrored(h)'
  BY <1>5, Zenon DEF Mirrored
<1>7. \A i \in 1 .. Len(chain[h]) :
        "WRITE" \in desc_shadow'[chain[h][i]].flags <=> "WRITE" \in desc_shadow[chain[h][i]].flags
  BY <1>1, <1>2, <1>3, ZenonT(40)
<1>8. Directed(h)'
  <2> SUFFICES ASSUME NEW r \in Requests, Belongs(h, r), ~UsesList(r), NEW i \in 1 .. Len(chain[h])
               PROVE  "WRITE" \in desc_shadow'[chain[h][i]].flags <=> IsWrite(r, i)
    BY Zenon DEF Directed, UsesList, N, IsWrite, Bufs
  <2> QED BY <1>4, <1>7, Zenon DEF Directed
<1> QED BY <1>1, <1>2, <1>6, <1>8, TableWritten, Zenon DEF x

\* add_direct ends the chain, recycle_descriptors unsets the descriptor it is at.
LEMMA TableRewritten ==
  ASSUME IInv, TableInv, AddDirectEnd \/ Recycle
  PROVE  TableInv'
<1>1. CASE AddDirectEnd
  <2> DEFINE d == [desc_shadow[last] EXCEPT !.flags = @ \ {"NEXT"}]
  <2>1. /\ pc = "add_direct" /\ k = N(cur) /\ pc' = "avail_ring"
        /\ desc' = [desc EXCEPT ![last] = d] /\ desc_shadow' = [desc_shadow EXCEPT ![last] = d]
        /\ UNCHANGED <<chain, head, cur, outstanding>>
    BY <1>1, SMTT(30) DEF AddDirectEnd, N, Goto, history
  <2>2. /\ head \in Desc /\ k \in 1 .. Len(chain[head]) /\ last = chain[head][k] /\ last \in Desc
    BY <2>1 DEF IInv, AddInv, TypeOK
  <2>3. "WRITE" \in d.flags <=> "WRITE" \in desc_shadow[last].flags
    <3>1. desc_shadow[last] \in Descriptor
      BY <2>2, SMTT(30), SMTT(60) DEF IInv, TypeOK
    <3> QED BY <3>1, SMTT(30), SMTT(60) DEF Descriptor
  <2> HIDE DEF d
  <2>4. \A g \in Desc : \A r \in Requests : Belongs(g, r)' => Belongs(g, r)
    BY <2>1 DEF Belongs, Unpublished
  <2> QED BY <2>1, <2>2, <2>3, <2>4, TableRewrite, Zenon
<1>2. CASE Recycle
  <2> DEFINE d == UnsetBuf(desc_shadow[next])
             recycled == IF DescNext(d) = None THEN Relink(d) ELSE d
  <2>1. pc = "recycle" /\ k < N(cur) /\ UNCHANGED <<chain, head, cur, outstanding>>
    BY <1>2, Zenon DEF Recycle, N, history
  <2>2. next # None
    BY <2>1, UnshareFacts, ZenonT(40) DEF UnshareMatchesShare, N
  <2>3. /\ desc' = [desc EXCEPT ![next] = recycled] /\ pc' = pc
        /\ desc_shadow' = [desc_shadow EXCEPT ![next] = recycled]
    BY <1>2, <2>2, SMTT(30), SMTT(60) DEF Recycle
  <2>4. /\ head \in Desc /\ k + 1 \in 1 .. Len(chain[head]) /\ next = chain[head][k + 1]
        /\ next \in Desc
    <3>0. /\ head \in Desc /\ k \in Nat /\ N(cur) \in 1 .. SIZE
          /\ DirectChain(head, cur)
      BY <2>1, Walking, Zenon
    <3>a. Len(chain[head]) = N(cur)
      BY <3>0, Zenon DEF DirectChain
    <3>b. N(cur) \in Nat
      BY <3>0
    <3>1. head \in Desc /\ k \in Nat /\ Len(chain[head]) = N(cur) /\ N(cur) \in Nat
      BY <3>0, <3>a, <3>b, Zenon
    <3>2. next = chain[head][k + 1]
      BY <2>1, Zenon DEF IInv, RecycleInv
    <3>3. k + 1 \in 1 .. Len(chain[head])
      BY <2>1, <3>1
    <3>4. \A i \in 1 .. Len(chain[head]) : chain[head][i] \in Desc
      BY <3>1, InUse, Zenon
    <3> QED BY <3>1, <3>2, <3>3, <3>4
  <2>5. "WRITE" \in recycled.flags <=> "WRITE" \in desc_shadow[next].flags
    <3>1. desc_shadow[next] \in Descriptor
      BY <2>4, SMTT(30), SMTT(60) DEF IInv, TypeOK
    <3> QED BY <3>1, ZenonT(40) DEF Descriptor, UnsetBuf, Relink
  <2> HIDE DEF recycled
  <2>6. \A g \in Desc : \A r \in Requests : Belongs(g, r)' => Belongs(g, r)
    BY <2>1, <2>3 DEF Belongs, Unpublished
  <2> QED BY <2>1, <2>3, <2>4, <2>5, <2>6, TableRewrite, Zenon
<1> QED BY <1>1, <1>2

\* add_indirect makes the head a chain of its own.
LEMMA TableAddIndirect ==
  ASSUME IInv, TableInv, AddIndirect
  PROVE  TableInv'
<1> DEFINE d == SetBuf(desc_shadow[head], ListAddr, FALSE, {"INDIRECT"})
<1>1. /\ pc = "add_indirect" /\ head \in Desc /\ head = free_head /\ UsesList(cur)
      /\ outstanding[head] = None /\ Len(free) > 0
  <2>1. pc = "add_indirect"
    BY Zenon DEF AddIndirect
  <2>2. /\ UsesList(cur) /\ k = 0 /\ head = free_head /\ outstanding[head] = None
        /\ N(cur) \in 1 .. SIZE /\ (Len(free) > 0 \/ k = N(cur))
    BY <2>1, Zenon DEF IInv, AddInv
  <2>3. head \in Desc
    BY Zenon DEF IInv, TypeOK
  <2> QED BY <2>1, <2>2, <2>3, SizeAssumption, SMTT(30)
<1>2. \A g \in Desc : \A i \in 1 .. Len(chain[g]) : chain[g][i] # head
  BY <1>1, FirstFree, ZenonT(30)
<1>3. UNCHANGED <<outstanding, head, cur>>
  BY DEF AddIndirect
<1>4. /\ pc' = "avail_ring" /\ chain' = [chain EXCEPT ![head] = <<head>>]
      /\ desc_shadow' = [desc_shadow EXCEPT ![head] = d]
      /\ desc' = [desc EXCEPT ![head] = d]
  <2>1. NoPanic'
    BY AddIndirectInv, SMTT(30) DEF IInv
  <2> QED BY <2>1, Zenon DEF AddIndirect, Goto, NoPanic
<1> HIDE DEF d
<1>5. /\ desc \in [Desc -> Descriptor] /\ desc_shadow \in [Desc -> Descriptor]
      /\ chain \in [Desc -> Seq(Desc)]
  BY DEF IInv, TypeOK
<1>6. /\ desc'[head] = d /\ desc_shadow'[head] = d /\ chain'[head] = <<head>>
      /\ \A g \in Desc : g # head => chain'[g] = chain[g]
  BY <1>1, <1>4, <1>5, Zenon
<1>7. Mirrored(head)'
  BY <1>3, <1>6, SMTT(30) DEF Mirrored
<1>8. Directed(head)'
  <2>1. \A r \in Requests : Belongs(head, r)' => r = cur
    BY <1>1, <1>3, ConstantAssumption DEF Belongs
  <2> QED BY <1>1, <2>1, Zenon DEF Directed, UsesList, N, Bufs
<1>9. \A g \in Desc : g # head => \A r \in Requests : Belongs(g, r)' => Belongs(g, r)
  BY <1>3 DEF Belongs
<1> QED BY <1>1, <1>2, <1>3, <1>4, <1>6, <1>7, <1>8, <1>9, TableWritten, ZenonT(30)

\* pop_used gives the chain of its token back.
LEMMA TablePop ==
  ASSUME IInv, TableInv, RecycleEnd \/ RecycleIndirect
  PROVE  TableInv'
<1>1. pc \in {"recycle", "recycle_indirect"} /\ head \in Desc /\ UNCHANGED desc
  BY Zenon DEF RecycleEnd, RecycleIndirect, IInv, TypeOK
<1>2. NoPanic'
  BY RecycleEndInv, RecycleIndirectInv DEF IInv
<1>3. PopEnd /\ (desc_shadow' = desc_shadow \/ (/\ pc = "recycle_indirect"
        /\ desc_shadow' = [desc_shadow EXCEPT ![head] = Relink(UnsetBuf(desc_shadow[head]))]))
  <2>1. RecycleEnd => (pc' = "panic" \/ PopEnd) /\ UNCHANGED desc_shadow
    BY DEF RecycleEnd, Goto
  <2>2. RecycleIndirect => \/ pc' = "panic"
                           \/ /\ PopEnd /\ pc = "recycle_indirect"
                              /\ desc_shadow' = [desc_shadow EXCEPT ![head] =
                                                   Relink(UnsetBuf(desc_shadow[head]))]
    BY Zenon DEF RecycleIndirect, Goto
  <2> QED BY <1>2, <2>1, <2>2, Zenon DEF NoPanic
<1>4. /\ pc' = "idle" /\ outstanding' = [outstanding EXCEPT ![head] = None]
      /\ chain' = [chain EXCEPT ![head] = <<>>]
  BY <1>3, Zenon DEF PopEnd, Return
<1>5. /\ desc_shadow \in [Desc -> Descriptor] /\ chain \in [Desc -> Seq(Desc)]
      /\ outstanding \in [Desc -> Requests \cup {None}]
  BY DEF IInv, TypeOK
<1>6. /\ chain'[head] = <<>>
      /\ \A g \in Desc : g # head => chain'[g] = chain[g] /\ outstanding'[g] = outstanding[g]
  BY <1>1, <1>4, <1>5, SMTT(30)
<1>7. \A y \in Desc : y # head \/ pc = "recycle" => desc_shadow'[y] = desc_shadow[y]
  BY <1>3, <1>5, Zenon
<1>8. \A h : h = head => (Mirrored(h) /\ Directed(h))'
  <2> SUFFICES ASSUME NEW h, h = head PROVE (Mirrored(h) /\ Directed(h))'
    OBVIOUS
  <2>1. 1 .. Len(chain'[h]) = {}
    BY <1>6
  <2> QED BY <2>1 DEF Mirrored, Directed
<1>9. ASSUME NEW g \in Desc, g # head PROVE (Mirrored(g) /\ Directed(g))'
  <2>1. \A i \in 1 .. Len(chain[g]) : desc_shadow'[chain[g][i]] = desc_shadow[chain[g][i]]
    <3>1. \A i \in 1 .. Len(chain[g]) : chain[g][i] \in Desc
      BY InUse, Zenon
    <3>2. CASE pc = "recycle"
      BY <1>7, <3>1, <3>2, Zenon
    <3>3. CASE pc = "recycle_indirect"
      <4>1. chain[head] = <<head>>
        <5>1. cur \in Requests /\ outstanding[head] = cur /\ cur # None /\ UsesList(cur)
          BY <3>3, ConstantAssumption, Zenon DEF IInv, RecycleInv
        <5>2. ChainOf(head, cur)
          BY <1>1, <5>1, ZenonT(40) DEF IInv, ChainInv
        <5> QED BY <5>1, <5>2, Zenon DEF ChainOf, DirectChain, ListChain
      <4>2. 1 \in 1 .. Len(chain[head]) /\ chain[head][1] = head
        BY <4>1
      <4>3. \A i \in 1 .. Len(chain[g]) : chain[g][i] # head
        BY <1>1, <1>9, <4>2, InUse, Zenon
      <4> QED BY <1>7, <3>1, <4>3, Zenon
    <3> QED BY <1>1, <3>2, <3>3
  <2>2. \A r \in Requests : Belongs(g, r)' => Belongs(g, r)
    BY <1>4, <1>6, <1>9, ZenonT(40) DEF Belongs, Unpublished
  <2>3. \A i \in 1 .. Len(chain[g]) : desc'[chain[g][i]] = desc[chain[g][i]]
    BY <1>1
  <2> QED BY <1>6, <1>9, <2>1, <2>2, <2>3, TableKept, Zenon
<1> QED BY <1>8, <1>9, Zenon DEF TableInv

LEMMA TableNext == IInv /\ TableInv /\ [Next]_vars => TableInv'
BY TableQuiet, TableAddDirect, TableRewritten, TableAddIndirect, TablePop, Zenon DEF Next, Driver

\* The descriptors of every chain are in shared memory what they are in the
\* driver's shadow, and the device may write exactly to the output buffers.
THEOREM TablesMirrored == Spec => []TableInv
<1>1. Init => TableInv
  <2> SUFFICES ASSUME Init PROVE TableInv
    OBVIOUS
  <2>1. chain = [h \in Desc |-> <<>>]
    BY Zenon DEF Init
  <2>2. 1 .. Len(<<>>) = {}
    OBVIOUS
  <2>3. \A h \in Desc : 1 .. Len(chain[h]) = {}
    BY <2>1, <2>2, Zenon
  <2> QED BY <2>3, Zenon DEF TableInv, Mirrored, Directed
<1> QED BY <1>1, TableNext, Invariance, PTL DEF Spec
=============================================================================
