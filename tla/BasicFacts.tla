--------------------------------- MODULE BasicFacts ---------------------------------
(***************************************************************************)
(* Facts about numbers and sequences on which the proofs rest: induction   *)
(* and recursion (folds, sums, retain, the walk along a chain), counting,  *)
(* remainders, and what the operations on sequences do to their elements.  *)
(***************************************************************************)
EXTENDS Integers, Sequences, Functions, WellFoundedInduction, TLAPS

-----------------------------------------------------------------------------
(***************************************************************************)
(* Induction over numbers, stated with sets in place of predicates: each   *)
(* principle follows from the fact that the numbers are well-founded.      *)
(***************************************************************************)

\* A non-empty set of natural numbers has a least element.
LEMMA SmallestOf ==
  ASSUME NEW S, S \subseteq Nat, S # {}
  PROVE  \E m \in S : \A n \in S : m <= n
<1> DEFINE Less == {p \in Nat \X Nat : p[1] < p[2]}
<1>1. IsWellFoundedOn(Less, Nat)
  BY NatLessThanWellFounded, Zenon DEF OpToRel
<1> HIDE DEF Less
<1>2. PICK m \in S : \A n \in S : <<n, m>> \notin Less
  BY <1>1, WFMin, Zenon
<1>3. ASSUME NEW n \in S PROVE m <= n
  <2>1. n \in Nat /\ m \in Nat
    OBVIOUS
  <2>2. n < m => <<n, m>> \in Less
    BY <2>1 DEF Less
  <2> QED BY <1>2, <2>1, <2>2
<1> QED BY <1>3

\* A set of numbers with 0 and with the successor of each of its members
\* below n has all the numbers up to n.
LEMMA NatInductionUpTo ==
  ASSUME NEW n \in Nat, NEW G, 0 \in G, \A i \in 0 .. n - 1 : i \in G => i + 1 \in G
  PROVE  \A i \in 0 .. n : i \in G
<1> DEFINE Bad == {i \in 0 .. n : i \notin G}
<1> SUFFICES ASSUME Bad # {} PROVE FALSE
  OBVIOUS
<1>0. Bad \subseteq Nat
  OBVIOUS
<1> HIDE DEF Bad
<1>1. PICK m \in Bad : \A i \in Bad : m <= i
  BY <1>0, SmallestOf, Zenon
<1>2. m # 0 /\ m - 1 \in 0 .. n - 1 /\ m - 1 \in 0 .. n /\ ~(m <= m - 1) /\ (m - 1) + 1 = m
  BY DEF Bad
<1>3. m - 1 \in G
  BY <1>1, <1>2 DEF Bad
<1> QED BY <1>2, <1>3 DEF Bad

-----------------------------------------------------------------------------
(***************************************************************************)
(* Recursive definitions: the function that the CHOOSE of a recursive      *)
(* function definition, or of a fold, stands for exists.                   *)
(***************************************************************************)

\* Recursion from the predecessor.
IsNatRecursion(g, n, V, base, step) ==
  /\ g \in [0 .. n -> V]
  /\ g[0] = base
  /\ \A i \in 1 .. n : g[i] = step[i][g[i - 1]]

LEMMA NatRecursion ==
  ASSUME NEW n \in Nat, NEW V, NEW base \in V, NEW step \in [1 .. n -> [V -> V]]
  PROVE  \E g : IsNatRecursion(g, n, V, base, step)
<1> DEFINE Solves(g, m) ==
             g[0] = base /\ \A i \in 1 .. m : g[i] = step[i][g[i - 1]]
           G == {m \in 0 .. n : \E g \in [0 .. m -> V] : Solves(g, m)}
<1>1. 0 \in G
  <2> DEFINE g == [i \in 0 .. 0 |-> base]
  <2>1. g \in [0 .. 0 -> V] /\ Solves(g, 0)
    OBVIOUS
  <2> HIDE DEF g
  <2>2. \E f \in [0 .. 0 -> V] : Solves(f, 0)
    BY <2>1, Zenon
  <2>3. 0 \in 0 .. n
    OBVIOUS
  <2> QED BY <2>2, <2>3
<1>2. ASSUME NEW m \in 0 .. n - 1, m \in G
      PROVE  m + 1 \in G
  <2>1. PICK g \in [0 .. m -> V] : Solves(g, m)
    BY <1>2
  <2> DEFINE h == [i \in 0 .. m + 1 |-> IF i = m + 1 THEN step[m + 1][g[m]] ELSE g[i]]
  <2>2. g[m] \in V /\ m + 1 \in 1 .. n
    OBVIOUS
  <2>3. step[m + 1][g[m]] \in V
    BY <2>2
  <2>4. h \in [0 .. m + 1 -> V]
    BY <2>3
  <2>5. h[0] = base
    BY <2>1
  <2>6. ASSUME NEW i \in 1 .. m + 1
        PROVE  h[i] = step[i][h[i - 1]]
    <3>1. CASE i = m + 1
      <4>1. h[i] = step[m + 1][g[m]] /\ i - 1 = m /\ h[m] = g[m]
        BY <3>1
      <4> HIDE DEF h
      <4> QED BY <3>1, <4>1
    <3>2. CASE i # m + 1
      <4>1. i \in 1 .. m /\ h[i] = g[i] /\ h[i - 1] = g[i - 1]
        BY <3>2
      <4> QED BY <2>1, <4>1
    <3> QED BY <3>1, <3>2
  <2> HIDE DEF h
  <2>7. Solves(h, m + 1)
    BY <2>5, <2>6
  <2> QED BY <2>4, <2>7
<1> HIDE DEF G
<1>3. \A m \in 0 .. n : m \in G
  BY <1>1, <1>2, NatInductionUpTo, Zenon
<1>4. n \in G
  BY <1>3
<1> QED BY <1>4 DEF G, IsNatRecursion

-----------------------------------------------------------------------------
(***************************************************************************)
(* Counting: what is put in different places needs as many places.         *)
(***************************************************************************)

LEMMA DifferentPlaces ==
  ASSUME NEW n \in Nat, NEW m \in Nat, NEW f,
         \A i \in 1 .. m : f[i] \in 0 .. n - 1,
         \A i, j \in 1 .. m : f[i] = f[j] => i = j
  PROVE  m <= n
<1> DEFINE Places(p, l, g) == /\ \A i \in 1 .. l : g[i] \in 0 .. p - 1
                              /\ \A i, j \in 1 .. l : g[i] = g[j] => i = j
           G == {p \in 0 .. n : \A l \in Nat : \A g : Places(p, l, g) => l <= p}
<1>1. 0 \in G
  <2>1. ASSUME NEW l \in Nat, NEW g, Places(0, l, g), ~(l <= 0) PROVE FALSE
    <3>1. 1 \in 1 .. l
      BY <2>1
    <3>2. g[1] \in 0 .. 0 - 1
      BY <2>1, <3>1
    <3> QED BY <3>2
  <2> QED BY <2>1
<1>2. ASSUME NEW p \in 0 .. n - 1, p \in G
      PROVE  p + 1 \in G
  <2> SUFFICES ASSUME NEW l \in Nat, NEW g, Places(p + 1, l, g), l # 0
               PROVE  l <= p + 1
    OBVIOUS
  <2>1. /\ \A i \in 1 .. l : g[i] \in 0 .. p
        /\ \A i, j \in 1 .. l : g[i] = g[j] => i = j
    BY (p + 1) - 1 = p
  <2> DEFINE h == [i \in 1 .. l - 1 |-> IF g[i] = p THEN g[l] ELSE g[i]]
  <2>2. l \in 1 .. l /\ \A i \in 1 .. l - 1 : i \in 1 .. l /\ i # l
    OBVIOUS
  <2>3. ASSUME NEW i \in 1 .. l - 1 PROVE h[i] \in 0 .. p - 1
    BY <2>1, <2>2
  <2>4. ASSUME NEW i \in 1 .. l - 1, NEW j \in 1 .. l - 1, h[i] = h[j]
        PROVE  i = j
    BY <2>1, <2>2, <2>4
  <2>5. \A i \in 1 .. l - 1 : h[i] \in 0 .. p - 1
    BY <2>3
  <2> HIDE DEF h
  <2>6. Places(p, l - 1, h)
    BY <2>4, <2>5
  <2>7. l - 1 \in Nat
    OBVIOUS
  <2> HIDE DEF Places
  <2>8. l - 1 <= p
    BY <1>2, <2>6, <2>7
  <2> QED BY <2>8
<1> HIDE DEF G
<1>3. \A p \in 0 .. n : p \in G
  BY <1>1, <1>2, NatInductionUpTo, Zenon
<1>4. n \in G
  BY <1>3
<1>5. Places(n, m, f)
  OBVIOUS
<1> HIDE DEF Places
<1> QED BY <1>4, <1>5, Zenon DEF G

-----------------------------------------------------------------------------
(* Remainders *)

LEMMA Quotient ==
  ASSUME NEW m \in Nat, m > 0, NEW x \in Nat
  PROVE  /\ x = m * (x \div m) + (x % m)
         /\ x \div m \in Int /\ x % m \in 0 .. m - 1
<1>1. x = m * (x \div m) + (x % m)
  OBVIOUS
<1>2. x \div m \in Int /\ x % m \in 0 .. m - 1
  OBVIOUS
<1> QED BY <1>1, <1>2

LEMMA Remainder ==
  ASSUME NEW m \in Nat, m > 0, NEW q \in Int, NEW r \in 0 .. m - 1
  PROVE  (m * q + r) % m = r
OBVIOUS

LEMMA Multiple ==
  ASSUME NEW m \in Nat, m > 0, NEW x \in Nat, x % m = 0, NEW y \in Nat
  PROVE  (x + y) % m = y % m
<1>1. PICK p \in Int : x = m * p
  <2>1. x = m * (x \div m) + (x % m) /\ x \div m \in Int
    BY Quotient
  <2>2. m * (x \div m) \in Int
    BY <2>1
  <2>3. x = m * (x \div m)
    BY <2>1, <2>2
  <2> QED BY <2>1, <2>3
<1>2. PICK q \in Int, r \in 0 .. m - 1 : y = m * q + r /\ r = y % m
  BY Quotient, Zenon
<1>3. m * p \in Int /\ m * q \in Int
  OBVIOUS
<1>4. x + y = m * p + m * q + r
  BY <1>1, <1>2, <1>3
<1>5. m * (p + q) = m * p + m * q
  OBVIOUS
<1>6. (m * (p + q) + r) % m = r
  BY Remainder
<1> QED BY <1>2, <1>3, <1>4, <1>5, <1>6

LEMMA Apart ==
  ASSUME NEW m \in Nat, m > 0, NEW x \in Nat, NEW d \in 1 .. m - 1
  PROVE  (x + d) % m # x % m
<1> SUFFICES ASSUME (x + d) % m = x % m PROVE FALSE
  OBVIOUS
<1>1. PICK p \in Int, r \in 0 .. m - 1 : x = m * p + r /\ r = x % m
  BY Quotient, Zenon
<1>2. PICK q \in Int : x + d = m * q + r
  <2>1. x + d \in Nat
    OBVIOUS
  <2> QED BY <1>1, <2>1, Quotient
<1>3. m * p \in Int /\ m * q \in Int /\ m * q - m * p = d
  BY <1>1, <1>2
<1>4. m * (q - p) = d /\ q - p \in Int
  BY <1>3
<1>5. CASE q - p <= 0
  <2>1. m * (q - p) <= 0
    BY <1>5
  <2> QED BY <1>4, <2>1
<1>6. CASE q - p >= 1
  <2>1. m * (q - p) >= m
    BY <1>6
  <2> QED BY <1>4, <2>1
<1> QED BY <1>4, <1>5, <1>6

LEMMA Wrapped ==
  ASSUME NEW m \in Nat, m > 0, NEW t \in 0 .. m - 1, NEW f \in 0 .. m - 1
  PROVE  /\ (t - f) % m = IF t >= f THEN t - f ELSE t - f + m
         /\ (f + 1) % m = IF f + 1 = m THEN 0 ELSE f + 1
<1>1. (t - f) % m = IF t >= f THEN t - f ELSE t - f + m
  OBVIOUS
<1>2. (f + 1) % m = IF f + 1 = m THEN 0 ELSE f + 1
  OBVIOUS
<1> QED BY <1>1, <1>2

-----------------------------------------------------------------------------
(* The elements of a sequence, and what appending and concatenation do to them *)

LEMMA SequenceFacts ==
  ASSUME NEW S, NEW s \in Seq(S)
  PROVE  /\ DOMAIN s = 1 .. Len(s) /\ Len(s) \in Nat
         /\ \A i \in 1 .. Len(s) : s[i] \in Range(s) /\ s[i] \in S
         /\ \A d \in Range(s) : \E i \in 1 .. Len(s) : d = s[i]
BY DEF Range

LEMMA AppendingFacts ==
  ASSUME NEW S, NEW s \in Seq(S), NEW d \in S
  PROVE  /\ Append(s, d) \in Seq(S) /\ Len(Append(s, d)) = Len(s) + 1
         /\ \A i \in 1 .. Len(s) : Append(s, d)[i] = s[i]
         /\ Append(s, d)[Len(s) + 1] = d
         /\ Range(Append(s, d)) = Range(s) \cup {d}
         /\ IsInjective(s) /\ d \notin Range(s) => IsInjective(Append(s, d))
<1> DEFINE t == Append(s, d)
<1>1. /\ t \in Seq(S) /\ Len(t) = Len(s) + 1 /\ Len(s) \in Nat
      /\ \A i \in 1 .. Len(s) : t[i] = s[i]
      /\ t[Len(s) + 1] = d
  OBVIOUS
<1> HIDE DEF t
<1>2. \A i \in 1 .. Len(t) : i \in 1 .. Len(s) \/ i = Len(s) + 1
  BY <1>1
<1>3. Range(t) = Range(s) \cup {d}
  <2>1. \A i \in 1 .. Len(t) : t[i] \in Range(s) \cup {d}
    BY <1>1, <1>2, SequenceFacts
  <2>2. \A i \in 1 .. Len(s) : s[i] \in Range(t)
    BY <1>1, SequenceFacts
  <2>3. d \in Range(t)
    BY <1>1, SequenceFacts
  <2> QED BY <2>1, <2>2, <2>3, <1>1, SequenceFacts
<1>4. ASSUME IsInjective(s), d \notin Range(s) PROVE IsInjective(t)
  <2>1. \A i, j \in 1 .. Len(s) : s[i] = s[j] => i = j
    BY <1>4 DEF IsInjective
  <2>2. \A i \in 1 .. Len(s) : t[i] # d
    BY <1>1, <1>4, SequenceFacts
  <2>3. \A i, j \in 1 .. Len(t) : t[i] = t[j] => i = j
    BY <1>1, <1>2, <2>1, <2>2
  <2> QED BY <1>1, <2>3, SequenceFacts DEF IsInjective
<1> QED BY <1>1, <1>3, <1>4 DEF t

LEMMA ConcatenationFacts ==
  ASSUME NEW S, NEW s \in Seq(S), NEW t \in Seq(S)
  PROVE  /\ s \o t \in Seq(S) /\ Len(s \o t) = Len(s) + Len(t)
         /\ \A i \in 1 .. Len(s) : (s \o t)[i] = s[i]
         /\ \A i \in 1 .. Len(t) : (s \o t)[Len(s) + i] = t[i]
         /\ Range(s \o t) = Range(s) \cup Range(t)
         /\ IsInjective(s) /\ IsInjective(t) /\ Range(s) \cap Range(t) = {}
              => IsInjective(s \o t)
<1> DEFINE u == s \o t
<1>1. /\ u \in Seq(S) /\ Len(u) = Len(s) + Len(t) /\ Len(s) \in Nat /\ Len(t) \in Nat
      /\ \A i \in 1 .. Len(s) : u[i] = s[i]
      /\ \A i \in 1 .. Len(t) : u[Len(s) + i] = t[i]
  OBVIOUS
<1> HIDE DEF u
<1>2. \A i \in 1 .. Len(u) :
        \/ i \in 1 .. Len(s) /\ u[i] = s[i]
        \/ \E j \in 1 .. Len(t) : i = Len(s) + j /\ u[i] = t[j]
  <2> TAKE i \in 1 .. Len(u)
  <2>1. CASE i > Len(s)
    <3>1. i - Len(s) \in 1 .. Len(t) /\ i = Len(s) + (i - Len(s))
      BY <1>1, <2>1
    <3> QED BY <3>1, <1>1
  <2>2. CASE i <= Len(s)
    BY <1>1, <2>2
  <2> QED BY <2>1, <2>2, <1>1
<1>3. Range(u) = Range(s) \cup Range(t)
  <2>1. \A i \in 1 .. Len(u) : u[i] \in Range(s) \cup Range(t)
    BY <1>2, SequenceFacts
  <2>2. \A i \in 1 .. Len(s) : s[i] \in Range(u)
    BY <1>1, SequenceFacts
  <2>3. \A i \in 1 .. Len(t) : t[i] \in Range(u)
    <3> TAKE i \in 1 .. Len(t)
    <3>1. Len(s) + i \in 1 .. Len(u)
      BY <1>1
    <3> QED BY <3>1, <1>1, SequenceFacts
  <2>4. /\ \A d \in Range(u) : \E i \in 1 .. Len(u) : d = u[i]
        /\ \A d \in Range(s) : \E i \in 1 .. Len(s) : d = s[i]
        /\ \A d \in Range(t) : \E i \in 1 .. Len(t) : d = t[i]
    BY <1>1, SequenceFacts
  <2> QED BY <2>1, <2>2, <2>3, <2>4
<1>4. ASSUME IsInjective(s), IsInjective(t), Range(s) \cap Range(t) = {} PROVE IsInjective(u)
  <2>1. /\ \A i, j \in 1 .. Len(s) : s[i] = s[j] => i = j
        /\ \A i, j \in 1 .. Len(t) : t[i] = t[j] => i = j
    BY <1>4 DEF IsInjective
  <2>2. \A i \in 1 .. Len(s), j \in 1 .. Len(t) : s[i] # t[j]
    BY <1>4, SequenceFacts
  <2>3. \A i, j \in 1 .. Len(u) : u[i] = u[j] => i = j
    <3> SUFFICES ASSUME NEW i \in 1 .. Len(u), NEW j \in 1 .. Len(u), u[i] = u[j] PROVE i = j
      OBVIOUS
    <3>1. CASE i \in 1 .. Len(s) /\ j \in 1 .. Len(s)
      BY <3>1, <1>1, <2>1
    <3>2. CASE i \notin 1 .. Len(s) /\ j \notin 1 .. Len(s)
      BY <3>2, <1>2, <2>1
    <3>3. CASE i \in 1 .. Len(s) /\ j \notin 1 .. Len(s)
      BY <3>3, <1>1, <1>2, <2>2
    <3>4. CASE i \notin 1 .. Len(s) /\ j \in 1 .. Len(s)
      BY <3>4, <1>1, <1>2, <2>2
    <3> QED BY <3>1, <3>2, <3>3, <3>4
  <2> QED BY <1>1, <2>3, SequenceFacts DEF IsInjective
<1> QED BY <1>1, <1>3, <1>4 DEF u
=============================================================================
