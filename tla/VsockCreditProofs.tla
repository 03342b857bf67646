--------------------------- MODULE VsockCreditProofs ---------------------------
(***************************************************************************)
(* The credit of a vsock connection, for every buffer size, modulus, start *)
(* of the counters, number of bytes and of rx buffers: the counters, which *)
(* wrap, account for every byte, and with one sending thread on each side  *)
(* no credit is more than the peer's free space and no byte is lost.       *)
(***************************************************************************)
EXTENDS VsockCredit, BasicFacts, FiniteSetTheorems

-----------------------------------------------------------------------------
(* Induction over the subsets of a finite set *)

\* The subsets of a finite set are well-founded under inclusion.
LEMMA SubsetsWellFounded ==
  ASSUME NEW S, IsFiniteSet(S)
  PROVE  IsWellFoundedOn(StrictSubsetOrdering(S), SUBSET S)
BY FS_StrictSubsetOrderingWellFounded, FS_FiniteSubsetsOfFinite, Zenon

\* A set with every subset of a finite set S whose own proper subsets it has,
\* has every subset of S.
LEMMA SubsetInduction ==
  ASSUME NEW S, IsFiniteSet(S), NEW G,
         \A T \in SUBSET S : (\A U \in SUBSET T : U # T => U \in G) => T \in G
  PROVE  \A T \in SUBSET S : T \in G
<1> DEFINE Bad == {T \in SUBSET S : T \notin G}
<1> SUFFICES ASSUME Bad # {} PROVE FALSE
  OBVIOUS
<1>1. IsWellFoundedOn(StrictSubsetOrdering(S), SUBSET S)
  BY SubsetsWellFounded, Zenon
<1>2. Bad \subseteq SUBSET S
  OBVIOUS
<1> HIDE DEF Bad
<1>3. PICK T \in Bad : \A U \in Bad : <<U, T>> \notin StrictSubsetOrdering(S)
  BY <1>1, <1>2, WFMin
<1>4. T \in SUBSET S /\ T \notin G
  BY DEF Bad
<1>5. ASSUME NEW U \in SUBSET T, U # T PROVE U \in G
  <2>1. <<U, T>> \in StrictSubsetOrdering(S) /\ U \in SUBSET S
    BY <1>4, <1>5 DEF StrictSubsetOrdering
  <2> QED BY <1>3, <2>1 DEF Bad
<1> QED BY <1>4, <1>5

\* Recursion from the set without one of its elements.
IsSetRecursion(g, S, V, base, pick, step) ==
  /\ g \in [SUBSET S -> V]
  /\ \A T \in SUBSET S :
       g[T] = IF T = {} THEN base ELSE step[pick[T]][g[T \ {pick[T]}]]

LEMMA SetRecursion ==
  ASSUME NEW S, IsFiniteSet(S), NEW V, NEW base \in V,
         NEW pick, \A T \in SUBSET S : T # {} => pick[T] \in T,
         NEW step \in [S -> [V -> V]]
  PROVE  \E g : IsSetRecursion(g, S, V, base, pick, step)
<1> DEFINE Upto(m) == {T \in SUBSET S : Cardinality(T) <= m}
           Value(g, T) == IF T = {} THEN base ELSE step[pick[T]][g[T \ {pick[T]}]]
           Solves(g, m) == \A T \in Upto(m) : g[T] = Value(g, T)
           n == Cardinality(S)
           G == {m \in 0 .. n : \E g \in [Upto(m) -> V] : Solves(g, m)}
<1>1. n \in Nat /\ \A T \in SUBSET S : Cardinality(T) \in 0 .. n
  BY FS_CardinalityType, FS_Subset
<1>2. \A T \in SUBSET S : T # {} =>
        /\ T \ {pick[T]} \in SUBSET S
        /\ Cardinality(T \ {pick[T]}) = Cardinality(T) - 1
  BY FS_Subset, FS_RemoveElement
<1>3. \A T \in SUBSET S : Cardinality(T) <= 0 => T = {}
  BY <1>1, FS_Subset, FS_EmptySet
<1>4. 0 \in G
  <2> DEFINE g == [T \in Upto(0) |-> base]
  <2>1. g \in [Upto(0) -> V]
    OBVIOUS
  <2>2. \A T \in Upto(0) : T = {} /\ g[T] = base
    BY <1>3
  <2> HIDE DEF g
  <2>3. Solves(g, 0)
    BY <2>2
  <2>4. \E f \in [Upto(0) -> V] : Solves(f, 0)
    BY <2>1, <2>3, Zenon
  <2>5. 0 \in 0 .. n
    BY <1>1
  <2> QED BY <2>4, <2>5, Zenon
<1>5. ASSUME NEW m \in 0 .. n - 1, m \in G
      PROVE  m + 1 \in G
  <2>1. PICK g \in [Upto(m) -> V] : Solves(g, m)
    BY <1>5, Zenon
  <2> DEFINE h == [T \in Upto(m + 1) |-> Value(g, T)]
  <2>2. ASSUME NEW T \in Upto(m + 1), T # {}
        PROVE  T \ {pick[T]} \in Upto(m)
    BY <1>1, <1>2, <2>2
  <2>3. \A T \in Upto(m + 1) : Value(g, T) \in V
    BY <2>2
  <2>4. h \in [Upto(m + 1) -> V]
    BY <2>3, Zenon
  <2>5. \A T \in Upto(m + 1) : h[T] = Value(g, T)
    OBVIOUS
  <2>6. \A T \in Upto(m) : T \in Upto(m + 1) /\ h[T] = g[T]
    <3>1. \A T \in Upto(m) : T \in Upto(m + 1)
      BY <1>1
    <3> HIDE DEF Upto, Value, h
    <3> QED BY <2>1, <2>5, <3>1
  <2> HIDE DEF h, Upto
  <2>7. \A T \in Upto(m + 1) : Value(g, T) = Value(h, T)
    BY <2>2, <2>6
  <2>8. Solves(h, m + 1)
    BY <2>5, <2>7, Zenon
  <2>9. m + 1 \in 0 .. n
    BY <1>1
  <2> QED BY <2>4, <2>8, <2>9, Zenon
<1> HIDE DEF G
<1>6. \A m \in 0 .. n : m \in G
  BY <1>1, <1>4, <1>5, NatInductionUpTo
<1>7. n \in G
  BY <1>1, <1>6
<1>8. Upto(n) = SUBSET S
  BY <1>1
<1> QED BY <1>7, <1>8, Zenon DEF G, IsSetRecursion

-----------------------------------------------------------------------------
(* Sums *)

\* The function that SumOver recurses with.
IsSum(g, f, S) ==
  g = [T \in SUBSET S |->
         IF T = {} THEN 0
         ELSE f[CHOOSE x \in T : TRUE] + g[T \ {CHOOSE x \in T : TRUE}]]

LEMMA SumDef ==
  ASSUME NEW f, NEW S
  PROVE  SumOver(f, S) = (CHOOSE g : IsSum(g, f, S))[S]
BY DEF SumOver, MapThenSumSet, MapThenFoldSet, IsSum

LEMMA SumExists ==
  ASSUME NEW S, IsFiniteSet(S), NEW f, \A x \in S : f[x] \in Nat
  PROVE  \E g \in [SUBSET S -> Nat] : IsSum(g, f, S)
<1> DEFINE pick == [T \in SUBSET S |-> CHOOSE x \in T : TRUE]
           step == [x \in S |-> [n \in Nat |-> f[x] + n]]
<1>1. \A T \in SUBSET S : T # {} => pick[T] \in T /\ pick[T] = CHOOSE x \in T : TRUE
  OBVIOUS
<1>2. step \in [S -> [Nat -> Nat]] /\ \A x \in S, n \in Nat : step[x][n] = f[x] + n
  OBVIOUS
<1> HIDE DEF pick, step
<1>3. \E g : IsSetRecursion(g, S, Nat, 0, pick, step)
  BY <1>1, <1>2, SetRecursion, Zenon
<1>4. PICK g : IsSetRecursion(g, S, Nat, 0, pick, step)
  BY <1>3
<1>5. g \in [SUBSET S -> Nat]
  BY <1>4 DEF IsSetRecursion
<1>6. ASSUME NEW T \in SUBSET S, T # {}
      PROVE  g[T] = f[CHOOSE x \in T : TRUE] + g[T \ {CHOOSE x \in T : TRUE}]
  <2>1. g[T] = step[pick[T]][g[T \ {pick[T]}]]
    BY <1>4, <1>6, Zenon DEF IsSetRecursion
  <2>2. pick[T] \in S /\ g[T \ {pick[T]}] \in Nat
    BY <1>1, <1>5, <1>6
  <2>3. g[T] = f[pick[T]] + g[T \ {pick[T]}]
    BY <1>2, <2>1, <2>2, Zenon
  <2> QED BY <1>1, <1>6, <2>3, Zenon
<1>7. g[{}] = 0
  BY <1>4, Zenon DEF IsSetRecursion
<1>8. IsSum(g, f, S)
  BY <1>5, <1>6, <1>7, Zenon DEF IsSum
<1> QED BY <1>5, <1>8

LEMMA SumAgrees ==
  ASSUME NEW S, IsFiniteSet(S), NEW R \in SUBSET S, NEW f, NEW g, IsSum(g, f, S),
         NEW h, IsSum(h, f, R)
  PROVE  \A T \in SUBSET R : g[T] = h[T]
<1> DEFINE G == {T \in SUBSET R : g[T] = h[T]}
<1>1. ASSUME NEW T \in SUBSET R, \A U \in SUBSET T : U # T => U \in G
      PROVE  T \in G
  <2>1. CASE T = {}
    <3>1. g[T] = 0 /\ h[T] = 0
      BY <2>1 DEF IsSum
    <3> QED BY <3>1
  <2>2. CASE T # {}
    <3> DEFINE x == CHOOSE y \in T : TRUE
    <3>1. x \in T
      BY <2>2
    <3>2. g[T] = f[x] + g[T \ {x}]
      BY <2>2 DEF IsSum
    <3>3. h[T] = f[x] + h[T \ {x}]
      BY <2>2 DEF IsSum
    <3> HIDE DEF x
    <3>4. T \ {x} \in G
      BY <1>1, <3>1
    <3> QED BY <3>2, <3>3, <3>4
  <2> QED BY <2>1, <2>2
<1> HIDE DEF G
<1>2. IsFiniteSet(R)
  BY FS_Subset
<1>3. \A T \in SUBSET R : T \in G
  BY <1>1, <1>2, SubsetInduction
<1> QED BY <1>3 DEF G

\* The sums over the subsets of S.
AreSums(g, f, S) ==
  /\ g \in [SUBSET S -> Nat]
  /\ IsSum(g, f, S)
  /\ \A T \in SUBSET S : SumOver(f, T) = g[T]

LEMMA SubsetSums ==
  ASSUME NEW S, IsFiniteSet(S), NEW f, \A x \in S : f[x] \in Nat
  PROVE  \E g : AreSums(g, f, S)
<1>1. PICK g \in [SUBSET S -> Nat] : IsSum(g, f, S)
  BY SumExists, Zenon
<1>2. ASSUME NEW T \in SUBSET S PROVE SumOver(f, T) = g[T]
  <2> DEFINE h == CHOOSE k : IsSum(k, f, T)
  <2>1. IsFiniteSet(T) /\ \A x \in T : f[x] \in Nat
    BY FS_Subset
  <2>2. \E k : IsSum(k, f, T)
    BY <2>1, SumExists, Zenon
  <2>3. IsSum(h, f, T)
    BY <2>2, Zenon
  <2>4. SumOver(f, T) = h[T]
    BY SumDef
  <2> HIDE DEF h
  <2>5. g[T] = h[T]
    BY <1>1, <2>3, SumAgrees
  <2> QED BY <2>4, <2>5
<1> QED BY <1>1, <1>2 DEF AreSums

\* An addend can be taken out of a sum, whichever the fold starts with.
LEMMA SumRemove ==
  ASSUME NEW S, IsFiniteSet(S), NEW f, \A x \in S : f[x] \in Nat
  PROVE  /\ SumOver(f, S) \in Nat
         /\ SumOver(f, {}) = 0
         /\ \A x \in S : SumOver(f, S) = f[x] + SumOver(f, S \ {x})
<1>1. PICK g \in [SUBSET S -> Nat] :
        IsSum(g, f, S) /\ \A T \in SUBSET S : SumOver(f, T) = g[T]
  <2>1. \E g : AreSums(g, f, S)
    BY SubsetSums
  <2> QED BY <2>1 DEF AreSums
<1> DEFINE G == {T \in SUBSET S : \A x \in T : g[T] = f[x] + g[T \ {x}]}
<1>2. ASSUME NEW T \in SUBSET S, \A U \in SUBSET T : U # T => U \in G
      PROVE  T \in G
  <2> SUFFICES ASSUME NEW x \in T PROVE g[T] = f[x] + g[T \ {x}]
    OBVIOUS
  <2> DEFINE c == CHOOSE y \in T : TRUE
  <2>1. c \in T
    OBVIOUS
  <2>2. g[T] = f[c] + g[T \ {c}]
    BY <1>1 DEF IsSum
  <2> HIDE DEF c
  <2>3. CASE x = c
    BY <2>2, <2>3
  <2>4. CASE x # c
    <3>1. T \ {c} \in G /\ T \ {x} \in G /\ x \in T \ {c} /\ c \in T \ {x}
      BY <1>2, <2>1, <2>4, Zenon
    <3>2. g[T \ {c}] = f[x] + g[(T \ {c}) \ {x}] /\ g[T \ {x}] = f[c] + g[(T \ {x}) \ {c}]
      BY <3>1, Zenon
    <3>3. (T \ {c}) \ {x} = (T \ {x}) \ {c} /\ (T \ {x}) \ {c} \in SUBSET S
      OBVIOUS
    <3>4. f[x] \in Nat /\ f[c] \in Nat /\ g[(T \ {x}) \ {c}] \in Nat
      BY <2>1, <3>3
    <3> DEFINE rest == g[(T \ {x}) \ {c}]
    <3>5. g[T \ {c}] = f[x] + rest /\ g[T \ {x}] = f[c] + rest
      BY <3>2, <3>3, Zenon
    <3> HIDE DEF rest
    <3>6. g[T] = f[c] + (f[x] + rest)
      BY <2>2, <3>5
    <3> QED BY <3>4, <3>5, <3>6 DEF rest
  <2> QED BY <2>3, <2>4
<1> HIDE DEF G
<1>3. \A T \in SUBSET S : T \in G
  BY <1>2, SubsetInduction
<1>4. \A x \in S : g[S] = f[x] + g[S \ {x}]
  BY <1>3 DEF G
<1>5. g[{}] = 0
  BY <1>1 DEF IsSum
<1> QED BY <1>1, <1>4, <1>5

LEMMA SumZero ==
  ASSUME NEW S, IsFiniteSet(S), NEW f, \A x \in S : f[x] = 0
  PROVE  SumOver(f, S) = 0
<1> DEFINE G == {T \in SUBSET S : SumOver(f, T) = 0}
<1>1. ASSUME NEW T \in SUBSET S, \A U \in SUBSET T : U # T => U \in G
      PROVE  T \in G
  <2>1. IsFiniteSet(T) /\ \A x \in T : f[x] \in Nat /\ f[x] = 0
    BY FS_Subset
  <2>2. CASE T = {}
    BY <2>1, <2>2, SumRemove
  <2>3. CASE T # {}
    <3>1. PICK x \in T : TRUE
      BY <2>3
    <3>2. SumOver(f, T) = f[x] + SumOver(f, T \ {x}) /\ T \ {x} \in G
      BY <1>1, <2>1, <3>1, SumRemove
    <3> QED BY <2>1, <3>1, <3>2
  <2> QED BY <2>2, <2>3
<1> HIDE DEF G
<1>2. S \in G
  BY <1>1, SubsetInduction, SMTT(30), SMTT(60)
<1> QED BY <1>2 DEF G

LEMMA SumSame ==
  ASSUME NEW S, IsFiniteSet(S), NEW f, NEW g, \A x \in S : f[x] \in Nat /\ g[x] = f[x]
  PROVE  SumOver(g, S) = SumOver(f, S)
<1> DEFINE G == {T \in SUBSET S : SumOver(g, T) = SumOver(f, T)}
<1>1. ASSUME NEW T \in SUBSET S, \A U \in SUBSET T : U # T => U \in G
      PROVE  T \in G
  <2>1. IsFiniteSet(T)
    BY FS_Subset
  <2>2. /\ \A x \in T : SumOver(f, T) = f[x] + SumOver(f, T \ {x})
        /\ SumOver(f, {}) = 0
    BY <2>1, SumRemove
  <2>3. /\ \A x \in T : SumOver(g, T) = g[x] + SumOver(g, T \ {x})
        /\ SumOver(g, {}) = 0
    <3>1. \A x \in T : g[x] \in Nat
      OBVIOUS
    <3> QED BY <2>1, <3>1, SumRemove, Zenon
  <2>4. CASE T = {}
    BY <2>2, <2>3, <2>4
  <2>5. CASE T # {}
    <3>1. PICK x \in T : TRUE
      BY <2>5
    <3>2. T \ {x} \in G
      BY <1>1
    <3>3. g[x] = f[x] /\ SumOver(g, T \ {x}) = SumOver(f, T \ {x})
      BY <3>2
    <3> QED BY <2>2, <2>3, <3>3
  <2> QED BY <2>4, <2>5
<1> HIDE DEF G
<1>2. \A T \in SUBSET S : T \in G
  BY <1>1, SubsetInduction
<1> QED BY <1>2 DEF G

\* One addend of a sum changes.
LEMMA SumUpdate ==
  ASSUME NEW S, IsFiniteSet(S), NEW f, NEW g, NEW x \in S,
         \A y \in S : f[y] \in Nat /\ g[y] \in Nat, \A y \in S \ {x} : g[y] = f[y]
  PROVE  SumOver(g, S) + f[x] = SumOver(f, S) + g[x]
<1>1. IsFiniteSet(S \ {x}) /\ \A y \in S \ {x} : f[y] \in Nat /\ g[y] = f[y]
  BY FS_Subset
<1>2. SumOver(f, S) = f[x] + SumOver(f, S \ {x})
  BY SumRemove
<1>3. SumOver(g, S) = g[x] + SumOver(g, S \ {x})
  BY SumRemove
<1>4. SumOver(g, S \ {x}) = SumOver(f, S \ {x}) /\ SumOver(f, S \ {x}) \in Nat
  BY <1>1, SumSame, SumRemove
<1> QED BY <1>2, <1>3, <1>4

\* One more addend, after the others.
LEMMA SumAppend ==
  ASSUME NEW n \in Nat, NEW f, NEW g, \A i \in 1 .. n + 1 : g[i] \in Nat,
         \A i \in 1 .. n : g[i] = f[i]
  PROVE  SumOver(g, 1 .. n + 1) = SumOver(f, 1 .. n) + g[n + 1]
<1>1. IsFiniteSet(1 .. n + 1) /\ IsFiniteSet(1 .. n)
  BY FS_Interval
<1>2. n + 1 \in 1 .. n + 1 /\ (1 .. n + 1) \ {n + 1} = 1 .. n
  OBVIOUS
<1>3. SumOver(g, 1 .. n + 1) = g[n + 1] + SumOver(g, 1 .. n)
  <2> DEFINE S == 1 .. n + 1
  <2>1. IsFiniteSet(S) /\ n + 1 \in S /\ \A i \in S : g[i] \in Nat
    BY <1>1, <1>2
  <2> HIDE DEF S
  <2>2. SumOver(g, S) = g[n + 1] + SumOver(g, S \ {n + 1})
    BY <2>1, SumRemove
  <2> QED BY <1>2, <2>2, Zenon DEF S
<1>4. \A i \in 1 .. n : f[i] \in Nat /\ g[i] = f[i]
  OBVIOUS
<1>5. SumOver(g, 1 .. n) = SumOver(f, 1 .. n) /\ SumOver(f, 1 .. n) \in Nat
  BY <1>1, <1>4, SumSame, SumRemove
<1> QED BY <1>2, <1>3, <1>5

\* The first addend goes, and the others move up.
LEMMA SumTail ==
  ASSUME NEW n \in Nat, NEW f, NEW g, \A i \in 1 .. n + 1 : f[i] \in Nat,
         \A i \in 1 .. n : g[i] = f[i + 1]
  PROVE  SumOver(f, 1 .. n + 1) = f[1] + SumOver(g, 1 .. n)
<1> DEFINE G == {m \in 0 .. n : SumOver(f, 2 .. m + 1) = SumOver(g, 1 .. m)}
<1>1. 0 \in G
  <2>1. 2 .. 0 + 1 = {} /\ 1 .. 0 = {}
    OBVIOUS
  <2>2. IsFiniteSet({})
    BY FS_EmptySet
  <2>3. SumOver(f, {}) = 0 /\ SumOver(g, {}) = 0
    BY <2>2, SumRemove
  <2> QED BY <2>1, <2>3
<1>2. ASSUME NEW m \in 0 .. n - 1, m \in G
      PROVE  m + 1 \in G
  <2>1. /\ m + 2 \in 2 .. (m + 1) + 1 /\ (2 .. (m + 1) + 1) \ {m + 2} = 2 .. m + 1
        /\ m + 1 \in 1 .. m + 1 /\ (1 .. m + 1) \ {m + 1} = 1 .. m
        /\ m + 1 \in 0 .. n /\ m + 1 \in 1 .. n
    OBVIOUS
  <2>2. IsFiniteSet(2 .. (m + 1) + 1) /\ IsFiniteSet(1 .. m + 1)
    BY FS_Interval
  <2>3. (\A i \in 2 .. (m + 1) + 1 : f[i] \in Nat) /\ (\A i \in 1 .. m + 1 : g[i] \in Nat)
    OBVIOUS
  <2> DEFINE S == 2 .. (m + 1) + 1
             R == 1 .. m + 1
  <2>4. IsFiniteSet(S) /\ m + 2 \in S /\ \A i \in S : f[i] \in Nat
    BY <2>1, <2>2, <2>3
  <2>5. IsFiniteSet(R) /\ m + 1 \in R /\ \A i \in R : g[i] \in Nat
    BY <2>1, <2>2, <2>3
  <2>6. SumOver(f, S) = f[m + 2] + SumOver(f, 2 .. m + 1)
    <3> HIDE DEF S
    <3>1. SumOver(f, S) = f[m + 2] + SumOver(f, S \ {m + 2})
      BY <2>4, SumRemove
    <3> QED BY <2>1, <3>1, Zenon DEF S
  <2>7. SumOver(g, R) = g[m + 1] + SumOver(g, 1 .. m)
    <3> HIDE DEF R
    <3>1. SumOver(g, R) = g[m + 1] + SumOver(g, R \ {m + 1})
      BY <2>5, SumRemove
    <3> QED BY <2>1, <3>1, Zenon DEF R
  <2>8. g[m + 1] = f[m + 2]
    BY <2>1
  <2>9. SumOver(f, 2 .. m + 1) = SumOver(g, 1 .. m)
    BY <1>2
  <2> QED BY <2>1, <2>6, <2>7, <2>8, <2>9
<1> HIDE DEF G
<1>3. \A m \in 0 .. n : m \in G
  BY <1>1, <1>2, NatInductionUpTo
<1>4. SumOver(f, 2 .. n + 1) = SumOver(g, 1 .. n)
  BY <1>3 DEF G
<1> DEFINE S == 1 .. n + 1
<1>5. 1 \in S /\ S \ {1} = 2 .. n + 1 /\ IsFiniteSet(S) /\ \A x \in S : f[x] \in Nat
  <2>1. IsFiniteSet(S)
    BY FS_Interval
  <2> QED BY <2>1
<1> HIDE DEF S
<1>6. SumOver(f, S) = f[1] + SumOver(f, S \ {1})
  BY <1>5, SumRemove, ZenonT(120)
<1> QED BY <1>4, <1>5, <1>6, Zenon DEF S
-----------------------------------------------------------------------------
(* Counters that wrap *)

LEMMA ConstantFacts ==
  /\ Modulus \in Nat \ {0} /\ buf_alloc \in Nat \ {0} /\ MaxBytes \in Nat
  /\ MaxBytes + buf_alloc < Modulus
  /\ First \in Nat /\ First \in Counter
  /\ IsFiniteSet(Threads)
<1>1. IsFiniteSet(Threads)
  BY CreditAssumption, FS_AddElement DEF Threads
<1> QED BY <1>1, CreditAssumption DEF Counter

LEMMA WrapFacts ==
  ASSUME NEW a \in Int
  PROVE  /\ Wrap(a) \in Counter
         /\ a \div Modulus \in Int
         /\ a = (a \div Modulus) * Modulus + Wrap(a)
BY ConstantFacts DEF Wrap, Counter

\* A remainder is the only one.
LEMMA WrapUnique ==
  ASSUME NEW a \in Int, NEW q \in Int, NEW r \in Counter, a = q * Modulus + r
  PROVE  Wrap(a) = r
<1> DEFINE p == a \div Modulus
           w == Wrap(a)
<1>1. p \in Int /\ w \in Counter /\ a = p * Modulus + w
  BY WrapFacts
<1> HIDE DEF p, w
<1>2. (p - q) * Modulus = r - w /\ r \in Int /\ w \in Int
      /\ r - w < Modulus /\ w - r < Modulus
  BY <1>1, ConstantFacts DEF Counter
<1>3. CASE p - q >= 1
  <2>1. (p - q) * Modulus >= Modulus
    BY <1>1, <1>3, ConstantFacts
  <2> QED BY <1>2, <2>1, ConstantFacts
<1>4. CASE p - q <= -1
  <2>1. (p - q) * Modulus <= -Modulus
    BY <1>1, <1>4, ConstantFacts
  <2> QED BY <1>2, <2>1, ConstantFacts
<1>5. CASE p = q
  BY <1>1, <1>2, <1>5, ConstantFacts DEF w
<1> QED BY <1>1, <1>3, <1>4, <1>5

LEMMA WrapAdd ==
  ASSUME NEW a \in Int, NEW b \in Int
  PROVE  Wrap(Wrap(a) + b) = Wrap(a + b)
<1> DEFINE p == a \div Modulus
           q == (Wrap(a) + b) \div Modulus
           w == Wrap(Wrap(a) + b)
<1>1. p \in Int /\ Wrap(a) \in Int /\ a = p * Modulus + Wrap(a)
  BY WrapFacts DEF Counter
<1>2. q \in Int /\ w \in Counter /\ Wrap(a) + b = q * Modulus + w
  BY <1>1, WrapFacts
<1> HIDE DEF p, q, w
<1>3. a + b = (p + q) * Modulus + w
  <2>1. (p + q) * Modulus = p * Modulus + q * Modulus
    BY <1>1, <1>2, ConstantFacts
  <2>2. q * Modulus \in Int /\ p * Modulus \in Int /\ w \in Int
    BY <1>1, <1>2, ConstantFacts DEF Counter
  <2> QED BY <1>1, <1>2, <2>1, <2>2
<1>4. Wrap(a + b) = w
  BY <1>1, <1>2, <1>3, WrapUnique
<1> QED BY <1>4 DEF w

\* The difference of two counters is that of what they count, if it is small.
LEMMA WrapDifference ==
  ASSUME NEW a \in Int, NEW b \in Int, a - b \in Counter
  PROVE  Wrap(Wrap(a) - Wrap(b)) = a - b
<1> DEFINE p == a \div Modulus
           q == b \div Modulus
<1>1. p \in Int /\ Wrap(a) \in Int /\ a = p * Modulus + Wrap(a)
  BY WrapFacts DEF Counter
<1>2. q \in Int /\ Wrap(b) \in Int /\ b = q * Modulus + Wrap(b)
  BY WrapFacts DEF Counter
<1> HIDE DEF p, q
<1>3. Wrap(a) - Wrap(b) = (q - p) * Modulus + (a - b)
  <2>1. (q - p) * Modulus = q * Modulus - p * Modulus
    BY <1>1, <1>2, ConstantFacts
  <2>2. q * Modulus \in Int /\ p * Modulus \in Int
    BY <1>1, <1>2, ConstantFacts
  <2> QED BY <1>1, <1>2, <2>1, <2>2
<1> QED BY <1>1, <1>2, <1>3, WrapUnique

-----------------------------------------------------------------------------
(* The inductive invariants *)

CallState == [pc : {"idle", "send", "request_credit", "credit_update", "transmit", "wait"},
              len : 0 .. buf_alloc, header : Header]

Types ==
  /\ info \in [Sides -> [peer_fwd_cnt : Counter, tx_cnt : Counter, fwd_cnt : Counter,
                         has_pending_credit_request : BOOLEAN]]
  /\ used \in [Sides -> 0 .. buf_alloc]
  /\ queue \in [Sides -> Seq(Header)]
  /\ thread \in [Sides -> [Threads -> CallState]]
  /\ sent \in [Sides -> Nat]
  /\ lost \in [Sides -> Nat]

\* The bytes that the side has read.
BytesRead(s) == sent[Peer(s)] - Unread(Peer(s)) - lost[s]

\* The counters count the bytes sent and read, since First and up to wrapping.
Counted(s) ==
  /\ BytesRead(s) >= 0
  /\ info[s].tx_cnt = Wrap(First + sent[s])
  /\ info[s].fwd_cnt = Wrap(First + BytesRead(s))

AccountInv == Types /\ \A s \in Sides : Counted(s)

\* A value that fwd_cnt had while up to n bytes were read.
Seen(fwd_cnt, n) == \E k \in 0 .. n : fwd_cnt = Wrap(First + k)

\* What side s has checked still fits when it is sent.
Bounded(s) ==
  /\ sent[s] <= MaxBytes
  /\ Unread(s) <= buf_alloc
  /\ lost[s] = 0
  /\ \A t \in Threads : At(s, t, "send") =>
       /\ t \in Senders
       /\ sent[s] + thread[s][t].len <= MaxBytes
       /\ Unread(s) + thread[s][t].len <= buf_alloc

\* Every fwd_cnt that side s knows or that is on its way is one of its peer.
AllSeen(s) ==
  LET p == Peer(s)
  IN  /\ Seen(info[s].peer_fwd_cnt, BytesRead(p))
      /\ \A i \in DOMAIN queue[p] : Seen(queue[p][i].fwd_cnt, BytesRead(p))
      /\ \A t \in Threads : At(p, t, "transmit") => Seen(thread[p][t].header.fwd_cnt, BytesRead(p))

CreditInv == \A s \in Sides : Bounded(s) /\ AllSeen(s)

-----------------------------------------------------------------------------
LEMMA PeerFacts ==
  \A s \in Sides : /\ Peer(s) \in Sides /\ Peer(Peer(s)) = s /\ Peer(s) # s
                   /\ \A p \in Sides : p = s \/ p = Peer(s)
BY DEF Sides, Peer

\* The bytes of a call on their way to the queue.
Weight(call) == IF call.pc = "transmit" THEN call.header.len ELSE 0

LEMMA WeightFact ==
  ASSUME NEW call \in CallState
  PROVE  Weight(call) \in Nat
BY ConstantFacts DEF Weight, CallState, Header

LEMMA MadeFacts ==
  ASSUME Types, NEW s \in Sides
  PROVE  /\ Made(s) = SumOver([t \in Threads |-> Weight(thread[s][t])], Threads)
         /\ Made(s) \in Nat
<1> DEFINE f == [t \in Threads |-> Weight(thread[s][t])]
<1>1. Made(s) = SumOver(f, Threads)
  BY DEF Made, Weight, At
<1>2. \A t \in Threads : f[t] \in Nat
  BY WeightFact DEF Types
<1> HIDE DEF f
<1>3. SumOver(f, Threads) \in Nat
  BY <1>2, SumRemove, ConstantFacts
<1> QED BY <1>1, <1>3 DEF f

LEMMA QueuedFacts ==
  ASSUME Types, NEW s \in Sides
  PROVE  /\ Queued(s) = SumOver([i \in 1 .. Len(queue[s]) |-> queue[s][i].len], 1 .. Len(queue[s]))
         /\ Queued(s) \in Nat
         /\ Len(queue[s]) \in Nat /\ DOMAIN queue[s] = 1 .. Len(queue[s])
         /\ \A i \in 1 .. Len(queue[s]) : queue[s][i] \in Header /\ queue[s][i].len \in 0 .. buf_alloc
                                          /\ queue[s][i].len \in Nat
<1> DEFINE n == Len(queue[s])
           f == [i \in 1 .. n |-> queue[s][i].len]
<1>1. queue[s] \in Seq(Header)
  BY DEF Types
<1>2. n \in Nat /\ DOMAIN queue[s] = 1 .. n /\ \A i \in 1 .. n : queue[s][i] \in Header
  BY <1>1
<1>3. \A i \in 1 .. n : queue[s][i].len \in 0 .. buf_alloc /\ f[i] \in Nat /\ f[i] = queue[s][i].len
  BY <1>2, ConstantFacts DEF Header
<1>4. Queued(s) = SumOver(f, 1 .. n)
  BY <1>2 DEF Queued
<1>5. IsFiniteSet(1 .. n)
  BY <1>2, FS_Interval
<1> HIDE DEF f
<1>6. SumOver(f, 1 .. n) \in Nat
  BY <1>3, <1>5, SumRemove
<1> QED BY <1>2, <1>3, <1>4, <1>6, SMTT(30), SMTT(60) DEF f

LEMMA UnreadFacts ==
  ASSUME Types
  PROVE  \A s \in Sides : Unread(s) \in Nat /\ used[s] \in Nat /\ used[s] <= buf_alloc
                          /\ Unread(s) = Made(s) + Queued(s) + used[Peer(s)]
<1>1. \A s \in Sides : Made(s) \in Nat /\ Queued(s) \in Nat
  BY MadeFacts, QueuedFacts, Zenon
<1>2. \A s \in Sides : used[s] \in Nat /\ used[s] <= buf_alloc
  BY ConstantFacts DEF Types
<1> QED BY <1>1, <1>2, PeerFacts DEF Unread

-----------------------------------------------------------------------------
(* How the sums change *)

\* One call of side s changes its state.
LEMMA MadeStep ==
  ASSUME Types, NEW s \in Sides, NEW t \in Threads, NEW v \in CallState,
         thread' = [thread EXCEPT ![s][t] = v]
  PROVE  /\ thread' \in [Sides -> [Threads -> CallState]]
         /\ thread'[s][t] = v
         /\ \A u \in Threads : u # t => thread'[s][u] = thread[s][u]
         /\ \A p \in Sides : p # s => thread'[p] = thread[p] /\ Made(p)' = Made(p)
         /\ Made(s)' \in Nat
         /\ Made(s)' + Weight(thread[s][t]) = Made(s) + Weight(v)
<1>1. /\ thread' \in [Sides -> [Threads -> CallState]]
      /\ thread'[s][t] = v
      /\ \A u \in Threads : u # t => thread'[s][u] = thread[s][u]
      /\ \A p \in Sides : p # s => thread'[p] = thread[p]
  BY DEF Types
<1> DEFINE f == [u \in Threads |-> Weight(thread[s][u])]
           g == [u \in Threads |-> Weight(thread'[s][u])]
<1>2. Made(s) = SumOver(f, Threads) /\ Made(s)' = SumOver(g, Threads)
  BY MadeFacts DEF Made, Weight, At
<1>3. /\ \A u \in Threads : f[u] \in Nat /\ g[u] \in Nat
      /\ \A u \in Threads \ {t} : g[u] = f[u]
      /\ f[t] = Weight(thread[s][t]) /\ g[t] = Weight(v)
  BY <1>1, WeightFact DEF Types
<1> HIDE DEF f, g
<1>4. SumOver(g, Threads) + f[t] = SumOver(f, Threads) + g[t]
  BY <1>3, SumUpdate, ConstantFacts
<1>5. SumOver(g, Threads) \in Nat
  BY <1>3, SumRemove, ConstantFacts
<1>6. \A p \in Sides : p # s => Made(p)' = Made(p)
  BY <1>1 DEF Made, At
<1> QED BY <1>1, <1>2, <1>3, <1>4, <1>5, <1>6

LEMMA QueuedSame ==
  ASSUME NEW s, queue'[s] = queue[s]
  PROVE  Queued(s)' = Queued(s)
<1> DEFINE Lengths(q) == [i \in DOMAIN q |-> q[i].len]
<1>1. Queued(s) = SumOver(Lengths(queue[s]), DOMAIN queue[s])
  BY DEF Queued
<1>2. Queued(s)' = SumOver(Lengths(queue'[s]), DOMAIN queue'[s])
  BY DEF Queued
<1> HIDE DEF Lengths
<1> QED BY <1>1, <1>2

\* Side s queues a packet.
LEMMA QueuedAppend ==
  ASSUME Types, NEW s \in Sides, NEW header \in Header,
         queue' = [queue EXCEPT ![s] = Append(@, header)]
  PROVE  /\ queue' \in [Sides -> Seq(Header)]
         /\ \A p \in Sides : p # s => queue'[p] = queue[p] /\ Queued(p)' = Queued(p)
         /\ queue'[s] = Append(queue[s], header)
         /\ Queued(s)' = Queued(s) + header.len
<1>1. /\ queue' \in [Sides -> Seq(Header)]
      /\ \A p \in Sides : p # s => queue'[p] = queue[p]
      /\ queue'[s] = Append(queue[s], header)
  BY PeerFacts DEF Types
<1> DEFINE n == Len(queue[s])
           f == [i \in 1 .. n |-> queue[s][i].len]
           g == [i \in 1 .. n + 1 |-> queue'[s][i].len]
<1>2. Queued(s) = SumOver(f, 1 .. n) /\ n \in Nat
      /\ \A i \in 1 .. n : queue[s][i].len \in Nat
  BY QueuedFacts
<1>3. queue[s] \in Seq(Header)
  BY DEF Types
<1>4. /\ DOMAIN queue'[s] = 1 .. n + 1
      /\ queue'[s][n + 1] = header
      /\ \A i \in 1 .. n : queue'[s][i] = queue[s][i]
  BY <1>1, <1>2, <1>3
<1>5. Queued(s)' = SumOver(g, 1 .. n + 1)
  BY <1>4 DEF Queued
<1>6. header.len \in Nat
  BY ConstantFacts DEF Header
<1>7. \A i \in 1 .. n + 1 : g[i] \in Nat
  BY <1>2, <1>4, <1>6
<1>8. \A i \in 1 .. n : g[i] = f[i]
  BY <1>2, <1>4
<1>9. g[n + 1] = header.len
  BY <1>2, <1>4
<1>10. n \in Nat
  BY <1>2
<1> HIDE DEF f, g, n
<1>11. SumOver(g, 1 .. n + 1) = SumOver(f, 1 .. n) + g[n + 1]
  BY <1>7, <1>8, <1>10, SumAppend, ZenonT(30)
<1>12. \A p \in Sides : p # s => Queued(p)' = Queued(p)
  BY <1>1, QueuedSame
<1> QED BY <1>1, <1>2, <1>5, <1>9, <1>11, <1>12

\* The oldest packet of side s is taken from the queue.
LEMMA QueuedTail ==
  ASSUME Types, NEW s \in Sides, queue[s] # <<>>,
         queue' = [queue EXCEPT ![s] = Tail(@)]
  PROVE  /\ queue' \in [Sides -> Seq(Header)]
         /\ \A p \in Sides : p # s => queue'[p] = queue[p] /\ Queued(p)' = Queued(p)
         /\ Head(queue[s]) = queue[s][1] /\ Head(queue[s]) \in Header
         /\ \A i \in DOMAIN queue'[s] : i + 1 \in DOMAIN queue[s] /\ queue'[s][i] = queue[s][i + 1]
         /\ 1 \in DOMAIN queue[s]
         /\ Queued(s) = Head(queue[s]).len + Queued(s)'
         /\ Queued(s)' \in Nat
<1>1. queue[s] \in Seq(Header) /\ queue \in [Sides -> Seq(Header)]
  BY DEF Types
<1>2. /\ queue' \in [Sides -> Seq(Header)]
      /\ \A p \in Sides : p # s => queue'[p] = queue[p]
      /\ queue'[s] = Tail(queue[s])
  BY <1>1, PeerFacts
<1> DEFINE n == Len(queue[s]) - 1
           f == [i \in 1 .. n + 1 |-> queue[s][i].len]
           g == [i \in 1 .. n |-> queue'[s][i].len]
<1>3. n \in Nat /\ Len(queue[s]) = n + 1
  BY <1>1
<1>4. Queued(s) = SumOver(f, 1 .. n + 1) /\ \A i \in 1 .. n + 1 : queue[s][i].len \in Nat
  BY <1>3, QueuedFacts
<1>5. /\ DOMAIN queue'[s] = 1 .. n
      /\ \A i \in 1 .. n : queue'[s][i] = queue[s][i + 1]
      /\ Head(queue[s]) = queue[s][1]
      /\ DOMAIN queue[s] = 1 .. n + 1
  BY <1>1, <1>2, <1>3
<1>6. Queued(s)' = SumOver(g, 1 .. n)
  BY <1>5 DEF Queued
<1>7. /\ \A i \in 1 .. n + 1 : f[i] \in Nat
      /\ \A i \in 1 .. n : g[i] = f[i + 1] /\ g[i] \in Nat
      /\ f[1] = Head(queue[s]).len
  BY <1>3, <1>4, <1>5
<1> HIDE DEF f, g, n
<1>8. SumOver(f, 1 .. n + 1) = f[1] + SumOver(g, 1 .. n)
  BY <1>3, <1>7, SumTail, ZenonT(60)
<1>9. SumOver(g, 1 .. n) \in Nat
  <2>1. IsFiniteSet(1 .. n)
    BY <1>3, FS_Interval
  <2> QED BY <1>7, <2>1, SumRemove, Zenon
<1>10. \A p \in Sides : p # s => Queued(p)' = Queued(p)
  BY <1>2, QueuedSame
<1>11. Head(queue[s]) \in Header
  BY <1>1, <1>3, <1>5
<1> QED BY <1>2, <1>3, <1>4, <1>5, <1>6, <1>7, <1>8, <1>9, <1>10, <1>11, SMTT(30), SMTT(60)
-----------------------------------------------------------------------------
(* The counters move with what they count *)

LEMMA WrapSame ==
  ASSUME NEW c \in Counter
  PROVE  Wrap(c) = c /\ Wrap(c + 0) = c
<1>1. c \in Int /\ c = 0 * Modulus + c /\ c + 0 = c
  BY ConstantFacts DEF Counter
<1> QED BY <1>1, WrapUnique

LEMMA NumberFacts ==
  ASSUME Types, NEW s \in Sides
  PROVE  /\ sent[s] \in Nat /\ lost[s] \in Nat /\ BytesRead(s) \in Int
         /\ info[s].tx_cnt \in Counter /\ info[s].fwd_cnt \in Counter
         /\ info[s].peer_fwd_cnt \in Counter
<1>1. sent[Peer(s)] \in Nat /\ Unread(Peer(s)) \in Nat /\ lost[s] \in Nat
  BY PeerFacts, UnreadFacts DEF Types
<1> QED BY <1>1 DEF Types, BytesRead

\* Side p sends a bytes and reads b.
LEMMA CountedStep ==
  ASSUME AccountInv, Types', NEW p \in Sides, NEW a \in Nat, NEW b \in Nat,
         sent'[p] = sent[p] + a, BytesRead(p)' = BytesRead(p) + b,
         info'[p].tx_cnt = Wrap(info[p].tx_cnt + a),
         info'[p].fwd_cnt = Wrap(info[p].fwd_cnt + b)
  PROVE  Counted(p)'
<1>1. sent[p] \in Nat /\ BytesRead(p) \in Int /\ BytesRead(p) >= 0
  BY NumberFacts DEF AccountInv, Counted
<1>2. First \in Nat
  BY ConstantFacts
<1>3. info[p].tx_cnt = Wrap(First + sent[p]) /\ info[p].fwd_cnt = Wrap(First + BytesRead(p))
  BY DEF AccountInv, Counted
<1>4. Wrap(Wrap(First + sent[p]) + a) = Wrap(First + sent[p] + a)
  <2>1. First + sent[p] \in Int /\ a \in Int
    BY <1>1, <1>2
  <2> QED BY <2>1, WrapAdd, Zenon
<1>5. Wrap(Wrap(First + BytesRead(p)) + b) = Wrap(First + BytesRead(p) + b)
  <2>1. First + BytesRead(p) \in Int /\ b \in Int
    BY <1>1, <1>2
  <2> QED BY <2>1, WrapAdd, Zenon
<1>6. First + sent[p] + a = First + sent'[p] /\ First + BytesRead(p) + b = First + BytesRead(p)'
      /\ BytesRead(p)' >= 0
  BY <1>1, <1>2
<1> QED BY <1>3, <1>4, <1>5, <1>6, SMTT(30), SMTT(60) DEF Counted

\* Nothing is sent or read by side p.
LEMMA CountedSame ==
  ASSUME AccountInv, NEW p \in Sides, sent'[p] = sent[p], BytesRead(p)' = BytesRead(p),
         info'[p].tx_cnt = info[p].tx_cnt, info'[p].fwd_cnt = info[p].fwd_cnt
  PROVE  Counted(p)'
BY DEF AccountInv, Counted

\* What has been seen stays seen while the peer reads on.
LEMMA SeenKept ==
  ASSUME NEW n \in Int, NEW m \in Int, n <= m, NEW c, Seen(c, n)
  PROVE  Seen(c, m)
BY DEF Seen

-----------------------------------------------------------------------------
(* The steps *)

AtMostOneSender == \A t, u \in Senders : t = u

\* Only a call of side s changes its state, and no bytes move.
LEMMA CallStep ==
  ASSUME AccountInv, NEW s \in Sides, NEW t \in Threads, NEW v \in CallState,
         thread' = [thread EXCEPT ![s][t] = v], Weight(v) = Weight(thread[s][t]),
         UNCHANGED <<used, queue, sent, lost>>, Types',
         \A p \in Sides : info'[p].tx_cnt = info[p].tx_cnt /\ info'[p].fwd_cnt = info[p].fwd_cnt
  PROVE  AccountInv' /\ \A p \in Sides : Unread(p)' = Unread(p) /\ BytesRead(p)' = BytesRead(p)
<1>1. Types
  BY DEF AccountInv
<1>2. Weight(v) \in Nat /\ Made(s) \in Nat
  BY <1>1, MadeFacts, WeightFact, ZenonT(30)
<1>3. \A p \in Sides : Made(p)' = Made(p)
  <2>1. Made(s)' \in Nat /\ \A p \in Sides : p # s => Made(p)' = Made(p)
    BY <1>1, MadeStep, Zenon
  <2>2. Made(s)' + Weight(thread[s][t]) = Made(s) + Weight(v)
    BY <1>1, MadeStep, Zenon
  <2> QED BY <1>2, <2>1, <2>2
<1>4. \A p \in Sides : Queued(p)' = Queued(p)
  BY QueuedSame
<1>5. \A p \in Sides : Unread(p)' = Unread(p)
  BY <1>3, <1>4 DEF Unread
<1>6. \A p \in Sides : BytesRead(p)' = BytesRead(p)
  BY <1>5, PeerFacts DEF BytesRead
<1>7. \A p \in Sides : Counted(p)'
  BY <1>6, CountedSame
<1> QED BY <1>5, <1>6, <1>7 DEF AccountInv

\* The same for the credit: the call made a header, or has checked what it sends.
LEMMA CallCredit ==
  ASSUME AccountInv, CreditInv, NEW s \in Sides, NEW t \in Threads, NEW v \in CallState,
         thread' = [thread EXCEPT ![s][t] = v], UNCHANGED <<queue, sent, lost>>,
         \A p \in Sides : /\ Unread(p)' = Unread(p) /\ BytesRead(p)' = BytesRead(p)
                         /\ info'[p].peer_fwd_cnt = info[p].peer_fwd_cnt,
         v.pc = "send" => /\ t \in Senders
                          /\ sent[s] + v.len <= MaxBytes
                          /\ Unread(s) + v.len <= buf_alloc,
         v.pc = "transmit" => Seen(v.header.fwd_cnt, BytesRead(s))
  PROVE  CreditInv'
<1>1. Types
  BY DEF AccountInv
<1>2. /\ thread'[s][t] = v
      /\ \A u \in Threads : u # t => thread'[s][u] = thread[s][u]
      /\ \A p \in Sides : p # s => thread'[p] = thread[p]
  BY <1>1, MadeStep, ZenonT(60)
<1> SUFFICES ASSUME NEW p \in Sides PROVE Bounded(p)' /\ AllSeen(p)'
  BY DEF CreditInv
<1>3. Bounded(p) /\ AllSeen(p) /\ Peer(p) \in Sides
  BY PeerFacts DEF CreditInv
<1>4. Bounded(p)'
  <2>1. ASSUME NEW u \in Threads, At(p, u, "send")'
        PROVE  /\ u \in Senders
               /\ sent[p] + thread'[p][u].len <= MaxBytes
               /\ Unread(p) + thread'[p][u].len <= buf_alloc
    BY <1>2, <1>3, <2>1, PeerFacts, SMTT(30), SMTT(60) DEF Bounded, At
  <2> QED BY <1>3, <2>1 DEF Bounded
<1>5. AllSeen(p)'
  <2>1. ASSUME NEW u \in Threads, At(Peer(p), u, "transmit")'
        PROVE  Seen(thread'[Peer(p)][u].header.fwd_cnt, BytesRead(Peer(p)))
    BY <1>2, <1>3, <2>1, PeerFacts, SMTT(30), SMTT(60) DEF AllSeen, At
  <2> QED BY <1>3, <2>1 DEF AllSeen
<1> QED BY <1>4, <1>5
\* Both invariants are kept, the second with one sender.
Kept == AccountInv' /\ (AtMostOneSender /\ CreditInv => CreditInv')

LEMMA CallTypes ==
  ASSUME Types, NEW s \in Sides, NEW t \in Threads
  PROVE  /\ thread[s][t] \in CallState
         /\ Idle \in CallState /\ Weight(Idle) = 0 /\ Idle.pc = "idle"
         /\ \A op \in Ops, len \in 0 .. buf_alloc :
              /\ NewHeader(s, op, len) \in Header
              /\ Transmitting(NewHeader(s, op, len)) \in CallState
              /\ Transmitting(NewHeader(s, op, len)).pc = "transmit"
              /\ Transmitting(NewHeader(s, op, len)).header.fwd_cnt = info[s].fwd_cnt
              /\ Weight(Transmitting(NewHeader(s, op, len))) = len
<1>1. thread[s][t] \in CallState /\ info[s].fwd_cnt \in Counter
  BY NumberFacts DEF Types
<1>2. 0 \in 0 .. buf_alloc /\ 0 \in Counter
  BY ConstantFacts DEF Counter
<1>3. Idle \in CallState /\ Weight(Idle) = 0 /\ Idle.pc = "idle"
  BY <1>2 DEF Idle, NoHeader, CallState, Header, Ops, Weight
<1> QED BY <1>1, <1>2, <1>3 DEF NewHeader, Transmitting, CallState, Header, Weight

LEMMA SeenNow ==
  ASSUME AccountInv, NEW s \in Sides
  PROVE  Seen(info[s].fwd_cnt, BytesRead(s))
<1>1. BytesRead(s) \in Int /\ BytesRead(s) >= 0 /\ info[s].fwd_cnt = Wrap(First + BytesRead(s))
  BY NumberFacts DEF AccountInv, Counted
<1>2. BytesRead(s) \in 0 .. BytesRead(s)
  BY <1>1
<1> QED BY <1>1, <1>2 DEF Seen

\* The credit never allows more than what the peer has free.
LEMMA PeerFreeFacts ==
  ASSUME AccountInv, CreditInv, NEW s \in Sides
  PROVE  peer_free(s) \in Nat /\ peer_free(s) <= buf_alloc - Unread(s)
<1> DEFINE p == Peer(s)
<1>1. p \in Sides /\ Peer(p) = s /\ Types
  BY PeerFacts DEF AccountInv
<1>2. /\ sent[s] \in Nat /\ sent[s] <= MaxBytes
      /\ Unread(s) \in Nat /\ Unread(s) <= buf_alloc
      /\ lost[p] = 0
  BY <1>1, NumberFacts, UnreadFacts DEF CreditInv, Bounded
<1>3. BytesRead(p) = sent[s] - Unread(s)
  BY <1>1, <1>2 DEF BytesRead
<1>4. PICK k \in 0 .. BytesRead(p) : info[s].peer_fwd_cnt = Wrap(First + k)
  BY DEF CreditInv, AllSeen, Seen
<1>5. info[s].tx_cnt = Wrap(First + sent[s])
  BY DEF AccountInv, Counted
<1> HIDE DEF p
<1>6. /\ First + sent[s] \in Int /\ First + k \in Int
      /\ (First + sent[s]) - (First + k) = sent[s] - k
      /\ sent[s] - k \in Counter /\ sent[s] - k >= Unread(s) /\ k \in Nat
  BY <1>2, <1>3, ConstantFacts DEF Counter
<1>7. Wrap(info[s].tx_cnt - info[s].peer_fwd_cnt) = sent[s] - k
  BY <1>4, <1>5, <1>6, WrapDifference
<1>8. peer_free(s) = IF sent[s] - k > buf_alloc THEN 0 ELSE buf_alloc - (sent[s] - k)
  BY <1>7 DEF peer_free
<1> QED BY <1>2, <1>6, <1>8, ConstantFacts
LEMMA MoveFacts ==
  ASSUME Types, NEW s \in Sides, NEW t \in Threads, NEW pc, Move(s, t, pc),
         pc \in {"idle", "request_credit", "credit_update", "wait"}
  PROVE  \E v \in CallState :
           thread' = [thread EXCEPT ![s][t] = v] /\ v.pc = pc /\ Weight(v) = 0
<1> DEFINE v == [thread[s][t] EXCEPT !.pc = pc]
<1>1. thread[s][t] \in CallState
  BY DEF Types
<1>2. v \in CallState /\ v.pc = pc
  BY <1>1 DEF CallState
<1>3. Weight(v) = 0
  BY <1>2 DEF Weight
<1>4. thread' = [thread EXCEPT ![s][t] = v]
  BY DEF Move
<1> QED BY <1>2, <1>3, <1>4, ZenonT(30)

LEMMA CheckKept ==
  ASSUME AccountInv, NEW s \in Sides, NEW t \in Senders, NEW len \in 1 .. buf_alloc,
         sent[s] + len <= MaxBytes, Check(s, t, len)
  PROVE  Kept
<1>1. Types /\ t \in Threads
  BY DEF AccountInv, Threads
<1>2. At(s, t, "idle") /\ UNCHANGED <<used, queue, sent, lost>>
  BY DEF Check
<1>3. Weight(thread[s][t]) = 0
  BY <1>2 DEF Weight, At
<1>4. CASE /\ peer_free(s) >= len
           /\ thread' = [thread EXCEPT ![s][t] = [@ EXCEPT !.pc = "send", !.len = len]]
           /\ UNCHANGED info
  <2> DEFINE v == [thread[s][t] EXCEPT !.pc = "send", !.len = len]
  <2>1. v \in CallState /\ v.pc = "send" /\ v.len = len
    <3>1. thread[s][t] \in CallState /\ len \in 0 .. buf_alloc
      BY <1>1, ConstantFacts DEF Types
    <3> QED BY <3>1, Zenon DEF CallState
  <2>2. Weight(v) = 0
    BY <2>1 DEF Weight
  <2>3. thread' = [thread EXCEPT ![s][t] = v]
    BY <1>4
  <2> HIDE DEF v
  <2>4. thread' \in [Sides -> [Threads -> CallState]]
    BY <1>1, <2>1, <2>3, MadeStep, ZenonT(30)
  <2>5. Types'
    BY <1>1, <1>2, <1>4, <2>4 DEF Types
  <2>6. AccountInv' /\ \A p \in Sides : Unread(p)' = Unread(p) /\ BytesRead(p)' = BytesRead(p)
    BY <1>1, <1>2, <1>3, <1>4, <2>1, <2>2, <2>3, <2>5, CallStep, ZenonT(60)
  <2>7. ASSUME CreditInv PROVE CreditInv'
    <3>1. Unread(s) + len <= buf_alloc
      <4>1. Unread(s) \in Nat /\ peer_free(s) \in Nat /\ peer_free(s) <= buf_alloc - Unread(s)
        BY <1>1, <2>7, UnreadFacts, PeerFreeFacts
      <4> QED BY <1>4, <4>1, ConstantFacts, SMTT(30), SMTT(60)
    <3>2. /\ v.pc = "send" => /\ t \in Senders
                              /\ sent[s] + v.len <= MaxBytes
                              /\ Unread(s) + v.len <= buf_alloc
          /\ v.pc # "transmit"
      BY <2>1, <3>1
    <3>3. \A p \in Sides : info'[p].peer_fwd_cnt = info[p].peer_fwd_cnt
      BY <1>4
    <3> QED BY <1>1, <1>2, <2>1, <2>3, <2>6, <2>7, <3>2, <3>3, CallCredit, ZenonT(60)
  <2> QED BY <2>6, <2>7 DEF Kept
<1>5. CASE /\ info' = [info EXCEPT ![s].has_pending_credit_request = TRUE]
           /\ Move(s, t, "request_credit")
  <2>1. PICK v \in CallState :
          thread' = [thread EXCEPT ![s][t] = v] /\ v.pc = "request_credit" /\ Weight(v) = 0
    BY <1>1, <1>5, MoveFacts
  <2>2. thread' \in [Sides -> [Threads -> CallState]]
    BY <1>1, <2>1, MadeStep, ZenonT(30)
  <2>3. Types'
    BY <1>1, <1>2, <1>5, <2>2, ZenonT(30) DEF Types
  <2>4. \A p \in Sides : /\ info'[p].tx_cnt = info[p].tx_cnt /\ info'[p].fwd_cnt = info[p].fwd_cnt
                         /\ info'[p].peer_fwd_cnt = info[p].peer_fwd_cnt
    BY <1>1, <1>5 DEF Types
  <2>5. AccountInv' /\ \A p \in Sides : Unread(p)' = Unread(p) /\ BytesRead(p)' = BytesRead(p)
    BY <1>1, <1>2, <1>3, <2>1, <2>3, <2>4, CallStep, ZenonT(60)
  <2>6. ASSUME CreditInv PROVE CreditInv'
    BY <1>1, <1>2, <2>1, <2>4, <2>5, <2>6, CallCredit, Zenon
  <2> QED BY <2>5, <2>6 DEF Kept
<1> QED BY <1>4, <1>5 DEF Check

\* request_credit and credit_update.
LEMMA HeaderKept ==
  ASSUME AccountInv, NEW s \in Sides, NEW t \in Threads, RequestCredit(s, t) \/ CreditUpdate(s, t)
  PROVE  Kept
<1>1. Types
  BY DEF AccountInv
<1>2. PICK op \in Ops : thread' = [thread EXCEPT ![s][t] = Transmitting(NewHeader(s, op, 0))]
  BY DEF RequestCredit, CreditUpdate, Ops
<1> DEFINE v == Transmitting(NewHeader(s, op, 0))
<1>3. UNCHANGED <<info, used, queue, sent, lost>> /\ Weight(thread[s][t]) = 0
  BY DEF RequestCredit, CreditUpdate, Weight, At
<1>4. 0 \in 0 .. buf_alloc
  BY ConstantFacts
<1>5. /\ v \in CallState /\ Weight(v) = 0 /\ v.pc = "transmit"
      /\ v.header.fwd_cnt = info[s].fwd_cnt
  BY <1>1, <1>4, CallTypes
<1>6. thread' = [thread EXCEPT ![s][t] = v]
  BY <1>2
<1> HIDE DEF v
<1>7. thread' \in [Sides -> [Threads -> CallState]]
  BY <1>1, <1>5, <1>6, MadeStep, ZenonT(60)
<1>8. Types'
  BY <1>1, <1>3, <1>7 DEF Types
<1>9. AccountInv' /\ \A p \in Sides : Unread(p)' = Unread(p) /\ BytesRead(p)' = BytesRead(p)
  BY <1>3, <1>5, <1>6, <1>8, CallStep, ZenonT(60)
<1>10. Seen(v.header.fwd_cnt, BytesRead(s)) /\ v.pc # "send"
  BY <1>5, SeenNow
<1>11. ASSUME CreditInv PROVE CreditInv'
  BY <1>3, <1>5, <1>6, <1>9, <1>10, <1>11, CallCredit, ZenonT(60)
<1> QED BY <1>9, <1>11 DEF Kept

LEMMA GuestTransmittedKept ==
  ASSUME AccountInv, NEW t \in Threads, GuestTransmitted(t)
  PROVE  Kept
<1> DEFINE s == "guest"
<1>1. Types /\ s \in Sides
  BY DEF AccountInv, Sides
<1>2. /\ UNCHANGED <<info, used, queue, sent, lost>> /\ Weight(thread[s][t]) = 0
      /\ thread' = [thread EXCEPT ![s][t] = Idle]
  BY DEF GuestTransmitted, Weight, At
<1> HIDE DEF s
<1>3. Idle \in CallState /\ Weight(Idle) = 0 /\ Idle.pc = "idle"
  BY <1>1, CallTypes
<1>4. thread' \in [Sides -> [Threads -> CallState]]
  BY <1>1, <1>2, <1>3, MadeStep, ZenonT(60)
<1>5. Types'
  BY <1>1, <1>2, <1>4 DEF Types
<1>6. AccountInv' /\ \A p \in Sides : Unread(p)' = Unread(p) /\ BytesRead(p)' = BytesRead(p)
  BY <1>1, <1>2, <1>3, <1>5, CallStep, ZenonT(30)
<1>7. ASSUME CreditInv PROVE CreditInv'
  BY <1>1, <1>2, <1>3, <1>6, <1>7, CallCredit, ZenonT(60)
<1> QED BY <1>6, <1>7 DEF Kept

\* The second lock section of send.
LEMMA SendKept ==
  ASSUME AccountInv, NEW s \in Sides, NEW t \in Threads, Send(s, t)
  PROVE  Kept
<1> DEFINE len == thread[s][t].len
           p == Peer(s)
<1>1. Types /\ p \in Sides /\ p # s /\ Peer(p) = s /\ \A x \in Sides : x = s \/ x = p
  BY PeerFacts DEF AccountInv
<1>2. /\ thread[s][t].pc = "send" /\ Weight(thread[s][t]) = 0
      /\ thread' = [thread EXCEPT ![s][t] = Transmitting(NewHeader(s, "Rw", len))]
      /\ info' = [info EXCEPT ![s].tx_cnt = Wrap(@ + len)]
      /\ sent' = [sent EXCEPT ![s] = @ + len]
      /\ UNCHANGED <<used, queue, lost>>
  BY DEF Send, At, Weight
<1>3. len \in 0 .. buf_alloc /\ len \in Nat
  BY <1>1, CallTypes, ConstantFacts DEF CallState
<1>4. PICK v \in CallState :
        /\ thread' = [thread EXCEPT ![s][t] = v]
        /\ Weight(v) = len /\ v.pc = "transmit" /\ v.header.fwd_cnt = info[s].fwd_cnt
  BY <1>1, <1>2, <1>3, CallTypes, ZenonT(30) DEF Ops
<1> HIDE DEF len, p
<1>5. /\ thread' \in [Sides -> [Threads -> CallState]]
      /\ thread'[s][t] = v
      /\ \A u \in Threads : u # t => thread'[s][u] = thread[s][u]
      /\ \A x \in Sides : x # s => thread'[x] = thread[x] /\ Made(x)' = Made(x)
      /\ Made(s)' \in Nat
  <2>1. Types /\ thread' = [thread EXCEPT ![s][t] = v]
    BY <1>1, <1>4
  <2> QED BY <2>1, MadeStep, ZenonT(60)
<1>6. Made(s)' + Weight(thread[s][t]) = Made(s) + Weight(v)
  <2>1. Types /\ thread' = [thread EXCEPT ![s][t] = v]
    BY <1>1, <1>4
  <2> QED BY <2>1, MadeStep, ZenonT(120)
<1>7. Made(s)' = Made(s) + len
  BY <1>1, <1>2, <1>4, <1>5, <1>6, MadeFacts
<1>8. \A x \in Sides : Queued(x)' = Queued(x) /\ Queued(x) \in Nat /\ used[x] \in Nat /\ Made(x) \in Nat
  BY <1>1, <1>2, QueuedSame, QueuedFacts, UnreadFacts, MadeFacts, Zenon
<1>9. Unread(s)' = Unread(s) + len /\ Unread(p)' = Unread(p)
  <2>1. Made(p)' = Made(p) /\ used[p] \in Nat /\ used' = used /\ used[s] \in Nat
    BY <1>1, <1>2, <1>5, <1>8, SMTT(30), SMTT(60)
  <2>2. Unread(s)' = Made(s) + len + Queued(s) + used[p]
    BY <1>7, <1>8, <2>1 DEF Unread, p
  <2>3. Unread(p)' = Made(p) + Queued(p) + used[s]
    BY <1>1, <1>8, <2>1 DEF Unread
  <2>4. Unread(s) = Made(s) + Queued(s) + used[p] /\ Unread(p) = Made(p) + Queued(p) + used[s]
    BY <1>1 DEF Unread, p
  <2> QED BY <1>1, <1>3, <1>8, <2>2, <2>3, <2>4, SMTT(30), SMTT(60)
<1>10. /\ sent'[s] = sent[s] + len /\ sent'[p] = sent[p] /\ sent' \in [Sides -> Nat]
       /\ \A x \in Sides : sent[x] \in Nat /\ lost[x] \in Nat /\ Unread(x) \in Nat
  <2>1. sent \in [Sides -> Nat] /\ lost \in [Sides -> Nat]
    BY <1>1 DEF Types
  <2>2. \A x \in Sides : Unread(x) \in Nat
    BY <1>1, UnreadFacts
  <2>3. sent' = [sent EXCEPT ![s] = @ + len]
    BY <1>2
  <2> QED BY <1>1, <1>3, <2>1, <2>2, <2>3
<1>11. BytesRead(s)' = BytesRead(s) /\ BytesRead(p)' = BytesRead(p)
  BY <1>1, <1>2, <1>3, <1>9, <1>10, SMTT(30), SMTT(60) DEF BytesRead, p
<1>12. info[s].tx_cnt \in Counter /\ info[s].fwd_cnt \in Counter /\ BytesRead(s) \in Int
       /\ BytesRead(p) \in Int
  BY <1>1, NumberFacts
<1>13. Wrap(info[s].tx_cnt + len) \in Counter
  BY <1>3, <1>12, WrapFacts DEF Counter
<1>14. /\ info' \in [Sides -> [peer_fwd_cnt : Counter, tx_cnt : Counter, fwd_cnt : Counter,
                                has_pending_credit_request : BOOLEAN]]
       /\ info'[s].tx_cnt = Wrap(info[s].tx_cnt + len) /\ info'[s].fwd_cnt = info[s].fwd_cnt
       /\ info'[p] = info[p]
       /\ \A x \in Sides : info'[x].peer_fwd_cnt = info[x].peer_fwd_cnt
  BY <1>1, <1>2, <1>13, ZenonT(60) DEF Types
<1>15. Types'
  BY <1>1, <1>2, <1>5, <1>10, <1>14, SMTT(30), SMTT(60) DEF Types
<1>16. Counted(s)'
  <2>1. Wrap(info[s].fwd_cnt + 0) = info[s].fwd_cnt
    BY <1>12, WrapSame, SMTT(30), SMTT(60)
  <2>2. BytesRead(s)' = BytesRead(s) + 0 /\ info'[s].fwd_cnt = Wrap(info[s].fwd_cnt + 0)
    BY <1>11, <1>12, <1>14, <2>1, SMTT(30), SMTT(60)
  <2> QED BY <1>3, <1>10, <1>14, <1>15, <2>2, CountedStep, SMTT(30), SMTT(60)
<1>17. Counted(p)'
  BY <1>1, <1>10, <1>11, <1>14, CountedSame, SMTT(30), SMTT(60)
<1>18. AccountInv'
  BY <1>1, <1>15, <1>16, <1>17, SMTT(30), SMTT(60) DEF AccountInv
<1>19. ASSUME AtMostOneSender, CreditInv PROVE CreditInv'
  <2>1. Bounded(s) /\ AllSeen(s) /\ Bounded(p) /\ AllSeen(p)
    BY <1>1, <1>19 DEF CreditInv
  <2>2. t \in Senders /\ sent[s] + len <= MaxBytes /\ Unread(s) + len <= buf_alloc
    BY <1>2, <2>1 DEF Bounded, At, len
  <2>3. \A u \in Threads : thread'[s][u].pc # "send"
    <3>1. ASSUME NEW u \in Threads, u # t, thread[s][u].pc = "send" PROVE FALSE
      BY <1>19, <2>1, <2>2, <3>1, SMTT(30), SMTT(60) DEF Bounded, At, AtMostOneSender
    <3> QED BY <1>4, <1>5, <3>1, SMTT(30), SMTT(60)
  <2>4. Bounded(s)'
    BY <1>2, <1>9, <1>10, <2>1, <2>2, <2>3, SMTT(30), SMTT(60) DEF Bounded, At
  <2>5. Bounded(p)'
    BY <1>1, <1>2, <1>5, <1>9, <1>10, <2>1, SMTT(30), SMTT(60) DEF Bounded, At
  <2>6. AllSeen(s)'
    BY <1>1, <1>2, <1>5, <1>11, <1>14, <2>1, SMTT(30), SMTT(60) DEF AllSeen, At, p
  <2>7. AllSeen(p)'
    <3>1. Seen(v.header.fwd_cnt, BytesRead(s))
      BY <1>4, SeenNow, SMTT(30), SMTT(60)
    <3>2. ASSUME NEW u \in Threads, thread'[s][u].pc = "transmit"
          PROVE  Seen(thread'[s][u].header.fwd_cnt, BytesRead(s))
      BY <1>1, <1>5, <2>1, <3>1, <3>2 DEF AllSeen, At
    <3> QED BY <1>1, <1>2, <1>11, <1>14, <2>1, <3>2, SMTT(30), SMTT(60) DEF AllSeen, At
  <2> QED BY <1>1, <2>4, <2>5, <2>6, <2>7, SMTT(30), SMTT(60) DEF CreditInv
<1> QED BY <1>18, <1>19 DEF Kept

\* send_packet_to_queue: the packet of a call is queued.
LEMMA PacketQueued ==
  ASSUME AccountInv, NEW s \in Sides, NEW t \in Threads, NEW v \in CallState,
         thread[s][t].pc = "transmit", v.pc \in {"wait", "idle"}, Weight(v) = 0,
         thread' = [thread EXCEPT ![s][t] = v],
         queue' = [queue EXCEPT ![s] = Append(@, thread[s][t].header)],
         UNCHANGED <<info, used, sent, lost>>
  PROVE  Kept
<1> DEFINE header == thread[s][t].header
           p == Peer(s)
<1>1. Types /\ p \in Sides /\ p # s /\ Peer(p) = s /\ \A x \in Sides : x = s \/ x = p
  BY PeerFacts DEF AccountInv
<1>2. header \in Header /\ header.len \in Nat /\ Weight(thread[s][t]) = header.len
  BY <1>1, CallTypes, ConstantFacts DEF CallState, Header, Weight
<1>3. Types
  BY <1>1
<1>4. queue' = [queue EXCEPT ![s] = Append(@, header)]
  OBVIOUS
<1> HIDE DEF header, p
<1>5. /\ thread' \in [Sides -> [Threads -> CallState]]
      /\ thread'[s][t] = v
      /\ \A u \in Threads : u # t => thread'[s][u] = thread[s][u]
      /\ \A x \in Sides : x # s => thread'[x] = thread[x] /\ Made(x)' = Made(x)
      /\ Made(s)' \in Nat
  BY <1>3, MadeStep, ZenonT(60)
<1>6. Made(s)' + Weight(thread[s][t]) = Made(s) + Weight(v)
  BY <1>3, MadeStep, ZenonT(120)
<1>7. /\ queue' \in [Sides -> Seq(Header)]
      /\ \A x \in Sides : x # s => queue'[x] = queue[x] /\ Queued(x)' = Queued(x)
      /\ queue'[s] = Append(queue[s], header)
      /\ Queued(s)' = Queued(s) + header.len
  BY <1>2, <1>3, <1>4, QueuedAppend, Zenon
<1>8. /\ Made(s) \in Nat /\ Queued(s) \in Nat /\ used[p] \in Nat
  BY <1>1, MadeFacts, QueuedFacts, UnreadFacts, Zenon
<1>9. Made(s)' + Queued(s)' = Made(s) + Queued(s)
  BY <1>2, <1>5, <1>6, <1>7, <1>8
<1>10. Unread(s)' = Unread(s) /\ Unread(p)' = Unread(p)
  <2>1. Unread(s)' = Made(s)' + Queued(s)' + used[p] /\ Unread(s) = Made(s) + Queued(s) + used[p]
    BY DEF Unread, p
  <2>2. Unread(p)' = Unread(p)
    BY <1>1, <1>5, <1>7 DEF Unread
  <2> QED BY <1>5, <1>7, <1>8, <1>9, <2>1, <2>2
<1>11. \A x \in Sides : Unread(x)' = Unread(x) /\ BytesRead(x)' = BytesRead(x)
  BY <1>1, <1>10 DEF BytesRead, p
<1>12. Types'
  BY <1>3, <1>5, <1>7 DEF Types
<1>13. \A x \in Sides : Counted(x)'
  BY <1>11, CountedSame
<1>14. AccountInv'
  BY <1>12, <1>13 DEF AccountInv
<1>15. ASSUME CreditInv PROVE CreditInv'
  <2>1. Bounded(s) /\ AllSeen(s) /\ Bounded(p) /\ AllSeen(p)
    BY <1>1, <1>15, SMTT(30), SMTT(60) DEF CreditInv
  <2>2. Bounded(s)'
    BY <1>5, <1>11, <2>1, SMTT(30), SMTT(60) DEF Bounded, At
  <2>3. Bounded(p)'
    BY <1>1, <1>5, <1>11, <2>1, SMTT(30), SMTT(60) DEF Bounded, At
  <2>4. AllSeen(s)'
    BY <1>1, <1>5, <1>7, <1>11, <2>1, SMTT(30), SMTT(60) DEF AllSeen, At, p
  <2>5. AllSeen(p)'
    <3>1. Seen(header.fwd_cnt, BytesRead(s))
      BY <1>1, <2>1, SMTT(30), SMTT(60) DEF AllSeen, At, header
    <3>2. Seen(info'[p].peer_fwd_cnt, BytesRead(s)')
      BY <1>1, <1>11, <2>1, SMTT(30), SMTT(60) DEF AllSeen
    <3>3. ASSUME NEW u \in Threads, thread'[s][u].pc = "transmit"
          PROVE  Seen(thread'[s][u].header.fwd_cnt, BytesRead(s)')
      BY <1>1, <1>5, <1>11, <2>1, <3>3, SMTT(30), SMTT(60) DEF AllSeen, At
    <3>4. ASSUME NEW i \in DOMAIN queue'[s]
          PROVE  Seen(queue'[s][i].fwd_cnt, BytesRead(s)')
      <4>1. queue[s] \in Seq(Header)
        BY <1>3 DEF Types
      <4>2. (i \in DOMAIN queue[s] /\ queue'[s][i] = queue[s][i]) \/ queue'[s][i] = header
        BY <1>2, <1>7, <4>1
      <4> QED BY <1>1, <1>11, <2>1, <3>1, <4>2, SMTT(30), SMTT(60) DEF AllSeen
    <3> QED BY <1>1, <3>2, <3>3, <3>4, SMTT(30), SMTT(60) DEF AllSeen, At
  <2> QED BY <1>1, <2>2, <2>3, <2>4, <2>5 DEF CreditInv
<1> QED BY <1>14, <1>15 DEF Kept

LEMMA GuestTransmitKept ==
  ASSUME AccountInv, NEW t \in Threads, GuestTransmit(t)
  PROVE  Kept
<1> DEFINE s == "guest"
<1>1. Types /\ s \in Sides
  BY DEF AccountInv, Sides
<1>2. /\ thread[s][t].pc = "transmit" /\ Move(s, t, "wait") /\ UNCHANGED <<info, used, sent, lost>>
      /\ queue' = [queue EXCEPT ![s] = Append(@, thread[s][t].header)]
  BY DEF GuestTransmit, At
<1> HIDE DEF s
<1>3. PICK v \in CallState :
        thread' = [thread EXCEPT ![s][t] = v] /\ v.pc = "wait" /\ Weight(v) = 0
  BY <1>1, <1>2, MoveFacts
<1> QED BY <1>1, <1>2, <1>3, PacketQueued, ZenonT(30)

LEMMA HostTransmitKept ==
  ASSUME AccountInv, NEW t \in Threads, HostTransmit(t)
  PROVE  Kept
<1> DEFINE s == "host"
<1>1. Types /\ s \in Sides
  BY DEF AccountInv, Sides
<1>2. /\ thread[s][t].pc = "transmit" /\ UNCHANGED <<info, used, sent, lost>>
      /\ thread' = [thread EXCEPT ![s][t] = Idle]
      /\ queue' = [queue EXCEPT ![s] = Append(@, thread[s][t].header)]
  BY DEF HostTransmit, At
<1> HIDE DEF s
<1>3. Idle \in CallState /\ Weight(Idle) = 0 /\ Idle.pc = "idle"
  BY <1>1, CallTypes
<1> QED BY <1>1, <1>2, <1>3, PacketQueued, ZenonT(30)

\* poll: the bytes of the packet are in the receive buffer, or lost.
LEMMA PollKept ==
  ASSUME AccountInv, NEW s \in Sides, Poll(s)
  PROVE  Kept
<1> DEFINE p == Peer(s)
           header == Head(queue[p])
           fits == header.len <= buf_alloc - used[s]
           pc == IF header.op = "CreditRequest" THEN "credit_update" ELSE "idle"
<1>1. Types /\ p \in Sides /\ p # s /\ Peer(p) = s /\ \A x \in Sides : x = s \/ x = p
  BY PeerFacts DEF AccountInv
<1>2. /\ thread[s][Poller].pc = "idle" /\ queue[p] # <<>>
      /\ queue' = [queue EXCEPT ![p] = Tail(@)]
      /\ info' = [info EXCEPT ![s] = UpdateForEvent(@, header)]
      /\ used' = [used EXCEPT ![s] = IF fits THEN @ + header.len ELSE @]
      /\ lost' = [lost EXCEPT ![s] = IF fits THEN @ ELSE @ + header.len]
      /\ Move(s, Poller, pc)
      /\ sent' = sent
  BY DEF Poll, At
<1>3. pc \in {"idle", "credit_update"} /\ Poller \in Threads
  BY DEF Threads
<1> HIDE DEF p, header, pc
<1>4. PICK v \in CallState :
        thread' = [thread EXCEPT ![s][Poller] = v] /\ v.pc = pc /\ Weight(v) = 0
  BY <1>1, <1>2, <1>3, MoveFacts
<1>5. /\ thread' \in [Sides -> [Threads -> CallState]]
      /\ thread'[s][Poller] = v
      /\ \A u \in Threads : u # Poller => thread'[s][u] = thread[s][u]
      /\ \A x \in Sides : x # s => thread'[x] = thread[x] /\ Made(x)' = Made(x)
      /\ Made(s)' \in Nat
  <2>1. Types /\ thread' = [thread EXCEPT ![s][Poller] = v]
    BY <1>1, <1>4
  <2> QED BY <1>3, <2>1, MadeStep, ZenonT(60)
<1>6. Made(s)' + Weight(thread[s][Poller]) = Made(s) + Weight(v)
  <2>1. Types /\ thread' = [thread EXCEPT ![s][Poller] = v]
    BY <1>1, <1>4
  <2> QED BY <1>3, <2>1, MadeStep, ZenonT(60)
<1>7. \A x \in Sides : Made(x)' = Made(x) /\ Made(x) \in Nat
  <2>1. Weight(thread[s][Poller]) = 0
    BY <1>2 DEF Weight
  <2>2. \A x \in Sides : Made(x) \in Nat
    BY <1>1, MadeFacts, ZenonT(30)
  <2>3. Made(s)' = Made(s)
    BY <1>4, <1>5, <1>6, <2>1, <2>2
  <2> QED BY <1>5, <2>2, <2>3
<1>8. /\ queue' \in [Sides -> Seq(Header)]
      /\ queue'[s] = queue[s] /\ Queued(s)' = Queued(s)
      /\ header = queue[p][1] /\ header \in Header
      /\ \A i \in DOMAIN queue'[p] : i + 1 \in DOMAIN queue[p] /\ queue'[p][i] = queue[p][i + 1]
      /\ 1 \in DOMAIN queue[p]
      /\ Queued(p) = header.len + Queued(p)' /\ Queued(p)' \in Nat
  <2>1. Types /\ queue[p] # <<>> /\ queue' = [queue EXCEPT ![p] = Tail(@)]
    BY <1>1, <1>2
  <2> QED BY <1>1, <2>1, QueuedTail, ZenonT(30) DEF header
<1>9. /\ header.len \in Nat /\ header.len <= buf_alloc /\ header.fwd_cnt \in Counter /\ buf_alloc \in Nat
  BY <1>8, ConstantFacts DEF Header
<1>10. /\ \A x \in Sides : Queued(x) \in Nat /\ used[x] \in Nat /\ used[x] <= buf_alloc
       /\ \A x \in Sides : lost[x] \in Nat /\ sent[x] \in Nat /\ Unread(x) \in Nat
  BY <1>1, QueuedFacts, UnreadFacts, NumberFacts, ZenonT(30)
<1>11. /\ info' \in [Sides -> [peer_fwd_cnt : Counter, tx_cnt : Counter, fwd_cnt : Counter,
                                has_pending_credit_request : BOOLEAN]]
       /\ info'[p] = info[p]
       /\ info'[s].tx_cnt = info[s].tx_cnt /\ info'[s].fwd_cnt = info[s].fwd_cnt
       /\ info'[s].peer_fwd_cnt = header.fwd_cnt
  <2>1. info \in [Sides -> [peer_fwd_cnt : Counter, tx_cnt : Counter, fwd_cnt : Counter,
                            has_pending_credit_request : BOOLEAN]]
    BY <1>1 DEF Types
  <2>2. (info[s].has_pending_credit_request /\ header.op # "CreditUpdate") \in BOOLEAN
    BY SMTT(30), SMTT(60)
  <2> QED BY <1>1, <1>2, <1>9, <2>1, <2>2, ZenonT(60) DEF UpdateForEvent
<1>12. /\ used' \in [Sides -> 0 .. buf_alloc] /\ lost' \in [Sides -> Nat]
       /\ used'[p] = used[p] /\ lost'[p] = lost[p]
       /\ used'[s] \in Nat /\ lost'[s] \in Nat
       /\ used'[s] + lost'[s] = used[s] + lost[s] + header.len
       /\ fits => used'[s] = used[s] + header.len /\ lost'[s] = lost[s]
  <2>1. used \in [Sides -> 0 .. buf_alloc] /\ lost \in [Sides -> Nat]
    BY <1>1, SMTT(30), SMTT(60) DEF Types
  <2>2. /\ used'[s] = IF fits THEN used[s] + header.len ELSE used[s]
        /\ lost'[s] = IF fits THEN lost[s] ELSE lost[s] + header.len
        /\ used'[p] = used[p] /\ lost'[p] = lost[p]
    BY <1>1, <1>2, <2>1, SMTT(30), SMTT(60)
  <2>3. used'[s] \in 0 .. buf_alloc /\ lost'[s] \in Nat
    BY <1>9, <1>10, <2>1, <2>2, SMTT(30), SMTT(60)
  <2>4. used' \in [Sides -> 0 .. buf_alloc] /\ lost' \in [Sides -> Nat]
    BY <1>1, <1>2, <2>1, <2>2, <2>3, SMTT(30), SMTT(60)
  <2>5. used[s] \in Nat /\ lost[s] \in Nat /\ used'[s] \in Nat
    BY <1>10, <2>3, SMTT(30), SMTT(60)
  <2>6. used'[s] + lost'[s] = used[s] + lost[s] + header.len
    BY <1>9, <2>2, <2>5, SMTT(30), SMTT(60)
  <2> QED BY <2>2, <2>3, <2>4, <2>5, <2>6, SMTT(30), SMTT(60)
<1> HIDE DEF fits
<1>13. /\ Unread(s)' = Unread(s)
       /\ Unread(p)' = Made(p) + Queued(p)' + used'[s]
       /\ Unread(p) = Made(p) + Queued(p) + used[s]
  <2>1. Made(s)' = Made(s) /\ Made(p)' = Made(p)
    BY <1>1, <1>7
  <2>2. Unread(s) = Made(s) + Queued(s) + used[p] /\ Unread(p) = Made(p) + Queued(p) + used[s]
    BY <1>1 DEF Unread, p
  <2>3. Unread(s)' = Made(s)' + Queued(s)' + used'[p] /\ Unread(p)' = Made(p)' + Queued(p)' + used'[s]
    BY <1>1 DEF Unread, p
  <2> QED BY <1>8, <1>12, <2>1, <2>2, <2>3, SMTT(30), SMTT(60)
<1>14. /\ Unread(p)' + lost'[s] = Unread(p) + lost[s]
       /\ Unread(p)' \in Nat
       /\ header.len + used[s] <= Unread(p)
  <2>1. Made(p) \in Nat /\ Queued(p) \in Nat /\ used[s] \in Nat /\ lost[s] \in Nat
    BY <1>1, <1>7, <1>10, SMTT(30), SMTT(60)
  <2>2. Queued(p) = header.len + Queued(p)' /\ Queued(p)' \in Nat /\ header.len \in Nat
    BY <1>8, <1>9
  <2>3. used'[s] \in Nat /\ lost'[s] \in Nat /\ used'[s] + lost'[s] = used[s] + lost[s] + header.len
    BY <1>12, SMTT(30), SMTT(60)
  <2> QED BY <1>13, <2>1, <2>2, <2>3
<1>15. BytesRead(s)' = BytesRead(s) /\ BytesRead(p)' = BytesRead(p)
  <2>1. BytesRead(s) = sent[p] - Unread(p) - lost[s] /\ BytesRead(p) = sent[s] - Unread(s) - lost[p]
    BY <1>1, SMTT(30), SMTT(60) DEF BytesRead, p
  <2>2. /\ BytesRead(s)' = sent[p] - Unread(p)' - lost'[s]
        /\ BytesRead(p)' = sent[s] - Unread(s)' - lost'[p]
    BY <1>1, <1>2 DEF BytesRead, p
  <2>3. sent[p] \in Nat /\ Unread(p) \in Nat /\ lost[s] \in Nat
    BY <1>1, <1>10, SMTT(30), SMTT(60)
  <2>4. BytesRead(s)' = BytesRead(s)
    BY <1>12, <1>14, <2>1, <2>2, <2>3, SMTT(30), SMTT(60)
  <2> QED BY <1>12, <1>13, <2>1, <2>2, <2>4, SMTT(30), SMTT(60)
<1>16. Types'
  BY <1>1, <1>2, <1>5, <1>8, <1>11, <1>12, SMTT(30), SMTT(60) DEF Types
<1>17. Counted(s)' /\ Counted(p)'
  BY <1>1, <1>2, <1>11, <1>15, CountedSame
<1>18. AccountInv'
  BY <1>1, <1>16, <1>17 DEF AccountInv
<1>19. ASSUME CreditInv PROVE CreditInv'
  <2>1. Bounded(s) /\ AllSeen(s) /\ Bounded(p) /\ AllSeen(p)
    BY <1>1, <1>19, SMTT(30), SMTT(60) DEF CreditInv
  <2>2. fits
    BY <1>1, <1>9, <1>10, <1>14, <2>1, SMTT(30), SMTT(60) DEF Bounded, fits
  <2>3. lost'[s] = lost[s] /\ Unread(p)' = Unread(p)
    BY <1>1, <1>10, <1>12, <1>14, <2>2, SMTT(30), SMTT(60)
  <2>4. Bounded(s)'
    BY <1>2, <1>3, <1>4, <1>5, <1>13, <2>1, <2>3, SMTT(30), SMTT(60) DEF Bounded, At
  <2>5. Bounded(p)'
    BY <1>1, <1>2, <1>5, <1>12, <2>1, <2>3, SMTT(30), SMTT(60) DEF Bounded, At
  <2>6. AllSeen(s)'
    <3>1. Seen(header.fwd_cnt, BytesRead(p))
      BY <1>8, <2>1, SMTT(30), SMTT(60) DEF AllSeen, p
    <3>2. \A i \in DOMAIN queue'[p] : Seen(queue'[p][i].fwd_cnt, BytesRead(p))
      BY <1>8, <2>1, SMTT(30), SMTT(60) DEF AllSeen, p
    <3>3. \A u \in Threads : thread'[p][u].pc = "transmit" => Seen(thread'[p][u].header.fwd_cnt, BytesRead(p))
      BY <1>1, <1>5, <2>1, SMTT(30), SMTT(60) DEF AllSeen, At, p
    <3> QED BY <1>11, <1>15, <3>1, <3>2, <3>3, SMTT(30), SMTT(60) DEF AllSeen, At, p
  <2>7. AllSeen(p)'
    <3>1. \A u \in Threads : thread'[s][u].pc = "transmit" => Seen(thread'[s][u].header.fwd_cnt, BytesRead(s))
      BY <1>1, <1>3, <1>4, <1>5, <2>1 DEF AllSeen, At
    <3> QED BY <1>1, <1>8, <1>11, <1>15, <2>1, <3>1, SMTT(30), SMTT(60) DEF AllSeen, At
  <2> QED BY <1>1, <2>4, <2>5, <2>6, <2>7, SMTT(30), SMTT(60) DEF CreditInv
<1> QED BY <1>18, <1>19 DEF Kept

\* recv: the bytes leave the receive buffer and are forwarded.
LEMMA RecvKept ==
  ASSUME AccountInv, NEW s \in Sides, NEW len \in 1 .. buf_alloc, Recv(s, len)
  PROVE  Kept
<1> DEFINE p == Peer(s)
           bytes_read == IF len < used[s] THEN len ELSE used[s]
<1>1. Types /\ p \in Sides /\ p # s /\ Peer(p) = s /\ \A x \in Sides : x = s \/ x = p
  BY PeerFacts DEF AccountInv
<1>2. /\ used' = [used EXCEPT ![s] = @ - bytes_read]
      /\ info' = [info EXCEPT ![s].fwd_cnt = Wrap(@ + bytes_read)]
      /\ UNCHANGED <<queue, thread, sent, lost>>
  BY DEF Recv
<1>3. \A x \in Sides : /\ used[x] \in Nat /\ used[x] <= buf_alloc /\ sent[x] \in Nat /\ lost[x] \in Nat
                        /\ Unread(x) \in Nat /\ BytesRead(x) \in Int
                        /\ info[x].fwd_cnt \in Counter /\ info[x].tx_cnt \in Counter
  BY <1>1, UnreadFacts, NumberFacts
<1>4. bytes_read \in Nat /\ bytes_read <= used[s]
  BY <1>3
<1> HIDE DEF p, bytes_read
<1>5. /\ used' \in [Sides -> 0 .. buf_alloc] /\ used'[p] = used[p] /\ used'[s] = used[s] - bytes_read
  <2>1. used \in [Sides -> 0 .. buf_alloc] /\ buf_alloc \in Nat
    BY <1>1, ConstantFacts DEF Types
  <2>2. used[s] - bytes_read \in 0 .. buf_alloc
    BY <1>3, <1>4, <2>1
  <2> QED BY <1>1, <1>2, <2>1, <2>2
<1>6. Wrap(info[s].fwd_cnt + bytes_read) \in Counter
  <2>1. info[s].fwd_cnt + bytes_read \in Int
    BY <1>3, <1>4 DEF Counter
  <2> QED BY <2>1, WrapFacts
<1>7. /\ info' \in [Sides -> [peer_fwd_cnt : Counter, tx_cnt : Counter, fwd_cnt : Counter,
                               has_pending_credit_request : BOOLEAN]]
      /\ info'[p] = info[p]
      /\ info'[s].tx_cnt = info[s].tx_cnt /\ info'[s].peer_fwd_cnt = info[s].peer_fwd_cnt
      /\ info'[s].fwd_cnt = Wrap(info[s].fwd_cnt + bytes_read)
  <2>1. info \in [Sides -> [peer_fwd_cnt : Counter, tx_cnt : Counter, fwd_cnt : Counter,
                            has_pending_credit_request : BOOLEAN]]
    BY <1>1 DEF Types
  <2> QED BY <1>1, <1>2, <1>6, <2>1
<1>8. \A x \in Sides : Made(x)' = Made(x) /\ Queued(x)' = Queued(x) /\ Made(x) \in Nat /\ Queued(x) \in Nat
  <2>1. \A x \in Sides : Made(x)' = Made(x)
    BY <1>2 DEF Made, At
  <2> QED BY <1>1, <1>2, <2>1, QueuedSame, MadeFacts, QueuedFacts, ZenonT(60)
<1>9. Unread(s)' = Unread(s) /\ Unread(p)' = Unread(p) - bytes_read
  <2>1. Unread(s) = Made(s) + Queued(s) + used[p] /\ Unread(p) = Made(p) + Queued(p) + used[s]
    BY <1>1 DEF Unread, p
  <2>2. Unread(s)' = Made(s)' + Queued(s)' + used'[p] /\ Unread(p)' = Made(p)' + Queued(p)' + used'[s]
    BY <1>1 DEF Unread, p
  <2>3. Made(p) \in Nat /\ Queued(p) \in Nat /\ used[s] \in Nat
    BY <1>1, <1>3, <1>8, SMTT(30), SMTT(60)
  <2>4. /\ Made(p)' = Made(p) /\ Queued(p)' = Queued(p)
        /\ Made(s)' = Made(s) /\ Queued(s)' = Queued(s)
    BY <1>1, <1>8, SMTT(30), SMTT(60)
  <2> QED BY <1>4, <1>5, <2>1, <2>2, <2>3, <2>4, SMTT(30), SMTT(60)
<1>10. BytesRead(s)' = BytesRead(s) + bytes_read /\ BytesRead(p)' = BytesRead(p)
  <2>1. BytesRead(s) = sent[p] - Unread(p) - lost[s] /\ BytesRead(p) = sent[s] - Unread(s) - lost[p]
    BY <1>1 DEF BytesRead, p
  <2>2. /\ BytesRead(s)' = sent[p] - Unread(p)' - lost[s]
        /\ BytesRead(p)' = sent[s] - Unread(s)' - lost[p]
    BY <1>1, <1>2 DEF BytesRead, p
  <2>3. sent[p] \in Nat /\ Unread(p) \in Nat /\ lost[s] \in Nat
    BY <1>1, <1>3
  <2> QED BY <1>4, <1>9, <2>1, <2>2, <2>3, SMTT(30), SMTT(60)
<1>11. Types'
  BY <1>1, <1>2, <1>5, <1>7, SMTT(30), SMTT(60) DEF Types
<1>12. Counted(s)'
  <2>1. Wrap(info[s].tx_cnt + 0) = info[s].tx_cnt /\ sent[s] + 0 = sent[s]
    BY <1>3, WrapSame
  <2>2. sent'[s] = sent[s] + 0 /\ info'[s].tx_cnt = Wrap(info[s].tx_cnt + 0) /\ 0 \in Nat
    BY <1>2, <1>7, <2>1
  <2> QED BY <1>4, <1>7, <1>10, <1>11, <2>2, CountedStep, SMTT(30), SMTT(60)
<1>13. Counted(p)'
  BY <1>1, <1>2, <1>7, <1>10, CountedSame, SMTT(30), SMTT(60)
<1>14. AccountInv'
  BY <1>1, <1>11, <1>12, <1>13, SMTT(30), SMTT(60) DEF AccountInv
<1>15. ASSUME CreditInv PROVE CreditInv'
  <2>1. Bounded(s) /\ AllSeen(s) /\ Bounded(p) /\ AllSeen(p)
    BY <1>1, <1>15 DEF CreditInv
  <2>2. Bounded(s)'
    BY <1>2, <1>9, <2>1, SMTT(30), SMTT(60) DEF Bounded, At
  <2>3. Bounded(p)'
    <3>1. Unread(p) \in Nat /\ sent[p] \in Nat /\ buf_alloc \in Nat /\ thread' = thread /\ lost' = lost /\ sent' = sent
      BY <1>1, <1>2, <1>3, ConstantFacts, SMTT(30), SMTT(60)
    <3>2. \A u \in Threads : thread[p][u].len \in Nat
      BY <1>1, ConstantFacts, SMTT(30), SMTT(60) DEF Types, CallState
    <3>3. Unread(p)' <= buf_alloc
      BY <1>4, <1>9, <2>1, <3>1, SMTT(30), SMTT(60) DEF Bounded
    <3>4. ASSUME NEW u \in Threads, thread[p][u].pc = "send"
          PROVE  Unread(p)' + thread[p][u].len <= buf_alloc
      <4>1. Unread(p) + thread[p][u].len <= buf_alloc /\ thread[p][u].len \in Nat
        BY <2>1, <3>2, <3>4, SMTT(30), SMTT(60) DEF Bounded, At
      <4> QED BY <1>4, <1>9, <3>1, <4>1, SMTT(30), SMTT(60)
    <3> QED BY <2>1, <3>1, <3>3, <3>4, SMTT(30), SMTT(60) DEF Bounded, At
  <2>4. AllSeen(s)'
    BY <1>2, <1>7, <1>10, <2>1, SMTT(30), SMTT(60) DEF AllSeen, At, p
  <2>5. AllSeen(p)'
    <3>1. BytesRead(s) \in Int /\ BytesRead(s) + bytes_read \in Int
          /\ BytesRead(s) <= BytesRead(s) + bytes_read
      BY <1>3, <1>4
    <3>2. \A c : Seen(c, BytesRead(s)) => Seen(c, BytesRead(s) + bytes_read)
      BY <3>1, SeenKept
    <3> QED BY <1>1, <1>2, <1>7, <1>10, <2>1, <3>2, SMTT(30), SMTT(60) DEF AllSeen, At
  <2> QED BY <1>1, <2>2, <2>3, <2>4, <2>5, SMTT(30), SMTT(60) DEF CreditInv
<1> QED BY <1>14, <1>15 DEF Kept

-----------------------------------------------------------------------------
(* The theorems *)

LEMMA InitKept ==
  ASSUME Init
  PROVE  AccountInv /\ CreditInv
<1>1. /\ First \in Counter /\ First \in Nat /\ 0 \in Counter /\ 0 \in 0 .. buf_alloc
      /\ MaxBytes \in Nat /\ buf_alloc \in Nat
  BY ConstantFacts DEF Counter
<1>2. Idle \in CallState /\ Weight(Idle) = 0 /\ Idle.pc = "idle"
  BY <1>1 DEF Idle, NoHeader, CallState, Header, Ops, Weight
<1>3. Types
  BY <1>1, <1>2 DEF Init, Types
<1>4. \A s \in Sides : Made(s) = 0 /\ Queued(s) = 0 /\ used[s] = 0
  <2>1. ASSUME NEW s \in Sides PROVE Made(s) = 0
    <3> DEFINE f == [t \in Threads |-> Weight(thread[s][t])]
    <3>1. \A t \in Threads : f[t] = 0
      BY <1>2, <2>1 DEF Init
    <3>2. Made(s) = SumOver(f, Threads)
      BY <1>3, MadeFacts
    <3> HIDE DEF f
    <3> QED BY <3>1, <3>2, ConstantFacts, SumZero, SMTT(30), SMTT(60)
  <2>2. ASSUME NEW s \in Sides PROVE Queued(s) = 0
    <3> DEFINE S == DOMAIN queue[s]
               f == [i \in S |-> queue[s][i].len]
    <3>1. S = {} /\ IsFiniteSet({})
      BY <2>2, FS_EmptySet DEF Init
    <3>2. Queued(s) = SumOver(f, S)
      BY DEF Queued
    <3> HIDE DEF f, S
    <3>3. SumOver(f, {}) = 0
      BY <3>1, SumZero, SMTT(30), SMTT(60)
    <3> QED BY <3>1, <3>2, <3>3, SMTT(30), SMTT(60)
  <2> QED BY <2>1, <2>2 DEF Init
<1>5. \A s \in Sides : Unread(s) = 0 /\ sent[s] = 0 /\ lost[s] = 0
  BY <1>4, PeerFacts, SMTT(30), SMTT(60) DEF Init, Unread
<1>6. \A s \in Sides : BytesRead(s) = 0
  BY <1>5, PeerFacts DEF BytesRead
<1>7. Wrap(First + 0) = First
  BY <1>1, WrapSame, SMTT(30), SMTT(60)
<1>8. \A s \in Sides : Counted(s)
  BY <1>5, <1>6, <1>7, SMTT(30), SMTT(60) DEF Counted, Init
<1>9. \A s \in Sides : Bounded(s)
  BY <1>1, <1>2, <1>5 DEF Bounded, At, Init
<1>10. Seen(First, 0)
  BY <1>7, SMTT(30), SMTT(60) DEF Seen
<1>11. \A s \in Sides : AllSeen(s)
  BY <1>2, <1>6, <1>10, PeerFacts DEF AllSeen, At, Init
<1> QED BY <1>3, <1>8, <1>9, <1>11 DEF AccountInv, CreditInv

LEMMA NextKept ==
  ASSUME AccountInv, [Next]_vars
  PROVE  Kept
<1>1. ASSUME NEW s \in Sides, NEW t \in Senders, Checks(s, t) PROVE Kept
  BY <1>1, CheckKept DEF Checks
<1>2. ASSUME NEW s \in Sides, NEW t \in Threads, Continue(s, t) PROVE Kept
  BY <1>2, SendKept, HeaderKept, GuestTransmitKept, GuestTransmittedKept, HostTransmitKept, SMTT(30), SMTT(60)
     DEF Continue
<1>3. ASSUME NEW s \in Sides, Poll(s) PROVE Kept
  BY <1>3, PollKept
<1>4. ASSUME NEW s \in Sides, Receives(s) PROVE Kept
  BY <1>4, RecvKept DEF Receives
<1>5. CASE UNCHANGED vars
  <2>1. AccountInv'
    BY <1>5, ZenonT(30) DEF vars, AccountInv, Types, Counted, BytesRead, Unread, Made, Queued, At
  <2>2. ASSUME CreditInv PROVE CreditInv'
    BY <1>5, <2>2, ZenonT(60)
       DEF vars, CreditInv, Bounded, AllSeen, BytesRead, Unread, Made, Queued, At
  <2> QED BY <2>1, <2>2, SMTT(30) DEF Kept
<1> QED BY <1>1, <1>2, <1>3, <1>4, <1>5 DEF Next

\* With any number of sending threads, tx_cnt and fwd_cnt count exactly the
\* bytes of the packets that were made and the bytes that recv returned, up to
\* wrapping: the two lock sections of send and the steps of poll and recv, in
\* any order, count no byte twice and forget none.
THEOREM CountersExact == Spec => []AccountInv
<1>1. Init => AccountInv
  BY InitKept
<1>2. AccountInv /\ [Next]_vars => AccountInv'
  BY NextKept DEF Kept
<1> QED BY <1>1, <1>2, PTL DEF Spec

\* While one thread of each side sends: the space it has checked is still there
\* when it sends, and every fwd_cnt it may yet see is one its peer has had.
THEOREM CreditInvariant == AtMostOneSender => (Spec => [](AccountInv /\ CreditInv))
<1> SUFFICES ASSUME AtMostOneSender PROVE Spec => [](AccountInv /\ CreditInv)
  OBVIOUS
<1>1. Init => AccountInv /\ CreditInv
  BY InitKept
<1>2. (AccountInv /\ CreditInv) /\ [Next]_vars => (AccountInv /\ CreditInv)'
  BY NextKept, SMTT(30) DEF Kept
<1> QED BY <1>1, <1>2, PTL DEF Spec

LEMMA Accounted ==
  ASSUME AccountInv, CreditInv, NEW s \in Sides
  PROVE  Wrap(info[s].tx_cnt - info[Peer(s)].fwd_cnt) = Unread(s) + lost[Peer(s)]
<1> DEFINE p == Peer(s)
           a == First + sent[s]
           b == First + BytesRead(p)
<1>1. p \in Sides /\ Peer(p) = s /\ Types /\ Bounded(s) /\ Bounded(p)
  BY PeerFacts, SMTT(30), SMTT(60) DEF AccountInv, CreditInv
<1>2. /\ sent[s] \in Nat /\ Unread(s) \in Nat /\ lost[p] = 0 /\ BytesRead(p) \in Int
      /\ Unread(s) <= buf_alloc /\ First \in Nat
      /\ buf_alloc \in Nat /\ MaxBytes \in Nat /\ MaxBytes + buf_alloc < Modulus /\ Modulus \in Nat
  BY <1>1, NumberFacts, UnreadFacts, ConstantFacts, SMTT(30), SMTT(60) DEF Bounded
<1>3. BytesRead(p) = sent[s] - Unread(s)
  BY <1>1, <1>2 DEF BytesRead
<1>4. a \in Int /\ b \in Int /\ a - b = Unread(s) /\ a - b \in Counter
  BY <1>2, <1>3 DEF Counter
<1>5. info[s].tx_cnt = Wrap(a) /\ info[p].fwd_cnt = Wrap(b)
  BY <1>1 DEF AccountInv, Counted
<1> HIDE DEF a, b, p
<1>6. Wrap(info[s].tx_cnt - info[p].fwd_cnt) = Unread(s)
  BY <1>4, <1>5, WrapDifference
<1> QED BY <1>2, <1>6 DEF p

\* One sending thread: tx_cnt and the peer's fwd_cnt differ by exactly the bytes
\* that are on their way or unread, wherever the counters wrap.
THEOREM BytesAreAccounted == AtMostOneSender => (Spec => []BytesAccounted)
<1> SUFFICES ASSUME AtMostOneSender PROVE Spec => []BytesAccounted
  OBVIOUS
<1>1. AccountInv /\ CreditInv => BytesAccounted
  BY Accounted DEF BytesAccounted
<1> QED BY <1>1, CreditInvariant, PTL

\* One sending thread: peer_free never exceeds the space that the peer has,
\* whatever older fwd_cnt update_for_event has stored last.
THEOREM CreditSafe == AtMostOneSender => (Spec => []CreditIsSafe)
<1> SUFFICES ASSUME AtMostOneSender PROVE Spec => []CreditIsSafe
  OBVIOUS
<1>1. AccountInv /\ CreditInv => CreditIsSafe
  BY PeerFreeFacts DEF CreditIsSafe
<1> QED BY <1>1, CreditInvariant, PTL

\* One sending thread: poll never drops data with OutputBufferTooShort.
THEOREM NothingIsLost == AtMostOneSender => (Spec => []NothingLost)
<1> SUFFICES ASSUME AtMostOneSender PROVE Spec => []NothingLost
  OBVIOUS
<1>1. AccountInv /\ CreditInv => NothingLost
  BY DEF CreditInv, Bounded, NothingLost
<1> QED BY <1>1, CreditInvariant, PTL
=============================================================================
