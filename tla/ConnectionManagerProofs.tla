------------------------ MODULE ConnectionManagerProofs ------------------------
(***************************************************************************)
(* The table of connections, for every number of threads, peers, ports,    *)
(* packets and failing sends: with poll no two entries have the same       *)
(* addresses, a call removes only entries it is about, and unread data     *)
(* stays in the table.                                                     *)
(***************************************************************************)
EXTENDS ConnectionManager, BasicFacts

Conn == [key : Keys \cup {None}, used : Nat, peer_requested_shutdown : BOOLEAN]
Packet == [key : Keys, event : Events]
CallState == [pc : {"idle", "transmit", "undo", "poll", "direct", "deliver"},
          id : 0 .. MaxConnections,
          sends : {"Request", "Response", "Rst", "Rw", "CreditUpdate", None},
          packet : Packet \cup {None}]

\* No two entries of a table have the same addresses.
Unique(table, conn) ==
  \A i, j \in DOMAIN table : conn[table[i]].key = conn[table[j]].key => i = j

TableInv ==
  /\ direct \in BOOLEAN
  /\ connection \in [Ids -> Conn]
  /\ connections \in Seq(Ids)
  /\ offered \subseteq Ids
  /\ thread \in [Threads -> CallState]
  /\ ~direct => offered = {}
  /\ \A t \in Threads : At(t, "direct") \/ At(t, "deliver") => direct
  /\ \A t \in Threads : At(t, "direct") => thread[t].packet # None

IInv == TableInv /\ (~direct => Unique(connections, connection))

-----------------------------------------------------------------------------
(* Facts about the operators the model is built from *)

LEMMA IdFacts == Ids \subseteq Nat /\ Ids \subseteq 0 .. MaxConnections /\ 0 \in 0 .. MaxConnections
                 /\ MaxConnections \in Nat
BY ConnectionAssumption DEF Ids

\* The least element of a set of numbers is one of them.
LEMMA MinFact ==
  ASSUME NEW S, S \subseteq Nat, S # {}
  PROVE  Min(S) \in S
<1>1. \E m \in S : \A n \in S : m <= n
  BY SmallestOf, Zenon
<1> QED BY <1>1, Zenon DEF Min

\* Connection::new makes a connection that nothing refers to.
LEMMA FreshFact ==
  ASSUME Ids \ Live # {}
  PROVE  Fresh \in Ids /\ Fresh \notin Live
<1>1. Ids \ Live \subseteq Nat
  BY IdFacts, Zenon
<1> QED BY <1>1, MinFact DEF Fresh

LEMMA NewConnectionFact ==
  /\ \A key \in Keys : NewConnection(key) \in Conn /\ NewConnection(key).key = key
  /\ NewConnection(None) \in Conn
  /\ NewConnection(None).used = 0
BY DEF NewConnection, Conn

LEMMA EntriesFacts ==
  ASSUME NEW s \in Seq(Ids)
  PROVE  /\ DOMAIN s = 1 .. Len(s) /\ Len(s) \in Nat
         /\ \A i \in 1 .. Len(s) : s[i] \in Range(s) /\ s[i] \in Ids
         /\ \A id \in Range(s) : id \in Ids /\ \E i \in 1 .. Len(s) : id = s[i]
BY DEF Range

\* get_connection finds an entry with these addresses if there is one.
LEMMA LookupFacts ==
  ASSUME TableInv, NEW key
  PROVE  /\ get_connection(key) \in 0 .. Len(connections)
         /\ get_connection(key) # 0 =>
              /\ get_connection(key) \in 1 .. Len(connections)
              /\ connection[connections[get_connection(key)]].key = key
              /\ connections[get_connection(key)] \in Ids
         /\ get_connection(key) = 0 =>
              \A j \in 1 .. Len(connections) : connection[connections[j]].key # key
<1> DEFINE found == {i \in DOMAIN connections : connection[connections[i]].key = key}
<1>1. connections \in Seq(Ids)
  BY DEF TableInv
<1>2. DOMAIN connections = 1 .. Len(connections) /\ Len(connections) \in Nat
  BY <1>1, EntriesFacts
<1>3. get_connection(key) = IF found = {} THEN 0 ELSE Min(found)
  BY DEF get_connection
<1>4. CASE found = {}
  BY <1>2, <1>3, <1>4, SMTT(30)
<1>5. CASE found # {}
  <2>1. Min(found) \in found
    <3>1. found \subseteq Nat
      BY <1>2
    <3> QED BY <1>5, <3>1, MinFact
  <2>2. Min(found) \in 1 .. Len(connections) /\ connection[connections[Min(found)]].key = key
    BY <1>2, <2>1
  <2>3. get_connection(key) # 0 /\ get_connection(key) = Min(found)
    BY <1>2, <1>3, <1>5, <2>2
  <2> QED BY <1>1, <1>2, <2>2, <2>3, EntriesFacts
<1> QED BY <1>4, <1>5

\* A table picks the entries of another: no entry twice, only `gone` may lack.
Picks(s2, s, gone) ==
  /\ s2 \in Seq(Ids)
  /\ \A id \in Range(s) : id \in Range(s2) \/ id = gone
  /\ \E p \in [1 .. Len(s2) -> 1 .. Len(s)] :
       /\ \A a, b \in 1 .. Len(s2) : p[a] = p[b] => a = b
       /\ \A a \in 1 .. Len(s2) : s2[a] = s[p[a]]

LEMMA PicksItself ==
  ASSUME NEW s \in Seq(Ids), NEW gone
  PROVE  Picks(s, s, gone)
<1> DEFINE p == [a \in 1 .. Len(s) |-> a]
<1>1. p \in [1 .. Len(s) -> 1 .. Len(s)]
  OBVIOUS
<1>2. \A a \in 1 .. Len(s) : p[a] = a
  OBVIOUS
<1> HIDE DEF p
<1> QED BY <1>1, <1>2 DEF Picks

\* Vec::swap_remove removes the entry and keeps the others.
LEMMA SwapRemoveFacts ==
  ASSUME connections \in Seq(Ids), NEW i \in 1 .. Len(connections)
  PROVE  Picks(swap_remove(i), connections, connections[i])
<1> DEFINE n == Len(connections)
           s2 == swap_remove(i)
           p == [a \in 1 .. n - 1 |-> IF a = i THEN n ELSE a]
<1>1. n \in Nat /\ n >= 1 /\ i \in 1 .. n
      /\ \A j \in 1 .. n : connections[j] \in Ids
  BY EntriesFacts
<1>2. s2 = [a \in 1 .. n - 1 |-> IF a = i THEN connections[n] ELSE connections[a]]
  BY <1>1 DEF swap_remove
<1>3. s2 \in Seq(Ids) /\ Len(s2) = n - 1
  BY <1>1, <1>2
<1>4. p \in [1 .. n - 1 -> 1 .. n]
  BY <1>1
<1>5. \A a \in 1 .. n - 1 : p[a] = IF a = i THEN n ELSE a
  OBVIOUS
<1>6. \A a \in 1 .. n - 1 : s2[a] = IF a = i THEN connections[n] ELSE connections[a]
  BY <1>2
<1> HIDE DEF s2, p, n
<1>7. \A a, b \in 1 .. n - 1 : p[a] = p[b] => a = b
  BY <1>1, <1>5
<1>8. \A a \in 1 .. n - 1 : s2[a] = connections[p[a]]
  BY <1>5, <1>6
<1>9. ASSUME NEW id \in Range(connections), id # connections[i]
      PROVE  id \in Range(s2)
  <2>1. PICK j \in 1 .. n : id = connections[j]
    BY EntriesFacts DEF n
  <2>2. j # i
    BY <1>9, <2>1
  <2>3. CASE j = n
    <3>1. i \in 1 .. n - 1 /\ s2[i] = id
      BY <1>1, <1>6, <2>1, <2>2, <2>3
    <3> QED BY <1>3, <3>1, EntriesFacts
  <2>4. CASE j # n
    <3>1. j \in 1 .. n - 1 /\ s2[j] = id
      BY <1>1, <1>6, <2>1, <2>2, <2>4
    <3> QED BY <1>3, <3>1, EntriesFacts
  <2> QED BY <2>3, <2>4
<1>10. Picks(s2, connections, connections[i])
  BY <1>3, <1>4, <1>7, <1>8, <1>9, SMTT(30) DEF Picks, n
<1> QED BY <1>10 DEF s2

\* Vec::retain keeps every other entry.
LEMMA RetainFacts ==
  ASSUME connections \in Seq(Ids), NEW id
  PROVE  Picks(retain(id), connections, id)
<1> DEFINE n == Len(connections)
           step == [i \in 1 .. n |-> [s \in Seq(Ids) |->
                      IF connections[i] = id THEN s ELSE Append(s, connections[i])]]
           Kept(g) == [i \in 0 .. n |->
                         IF i = 0 THEN <<>>
                         ELSE IF connections[i] = id THEN g[i - 1]
                         ELSE Append(g[i - 1], connections[i])]
           kept == CHOOSE g : g = Kept(g)
<1>1. n \in Nat /\ \A i \in 1 .. n : connections[i] \in Ids
  BY EntriesFacts
<1>2. step \in [1 .. n -> [Seq(Ids) -> Seq(Ids)]]
  BY <1>1
<1>3. \A i \in 1 .. n : \A s \in Seq(Ids) :
        step[i][s] = IF connections[i] = id THEN s ELSE Append(s, connections[i])
  OBVIOUS
<1>4. <<>> \in Seq(Ids)
  OBVIOUS
<1> HIDE DEF step, n
<1>5. PICK g \in [0 .. n -> Seq(Ids)] :
        g[0] = <<>> /\ \A i \in 1 .. n : g[i] = step[i][g[i - 1]]
  <2>1. n \in Nat
    BY <1>1
  <2>2. \E g : IsNatRecursion(g, n, Seq(Ids), <<>>, step)
    BY <1>2, <1>4, <2>1, NatRecursion, Zenon
  <2> QED BY <2>2, Zenon DEF IsNatRecursion
<1>6. g = Kept(g)
  <2>1. \A i \in 1 .. n : i - 1 \in 0 .. n /\ g[i - 1] \in Seq(Ids)
    BY <1>1
  <2>2. \A i \in 1 .. n : g[i] = IF connections[i] = id THEN g[i - 1]
                                 ELSE Append(g[i - 1], connections[i])
    BY <1>3, <1>5, <2>1, Zenon
  <2>3. \A i \in 0 .. n : i # 0 => i \in 1 .. n
    BY <1>1
  <2> QED BY <1>5, <2>2, <2>3, Zenon
<1>7. kept = Kept(kept)
  <2> HIDE DEF Kept
  <2> QED BY <1>6, Zenon
<1>8. retain(id) = kept[n]
  BY DEF retain, n
<1>9. /\ kept[0] = <<>>
      /\ \A i \in 1 .. n : kept[i] = IF connections[i] = id THEN kept[i - 1]
                                     ELSE Append(kept[i - 1], connections[i])
  <2> HIDE DEF kept
  <2>1. 0 \in 0 .. n /\ \A i \in 1 .. n : i \in 0 .. n /\ i # 0
    BY <1>1
  <2> QED BY <1>7, <2>1, Zenon
<1> HIDE DEF kept, Kept
<1> DEFINE Good(m) ==
             /\ kept[m] \in Seq(Ids)
             /\ \A j \in 1 .. m : connections[j] = id \/ connections[j] \in Range(kept[m])
             /\ \E p \in [1 .. Len(kept[m]) -> 1 .. m] :
                  /\ \A a, b \in 1 .. Len(kept[m]) : p[a] = p[b] => a = b
                  /\ \A a \in 1 .. Len(kept[m]) : kept[m][a] = connections[p[a]]
           G == {m \in 0 .. n : Good(m)}
<1>10. 0 \in G
  <2>1. Len(kept[0]) = 0 /\ 1 .. 0 = {} /\ 0 \in 0 .. n
    BY <1>1, <1>9
  <2> DEFINE p == [a \in {} |-> 1]
  <2>2. p \in [1 .. Len(kept[0]) -> 1 .. 0]
    BY <2>1
  <2> HIDE DEF p
  <2>3. kept[0] \in Seq(Ids)
    BY <1>9
  <2>4. Good(0)
    BY <2>1, <2>2, <2>3, Zenon
  <2> QED BY <2>1, <2>4
<1>11. ASSUME NEW m \in 0 .. n - 1, m \in G
       PROVE  m + 1 \in G
  <2>1. m + 1 \in 0 .. n /\ m + 1 \in 1 .. n /\ (m + 1) - 1 = m /\ m \in Nat
    BY <1>1
  <2>2. Good(m)
    BY <1>11, Zenon
  <2>3. PICK p \in [1 .. Len(kept[m]) -> 1 .. m] :
          /\ \A a, b \in 1 .. Len(kept[m]) : p[a] = p[b] => a = b
          /\ \A a \in 1 .. Len(kept[m]) : kept[m][a] = connections[p[a]]
    BY <2>2
  <2>4. CASE connections[m + 1] = id
    <3>1. kept[m + 1] = kept[m]
      BY <1>9, <2>1, <2>4
    <3>2. p \in [1 .. Len(kept[m + 1]) -> 1 .. m + 1]
      BY <2>1, <3>1
    <3>3. \A j \in 1 .. m + 1 : connections[j] = id \/ connections[j] \in Range(kept[m + 1])
      BY <2>1, <2>2, <2>4, <3>1
    <3>4. Good(m + 1)
      BY <2>2, <2>3, <3>1, <3>2, <3>3, SMTT(30)
    <3> QED BY <2>1, <3>4, SMTT(30)
  <2>5. CASE connections[m + 1] # id
    <3> DEFINE s == kept[m]
               x == connections[m + 1]
    <3>1. kept[m + 1] = Append(s, x)
      BY <1>9, <2>1, <2>5, Zenon
    <3>2. s \in Seq(Ids) /\ x \in Ids /\ Len(s) \in Nat
      BY <1>1, <2>1, <2>2, SMTT(30)
    <3> HIDE DEF s, x
    <3>3. /\ Append(s, x) \in Seq(Ids) /\ Len(Append(s, x)) = Len(s) + 1
          /\ \A a \in 1 .. Len(s) + 1 : Append(s, x)[a] = IF a = Len(s) + 1 THEN x ELSE s[a]
      BY <3>2
    <3> DEFINE q == [a \in 1 .. Len(s) + 1 |-> IF a = Len(s) + 1 THEN m + 1 ELSE p[a]]
    <3>4. q \in [1 .. Len(s) + 1 -> 1 .. m + 1]
      BY <2>1, <3>2 DEF s
    <3>5. \A a \in 1 .. Len(s) + 1 : q[a] = IF a = Len(s) + 1 THEN m + 1 ELSE p[a]
      OBVIOUS
    <3> HIDE DEF q
    <3>6. \A a \in 1 .. Len(s) : p[a] \in 1 .. m
      BY DEF s
    <3>7. \A a \in 1 .. Len(s) + 1 : a = Len(s) + 1 \/ a \in 1 .. Len(s)
      BY <3>2
    <3>8. \A a, b \in 1 .. Len(s) + 1 : q[a] = q[b] => a = b
      <4>1. \A a \in 1 .. Len(s) : q[a] # m + 1 /\ q[a] = p[a]
        BY <2>1, <3>2, <3>5, <3>6
      <4>2. q[Len(s) + 1] = m + 1
        BY <3>2, <3>5
      <4>3. \A a, b \in 1 .. Len(s) : p[a] = p[b] => a = b
        BY <2>3 DEF s
      <4> QED BY <3>7, <4>1, <4>2, <4>3
    <3>9. \A a \in 1 .. Len(s) + 1 : Append(s, x)[a] = connections[q[a]]
      BY <2>3, <3>3, <3>5, <3>7 DEF s, x
    <3>10. ASSUME NEW j \in 1 .. m + 1, connections[j] # id
           PROVE  connections[j] \in Range(Append(s, x))
      <4>1. CASE j = m + 1
        <5>1. Append(s, x)[Len(s) + 1] = connections[j] /\ Len(s) + 1 \in 1 .. Len(s) + 1
          BY <3>2, <3>3, <4>1 DEF x
        <5> QED BY <3>3, <5>1, EntriesFacts, Zenon
      <4>2. CASE j # m + 1
        <5>1. connections[j] \in Range(s)
          BY <2>1, <2>2, <3>10, <4>2 DEF s
        <5>2. PICK a \in 1 .. Len(s) : connections[j] = s[a]
          BY <3>2, <5>1, EntriesFacts, Zenon
        <5>3. Append(s, x)[a] = connections[j] /\ a \in 1 .. Len(s) + 1
          BY <3>2, <3>3, <5>2
        <5> QED BY <3>3, <5>3, EntriesFacts, Zenon
      <4> QED BY <4>1, <4>2
    <3>11. kept[m + 1] \in Seq(Ids) /\ Len(kept[m + 1]) = Len(s) + 1
      BY <3>1, <3>3
    <3>12. \A a \in 1 .. Len(kept[m + 1]) : kept[m + 1][a] = connections[q[a]]
      BY <3>1, <3>9, <3>11
    <3>13. \A j \in 1 .. m + 1 : connections[j] = id \/ connections[j] \in Range(kept[m + 1])
      BY <3>1, <3>10
    <3>14. q \in [1 .. Len(kept[m + 1]) -> 1 .. m + 1]
           /\ \A a, b \in 1 .. Len(kept[m + 1]) : q[a] = q[b] => a = b
      BY <3>4, <3>8, <3>11
    <3>15. Good(m + 1)
      BY <3>11, <3>12, <3>13, <3>14, SMTT(30)
    <3> QED BY <2>1, <3>15
  <2> QED BY <2>4, <2>5, Zenon
<1> HIDE DEF G
<1>12. \A m \in 0 .. n : m \in G
  BY <1>1, <1>10, <1>11, NatInductionUpTo, Zenon
<1>13. n \in G
  BY <1>1, <1>12
<1>14. Good(n)
  BY <1>13 DEF G
<1>15. \A j \in Range(connections) : j = id \/ j \in Range(kept[n])
  BY <1>14, EntriesFacts DEF n
<1> QED BY <1>8, <1>14, <1>15, SMTT(30) DEF Picks, n

-----------------------------------------------------------------------------
(* What each step has to show, by its effect on the table *)

OthersKeptStep ==
  \A t \in Threads : thread'[t] # thread[t] /\ ~At(t, "idle") =>
    \A id \in Entries \ Range(connections') : connection[id].key = About(t)

UnreadDataKeptStep ==
  \A id \in Entries \ Range(connections') : connection[id].used = 0 \/ Loses(id)

Sound == IInv' /\ OthersKeptStep /\ UnreadDataKeptStep

\* At most the entry `gone` is removed.
LEMMA RemovedSound ==
  ASSUME IInv, TableInv', direct' = direct,
         NEW gone, Picks(connections', connections, gone),
         \A id \in Range(connections') : connection'[id].key = connection[id].key,
         gone \in Entries \ Range(connections') =>
           /\ \A t \in Threads : thread'[t] # thread[t] /\ ~At(t, "idle") =>
                connection[gone].key = About(t)
           /\ connection[gone].used = 0 \/ Loses(gone)
  PROVE  Sound
<1>1. connections \in Seq(Ids) /\ connections' \in Seq(Ids)
  BY DEF IInv, TableInv, Picks
<1>2. \A id \in Entries \ Range(connections') : id = gone
  BY DEF Entries, Picks
<1>3. ASSUME ~direct PROVE Unique(connections', connection')
  <2>1. PICK p \in [1 .. Len(connections') -> 1 .. Len(connections)] :
          /\ \A a, b \in 1 .. Len(connections') : p[a] = p[b] => a = b
          /\ \A a \in 1 .. Len(connections') : connections'[a] = connections[p[a]]
    BY DEF Picks
  <2>2. \A a \in 1 .. Len(connections') :
          connection'[connections'[a]].key = connection[connections'[a]].key
    BY <1>1, EntriesFacts
  <2>3. Unique(connections, connection)
    BY <1>3 DEF IInv
  <2>4. DOMAIN connections = 1 .. Len(connections) /\ DOMAIN connections' = 1 .. Len(connections')
    BY <1>1
  <2>5. ASSUME NEW a \in 1 .. Len(connections'), NEW b \in 1 .. Len(connections'),
               connection'[connections'[a]].key = connection'[connections'[b]].key
        PROVE  a = b
    <3>1. connection[connections[p[a]]].key = connection[connections[p[b]]].key
      BY <2>1, <2>2, <2>5
    <3>2. p[a] = p[b]
      BY <2>3, <2>4, <3>1 DEF Unique
    <3> QED BY <2>1, <3>2
  <2> QED BY <2>4, <2>5 DEF Unique
<1>4. IInv'
  BY <1>3 DEF IInv, Unique
<1>5. OthersKeptStep
  BY <1>2 DEF OthersKeptStep
<1>6. UnreadDataKeptStep
  BY <1>2 DEF UnreadDataKeptStep
<1> QED BY <1>4, <1>5, <1>6 DEF Sound

\* The table and the addresses in it stay as they are.
LEMMA SameTableSound ==
  ASSUME IInv, TableInv', direct' = direct, connections' = connections,
         \A id \in Range(connections) : connection'[id].key = connection[id].key
  PROVE  Sound
<1>1. connections \in Seq(Ids)
  BY DEF IInv, TableInv
<1>2. Picks(connections', connections, None)
  BY <1>1, PicksItself
<1>3. Entries \ Range(connections') = {}
  BY DEF Entries
<1> HIDE DEF Entries
<1> QED BY <1>2, <1>3, RemovedSound

\* One entry is added, with addresses that poll has not found in the table.
LEMMA AddedSound ==
  ASSUME IInv, TableInv', direct' = direct, NEW id \in Ids,
         connections' = Append(connections, id),
         \A x \in Range(connections) : connection'[x].key = connection[x].key,
         ~direct => \A i \in 1 .. Len(connections) :
                      connection[connections[i]].key # connection'[id].key
  PROVE  Sound
<1> DEFINE n == Len(connections)
<1>1. connections \in Seq(Ids)
  BY DEF IInv, TableInv
<1>2. /\ n \in Nat
      /\ connections' \in Seq(Ids) /\ Len(connections') = n + 1
      /\ connections'[n + 1] = id
      /\ \A i \in 1 .. n : connections'[i] = connections[i]
      /\ DOMAIN connections = 1 .. n /\ DOMAIN connections' = 1 .. n + 1
  BY <1>1
<1>3. Entries \ Range(connections') = {}
  <2>1. ASSUME NEW x \in Range(connections) PROVE x \in Range(connections')
    <3>1. PICK i \in 1 .. n : x = connections[i]
      BY <1>1, EntriesFacts
    <3>2. i \in 1 .. Len(connections') /\ connections'[i] = x
      BY <1>2, <3>1
    <3> QED BY <1>2, <3>2, EntriesFacts, Zenon
  <2> QED BY <2>1 DEF Entries
<1>4. ASSUME ~direct PROVE Unique(connections', connection')
  <2>1. \A i \in 1 .. n : connection'[connections'[i]].key = connection[connections[i]].key
    BY <1>1, <1>2, EntriesFacts
  <2>2. \A i \in 1 .. n : connection'[connections'[i]].key # connection'[id].key
    BY <1>4, <2>1
  <2>3. \A i, j \in 1 .. n :
          connection'[connections'[i]].key = connection'[connections'[j]].key => i = j
    BY <1>2, <1>4, <2>1 DEF IInv, Unique
  <2>4. \A i \in 1 .. n + 1 : i = n + 1 \/ i \in 1 .. n
    BY <1>2
  <2> QED BY <1>2, <2>2, <2>3, <2>4 DEF Unique
<1>5. IInv'
  BY <1>4 DEF IInv, Unique
<1> QED BY <1>3, <1>5 DEF Sound, OthersKeptStep, UnreadDataKeptStep

-----------------------------------------------------------------------------
(* Typing of the steps *)

LEMMA CallFacts ==
  /\ Idle \in CallState /\ Idle.pc = "idle"
  /\ \A id \in 0 .. MaxConnections, pc \in {"transmit", "undo"},
        sends \in {"Request", "Response", "Rst", "Rw", "CreditUpdate", None} :
       [pc |-> pc, id |-> id, sends |-> sends, packet |-> None] \in CallState
BY IdFacts DEF Idle, CallState

\* A step of thread t that leaves its call in the state v.
LEMMA TypeStep ==
  ASSUME TableInv, direct' = direct, connection' \in [Ids -> Conn], connections' \in Seq(Ids),
         offered' \subseteq Ids, ~direct => offered' = {},
         NEW t \in Threads, NEW v \in CallState, thread' = [thread EXCEPT ![t] = v],
         v.pc \in {"direct", "deliver"} => direct, v.pc = "direct" => v.packet # None
  PROVE  /\ TableInv'
         /\ thread'[t] = v
         /\ \A u \in Threads : thread'[u] # thread[u] => u = t
<1>1. thread' \in [Threads -> CallState] /\ thread'[t] = v
  BY DEF TableInv
<1>2. \A u \in Threads : u # t => thread'[u] = thread[u]
  BY DEF TableInv
<1>3. \A u \in Threads : At(u, "direct")' \/ At(u, "deliver")' => direct
  BY <1>1, <1>2 DEF TableInv, At
<1>4. \A u \in Threads : At(u, "direct")' => thread'[u].packet # None
  BY <1>1, <1>2, SMTT(30) DEF TableInv, At
<1> QED BY <1>1, <1>2, <1>3, <1>4 DEF TableInv

LEMMA ReturnStep ==
  ASSUME TableInv, direct' = direct, connection' \in [Ids -> Conn], connections' \in Seq(Ids),
         offered' \subseteq Ids, ~direct => offered' = {}, NEW t \in Threads, Return(t)
  PROVE  TableInv' /\ \A u \in Threads : thread'[u] # thread[u] => u = t
BY TypeStep, CallFacts, Zenon DEF Return

LEMMA GotoStep ==
  ASSUME TableInv, direct' = direct, connection' \in [Ids -> Conn], connections' \in Seq(Ids),
         offered' \subseteq Ids, ~direct => offered' = {}, NEW t \in Threads,
         NEW pc \in {"transmit", "undo"}, NEW id \in 0 .. MaxConnections,
         NEW sends \in {"Request", "Response", "Rst", "Rw", "CreditUpdate", None},
         Goto(t, pc, id, sends)
  PROVE  /\ TableInv'
         /\ \A u \in Threads : thread'[u] # thread[u] => u = t
         /\ thread'[t].sends = sends
<1> DEFINE v == [pc |-> pc, id |-> id, sends |-> sends, packet |-> None]
<1>1. v \in CallState /\ v.pc = pc /\ v.sends = sends
  BY CallFacts, Zenon
<1>2. thread' = [thread EXCEPT ![t] = v]
  BY DEF Goto
<1> HIDE DEF v
<1>3. v.pc \notin {"direct", "deliver"}
  BY <1>1
<1> QED BY <1>1, <1>2, <1>3, TypeStep, Zenon

\* What nothing refers to is dropped; the entries of the table are kept.
LEMMA DropFacts ==
  ASSUME TableInv, DropUnreferenced
  PROVE  /\ connection' \in [Ids -> Conn]
         /\ \A id \in Ids : id \in Range(connections') => connection'[id] = connection[id]
         /\ \A id \in Ids : connection[id].used = 0 => connection'[id].used = 0
<1>1. \A id \in Ids : connection'[id] = IF id \in Live' THEN connection[id] ELSE NewConnection(None)
  BY DEF DropUnreferenced
<1>2. connection' \in [Ids -> Conn]
  BY NewConnectionFact DEF DropUnreferenced, TableInv
<1>3. Range(connections') \subseteq Live'
  BY DEF Live
<1> QED BY <1>1, <1>2, <1>3, NewConnectionFact

\* A new connection is none that is in the table.
LEMMA NewFacts ==
  ASSUME TableInv, Ids \ Live # {}, NEW key \in Keys,
         connection' = [connection EXCEPT ![Fresh] = NewConnection(key)]
  PROVE  /\ connection' \in [Ids -> Conn]
         /\ connection'[Fresh].key = key
         /\ \A id \in Range(connections) : connection'[id] = connection[id]
<1>1. Fresh \in Ids /\ Fresh \notin Range(connections)
  BY FreshFact DEF Live
<1>2. connection \in [Ids -> Conn] /\ NewConnection(key) \in Conn /\ NewConnection(key).key = key
  BY NewConnectionFact DEF TableInv
<1>3. \A id \in Range(connections) : id \in Ids
  BY EntriesFacts DEF TableInv
<1> QED BY <1>1, <1>2, <1>3

-----------------------------------------------------------------------------
(* Calls of the client *)

LEMMA ListenSound ==
  ASSUME IInv, NEW t, NEW port, listen(t, port) \/ unlisten(t, port)
  PROVE  Sound
<1>1. TableInv' /\ UNCHANGED <<direct, connection, connections>>
  BY DEF listen, unlisten, IInv, TableInv, At
<1> QED BY <1>1, SameTableSound

LEMMA ConnectSound ==
  ASSUME IInv, NEW t \in Threads, NEW key \in Keys, connect(t, key)
  PROVE  Sound
<1>1. TableInv
  BY DEF IInv
<1>2. Fresh \in Ids /\ Fresh \in 0 .. MaxConnections
  BY FreshFact, IdFacts, Zenon DEF connect
<1>3. /\ connection' \in [Ids -> Conn]
      /\ connection'[Fresh].key = key
      /\ \A id \in Range(connections) : connection'[id] = connection[id]
  BY <1>1, NewFacts, Zenon DEF connect
<1>4. connections' = Append(connections, Fresh) /\ connections' \in Seq(Ids)
  BY <1>1, <1>2 DEF connect, TableInv
<1>5. \A i \in 1 .. Len(connections) : connection[connections[i]].key # key
  BY <1>1, LookupFacts DEF connect
<1>6. TableInv'
  BY <1>1, <1>2, <1>3, <1>4, GotoStep, Zenon DEF connect, TableInv
<1>7. direct' = direct
  BY DEF connect
<1> QED BY <1>2, <1>3, <1>4, <1>5, <1>6, <1>7, AddedSound

LEMMA AcceptSound ==
  ASSUME IInv, NEW t \in Threads, NEW id \in Ids, accept(t, id)
  PROVE  Sound
<1>1. TableInv
  BY DEF IInv
<1>2. direct /\ direct' = direct /\ connection' = connection
  BY <1>1 DEF accept, TableInv
<1>3. connections' = Append(connections, id) /\ connections' \in Seq(Ids)
  BY <1>1 DEF accept, TableInv
<1>4. id \in 0 .. MaxConnections
  BY IdFacts
<1>5. TableInv'
  BY <1>1, <1>2, <1>3, <1>4, GotoStep, Zenon DEF accept, TableInv
<1> QED BY <1>2, <1>3, <1>5, AddedSound

LEMMA DeclineSound ==
  ASSUME IInv, NEW id \in Ids, decline(id)
  PROVE  Sound
<1>1. TableInv
  BY DEF IInv
<1>2. direct' = direct /\ connections' = connections /\ thread' = thread /\ DropUnreferenced
      /\ offered' = offered \ {id}
  BY DEF decline
<1>3. /\ connection' \in [Ids -> Conn]
      /\ \A x \in Ids : x \in Range(connections) => connection'[x] = connection[x]
  BY <1>1, <1>2, DropFacts
<1>4. TableInv'
  BY <1>1, <1>2, <1>3 DEF TableInv, At
<1>5. \A x \in Range(connections) : connection'[x].key = connection[x].key
  BY <1>1, <1>3, EntriesFacts DEF TableInv
<1> QED BY <1>2, <1>4, <1>5, SameTableSound

LEMMA TransmitOnSound ==
  ASSUME IInv, NEW t \in Threads, NEW key, transmit_on(t, key)
  PROVE  Sound
<1>1. TableInv
  BY DEF IInv
<1>2. connections[get_connection(key)] \in 0 .. MaxConnections
  BY <1>1, LookupFacts, IdFacts, Zenon DEF transmit_on
<1>3. direct' = direct /\ connection' = connection /\ connections' = connections /\ offered' = offered
  BY DEF transmit_on
<1>4. TableInv'
  BY <1>1, <1>2, <1>3, GotoStep DEF transmit_on, TableInv
<1> QED BY <1>3, <1>4, SameTableSound

LEMMA RecvSound ==
  ASSUME IInv, NEW t \in Threads, t \in Clients, NEW key, recv(t, key)
  PROVE  Sound
<1> DEFINE i == get_connection(key)
           id == connections[i]
           used == IF connection[id].used = 0 THEN 0 ELSE connection[id].used - 1
<1>1. TableInv
  BY DEF IInv
<1>2. /\ i \in 1 .. Len(connections) /\ id \in Ids /\ id \in 0 .. MaxConnections
      /\ connection[id].key = key
  BY <1>1, LookupFacts, IdFacts DEF recv
<1>3. connection \in [Ids -> Conn] /\ connections \in Seq(Ids)
  BY <1>1 DEF TableInv
<1>4. connection[id].used \in Nat
  BY <1>2, <1>3, SMTT(30) DEF Conn
<1>5. used \in Nat
  BY <1>4
<1>6. connection' = [connection EXCEPT ![id].used = used] /\ direct' = direct /\ offered' = offered
      /\ At(t, "idle")
  BY DEF recv, Call
<1>7. IF connection[id].peer_requested_shutdown /\ used = 0
      THEN connections' = swap_remove(i) /\ Rejects(t, id)
      ELSE UNCHANGED <<connections, thread>>
  BY DEF recv
<1> HIDE DEF used, id, i
<1>8. connection' \in [Ids -> Conn] /\ connection'[id].used = used
      /\ \A x \in Ids : connection'[x].key = connection[x].key
  BY <1>2, <1>3, <1>5, <1>6, Zenon DEF Conn
<1>9. CASE UNCHANGED <<connections, thread>>
  <2>1. TableInv'
    BY <1>1, <1>6, <1>8, <1>9 DEF TableInv, At
  <2>2. \A x \in Range(connections) : connection'[x].key = connection[x].key
    BY <1>3, <1>8, EntriesFacts
  <2> QED BY <1>6, <1>9, <2>1, <2>2, SameTableSound
<1>10. CASE connections' = swap_remove(i) /\ Rejects(t, id) /\ used = 0
  <2>1. Picks(connections', connections, id)
    BY <1>2, <1>3, <1>10, SwapRemoveFacts DEF id
  <2>2. connections' \in Seq(Ids)
    BY <2>1 DEF Picks
  <2>3. TableInv' /\ \A u \in Threads : thread'[u] # thread[u] => u = t
    BY <1>1, <1>2, <1>6, <1>8, <1>10, <2>2, GotoStep DEF Rejects, TableInv
  <2>4. \A x \in Range(connections') : connection'[x].key = connection[x].key
    BY <1>8, <2>2, EntriesFacts, SMTT(30)
  <2>5. Loses(id)
    BY <1>2, <1>8, <1>10, Zenon DEF Loses
  <2> QED BY <1>6, <2>1, <2>3, <2>4, <2>5, RemovedSound
<1> QED BY <1>7, <1>9, <1>10

LEMMA ForceCloseSound ==
  ASSUME IInv, NEW t \in Threads, t \in Clients, NEW key, force_close(t, key)
  PROVE  Sound
<1> DEFINE i == get_connection(key)
           id == connections[i]
<1>1. TableInv
  BY DEF IInv
<1>2. /\ i \in 1 .. Len(connections) /\ id \in 0 .. MaxConnections
      /\ connection[id].key = key
  BY <1>1, LookupFacts, IdFacts, Zenon DEF force_close
<1>3. connection' = connection /\ direct' = direct /\ offered' = offered /\ At(t, "idle")
      /\ connections' = swap_remove(i) /\ Goto(t, "transmit", id, "Rst")
  BY DEF force_close, Call, Rejects
<1>4. Picks(connections', connections, id)
  BY <1>1, <1>2, <1>3, SwapRemoveFacts DEF TableInv
<1> HIDE DEF i, id
<1>5. connections' \in Seq(Ids)
  BY <1>4 DEF Picks
<1>6. TableInv' /\ \A u \in Threads : thread'[u] # thread[u] => u = t
  BY <1>1, <1>2, <1>3, <1>5, GotoStep DEF TableInv
<1>7. Loses(id)
  BY <1>2, Zenon DEF Loses
<1> QED BY <1>3, <1>4, <1>6, <1>7, RemovedSound

-----------------------------------------------------------------------------
(* Sending *)

LEMMA SentSound ==
  ASSUME IInv, NEW t \in Threads, Transmitted(t) \/ TransmitFails(t)
  PROVE  Sound
<1>1. TableInv
  BY DEF IInv
<1>2. direct' = direct /\ offered' = offered /\ connections' = connections /\ DropUnreferenced
  BY DEF Transmitted, TransmitFails
<1>3. /\ connection' \in [Ids -> Conn]
      /\ \A x \in Ids : x \in Range(connections) => connection'[x] = connection[x]
  BY <1>1, <1>2, DropFacts, SMTT(30)
<1>4. Return(t) \/ Goto(t, "undo", thread[t].id, None)
  BY DEF Transmitted, TransmitFails
<1>5. thread[t].id \in 0 .. MaxConnections
  BY <1>1 DEF TableInv, CallState
<1>6. TableInv'
  <2>1. CASE Return(t)
    BY <1>1, <1>2, <1>3, <2>1, ReturnStep, SMTT(30) DEF TableInv
  <2>2. CASE Goto(t, "undo", thread[t].id, None)
    BY <1>1, <1>2, <1>3, <1>5, <2>2, GotoStep DEF TableInv
  <2> QED BY <1>4, <2>1, <2>2
<1>7. \A x \in Range(connections) : connection'[x].key = connection[x].key
  BY <1>1, <1>3, EntriesFacts DEF TableInv
<1> QED BY <1>2, <1>6, <1>7, SameTableSound

LEMMA UndoSound ==
  ASSUME IInv, NEW t \in Threads, Undo(t)
  PROVE  Sound
<1> DEFINE id == thread[t].id
<1>1. TableInv
  BY DEF IInv
<1>2. direct' = direct /\ offered' = offered /\ connections' = retain(id) /\ DropUnreferenced
      /\ Return(t) /\ At(t, "undo")
  BY DEF Undo
<1>3. Picks(connections', connections, id)
  BY <1>1, <1>2, RetainFacts DEF TableInv
<1>4. connections' \in Seq(Ids)
  BY <1>3 DEF Picks
<1>5. /\ connection' \in [Ids -> Conn]
      /\ \A x \in Ids : x \in Range(connections') => connection'[x] = connection[x]
  BY <1>1, <1>2, DropFacts
<1>6. TableInv' /\ \A u \in Threads : thread'[u] # thread[u] => u = t
  BY <1>1, <1>2, <1>4, <1>5, ReturnStep DEF TableInv
<1>7. \A x \in Range(connections') : connection'[x].key = connection[x].key
  BY <1>4, <1>5, EntriesFacts
<1>8. connection[id].key = About(t)
  BY <1>2 DEF About, At
<1>9. Loses(id)
  BY Zenon DEF Loses
<1> QED BY <1>2, <1>3, <1>6, <1>7, <1>8, <1>9, RemovedSound

-----------------------------------------------------------------------------
(* poll *)

LEMMA LocksSound ==
  ASSUME IInv, NEW t \in Threads, PollLocks(t) \/ DirectLocks(t)
  PROVE  Sound
<1>1. TableInv
  BY DEF IInv
<1>2. direct' = direct /\ connection' = connection /\ connections' = connections /\ offered' = offered
  BY DEF PollLocks, DirectLocks
<1>3. PICK pc \in {"poll", "direct"}, packet \in Packet \cup {None} :
        /\ Takes(t, pc, packet)
        /\ pc = "direct" => direct /\ packet # None
  BY DEF PollLocks, DirectLocks, Packets, Packet
<1> DEFINE v == [Idle EXCEPT !.pc = pc, !.packet = packet]
<1>4. v \in CallState /\ v.pc = pc /\ v.packet = packet
  BY IdFacts, Zenon DEF Idle, CallState
<1>5. thread' = [thread EXCEPT ![t] = v]
  BY <1>3 DEF Takes
<1> HIDE DEF v
<1>6. v.pc \in {"direct", "deliver"} => direct
  BY <1>3, <1>4
<1>7. v.pc = "direct" => v.packet # None
  BY <1>3, <1>4
<1>8. TableInv'
  BY <1>1, <1>2, <1>4, <1>5, <1>6, <1>7, TypeStep, Zenon DEF TableInv
<1> QED BY <1>2, <1>8, SameTableSound

\* The callback found the entry of the packet.
LEMMA PolledFacts ==
  ASSUME TableInv, NEW t \in Threads, NEW event, PolledEvent(t, event)
  PROVE  /\ Key(t) \in Keys
         /\ About(t) = Key(t)
         /\ Index(t) # 0 => /\ Index(t) \in 1 .. Len(connections)
                            /\ Polling(t) \in Ids
                            /\ Polling(t) \in 0 .. MaxConnections
                            /\ connection[Polling(t)].key = Key(t)
                            /\ Picks(swap_remove(Index(t)), connections, Polling(t))
         /\ Index(t) = 0 => \A i \in 1 .. Len(connections) : connection[connections[i]].key # Key(t)
<1>1. thread[t].packet \in Packet
  BY DEF TableInv, CallState, PolledEvent
<1>2. Key(t) \in Keys
  BY <1>1 DEF Key, Packet
<1>3. About(t) = Key(t)
  BY DEF About, PolledEvent, Polled
<1>4. connections \in Seq(Ids)
  BY DEF TableInv
<1>5. Index(t) # 0 => /\ Index(t) \in 1 .. Len(connections)
                      /\ Polling(t) \in Ids
                      /\ connection[Polling(t)].key = Key(t)
  BY LookupFacts DEF Index, Polling
<1>6. Index(t) # 0 => Picks(swap_remove(Index(t)), connections, Polling(t))
  BY <1>4, <1>5, SwapRemoveFacts DEF Polling
<1>7. Index(t) = 0 => \A i \in 1 .. Len(connections) : connection[connections[i]].key # Key(t)
  BY LookupFacts DEF Index
<1> QED BY <1>2, <1>3, <1>5, <1>6, <1>7, IdFacts, Zenon

LEMMA PollIgnoredSound ==
  ASSUME IInv, NEW t \in Threads, PollEmpty(t) \/ PollUnknown(t) \/ PollCredit(t)
  PROVE  Sound
<1>1. TableInv
  BY DEF IInv
<1>2. direct' = direct /\ connection' = connection /\ connections' = connections /\ offered' = offered
  BY DEF PollEmpty, PollUnknown, PollCredit
<1>3. \/ Return(t)
      \/ Polling(t) \in 0 .. MaxConnections /\ Goto(t, "transmit", Polling(t), "CreditUpdate")
  BY <1>1, PolledFacts DEF PollEmpty, PollUnknown, PollCredit
<1>4. TableInv'
  <2>1. CASE Return(t)
    BY <1>1, <1>2, <2>1, ReturnStep, SMTT(30) DEF TableInv
  <2>2. CASE Polling(t) \in 0 .. MaxConnections /\ Goto(t, "transmit", Polling(t), "CreditUpdate")
    BY <1>1, <1>2, <2>2, GotoStep DEF TableInv
  <2> QED BY <1>3, <2>1, <2>2
<1> QED BY <1>2, <1>4, SameTableSound

\* Received keeps the addresses.
LEMMA ReceivedFacts ==
  ASSUME TableInv, NEW id, Received(id)
  PROVE  connection' \in [Ids -> Conn] /\ \A x \in Ids : connection'[x].key = connection[x].key
<1>1. connection \in [Ids -> Conn]
  BY DEF TableInv
<1>2. CASE id \in Ids
  <2> DEFINE used == IF connection[id].used < Capacity THEN connection[id].used + 1
                     ELSE connection[id].used
  <2>1. used \in Nat
    BY <1>1, <1>2 DEF Conn
  <2>2. connection' = [connection EXCEPT ![id].used = used]
    BY DEF Received
  <2> HIDE DEF used
  <2> QED BY <1>1, <1>2, <2>1, <2>2 DEF Conn
<1>3. CASE id \notin Ids
  BY <1>1, <1>3, Zenon DEF Received
<1> QED BY <1>2, <1>3

LEMMA DeliveredSound ==
  ASSUME IInv, NEW t \in Threads, PollReceived(t) \/ DirectDeliver(t)
  PROVE  Sound
<1>1. TableInv
  BY DEF IInv
<1>2. direct' = direct /\ connections' = connections /\ offered' = offered /\ Return(t)
  BY DEF PollReceived, DirectDeliver
<1>3. connection' = connection \/ \E id : Received(id)
  BY DEF PollReceived, DirectDeliver
<1>4. connection' \in [Ids -> Conn] /\ \A x \in Ids : connection'[x].key = connection[x].key
  BY <1>1, <1>3, ReceivedFacts DEF TableInv
<1>5. TableInv'
  BY <1>1, <1>2, <1>4, ReturnStep DEF TableInv
<1>6. \A x \in Range(connections) : connection'[x].key = connection[x].key
  BY <1>1, <1>4, EntriesFacts DEF TableInv
<1> QED BY <1>2, <1>5, <1>6, SameTableSound

LEMMA PollRequestSound ==
  ASSUME IInv, NEW t \in Threads, t \in Pollers, PollRequest(t)
  PROVE  Sound
<1>1. TableInv
  BY DEF IInv
<1>2. direct' = direct /\ offered' = offered /\ PolledEvent(t, "ConnectionRequest")
  BY DEF PollRequest
<1>3. connections \in Seq(Ids) /\ connection \in [Ids -> Conn] /\ offered \subseteq Ids
      /\ (~direct => offered' = {})
  BY <1>1, <1>2 DEF TableInv
<1>4. About(t) = Key(t) /\ Key(t) \in Keys
  BY <1>1, <1>2, PolledFacts
<1>5. CASE Index(t) = 0
  <2>1. /\ Ids \ Live # {}
        /\ connection' = [connection EXCEPT ![Fresh] = NewConnection(Key(t))]
        /\ \/ connections' = Append(connections, Fresh) /\ Goto(t, "transmit", Fresh, "Response")
           \/ connections' = connections /\ Goto(t, "transmit", Fresh, "Rst")
    BY <1>5 DEF PollRequest, Rejects
  <2>2. Fresh \in Ids /\ Fresh \in 0 .. MaxConnections
    BY <2>1, FreshFact, IdFacts, Zenon
  <2>3. /\ connection' \in [Ids -> Conn]
        /\ connection'[Fresh].key = Key(t)
        /\ \A id \in Range(connections) : connection'[id].key = connection[id].key
    BY <1>1, <1>4, <2>1, NewFacts, Zenon
  <2>4. CASE connections' = Append(connections, Fresh) /\ Goto(t, "transmit", Fresh, "Response")
    <3>1. connections' \in Seq(Ids)
      BY <1>3, <2>2, <2>4, SMTT(30)
    <3>2. TableInv'
      BY <1>1, <1>2, <1>3, <2>2, <2>3, <2>4, <3>1, GotoStep, SMTT(30)
    <3>3. \A i \in 1 .. Len(connections) : connection[connections[i]].key # Key(t)
      BY <1>1, <1>2, <1>5, PolledFacts, SMTT(30)
    <3> QED BY <1>2, <2>2, <2>3, <2>4, <3>2, <3>3, AddedSound
  <2>5. CASE connections' = connections /\ Goto(t, "transmit", Fresh, "Rst")
    <3>1. TableInv'
      BY <1>1, <1>2, <1>3, <2>2, <2>3, <2>5, GotoStep, SMTT(30)
    <3> QED BY <1>2, <2>3, <2>5, <3>1, SameTableSound, SMTT(30)
  <2> QED BY <2>1, <2>4, <2>5
<1>6. CASE Index(t) # 0
  <2>1. /\ connection' = connection
        /\ \/ connections' = connections /\ Goto(t, "transmit", Polling(t), "Response")
           \/ /\ connections' = swap_remove(Index(t)) /\ Goto(t, "transmit", Polling(t), "Rst")
              /\ Key(t)[2] \notin listening_ports
    BY <1>6 DEF PollRequest, Rejects
  <2>2. /\ Polling(t) \in 0 .. MaxConnections
        /\ connection[Polling(t)].key = Key(t)
        /\ Picks(swap_remove(Index(t)), connections, Polling(t))
    BY <1>1, <1>2, <1>6, PolledFacts
  <2>3. CASE connections' = connections /\ Goto(t, "transmit", Polling(t), "Response")
    <3>1. TableInv'
      BY <1>1, <1>2, <1>3, <2>1, <2>2, <2>3, GotoStep, SMTT(30)
    <3> QED BY <1>2, <2>1, <2>3, <3>1, SameTableSound, SMTT(30)
  <2>4. CASE /\ connections' = swap_remove(Index(t)) /\ Goto(t, "transmit", Polling(t), "Rst")
             /\ Key(t)[2] \notin listening_ports
    <3>1. Picks(connections', connections, Polling(t)) /\ connections' \in Seq(Ids)
      BY <2>2, <2>4, SMTT(30) DEF Picks
    <3>2. TableInv' /\ \A u \in Threads : thread'[u] # thread[u] => u = t
      BY <1>1, <1>2, <1>3, <2>1, <2>2, <2>4, <3>1, GotoStep
    <3>3. Loses(Polling(t))
      BY <2>2, <2>4, Zenon DEF Loses
    <3> QED BY <1>2, <1>4, <2>1, <2>2, <3>1, <3>2, <3>3, RemovedSound, SMTT(30)
  <2> QED BY <2>1, <2>3, <2>4
<1> QED BY <1>5, <1>6

LEMMA PollDisconnectedSound ==
  ASSUME IInv, NEW t \in Threads, NEW reason, PollDisconnected(t, reason)
  PROVE  Sound
<1> DEFINE id == Polling(t)
<1>1. TableInv
  BY DEF IInv
<1>2. direct' = direct /\ offered' = offered /\ PolledEvent(t, reason) /\ Index(t) # 0
  BY DEF PollDisconnected
<1>3. connections \in Seq(Ids) /\ connection \in [Ids -> Conn] /\ offered \subseteq Ids
      /\ (~direct => offered' = {})
  BY <1>1, <1>2 DEF TableInv
<1>4. /\ id \in Ids /\ id \in 0 .. MaxConnections
      /\ connection[id].key = About(t)
      /\ Picks(swap_remove(Index(t)), connections, id)
  BY <1>1, <1>2, PolledFacts
<1>5. \/ /\ connection[id].used = 0
         /\ connections' = swap_remove(Index(t))
         /\ Goto(t, "transmit", id, "Rst") \/ Return(t)
         /\ DropUnreferenced
      \/ /\ connection' = [connection EXCEPT ![id].peer_requested_shutdown = TRUE]
         /\ Return(t)
         /\ connections' = connections
  BY SMTT(30) DEF PollDisconnected, Rejects
<1> HIDE DEF id
<1>6. CASE /\ connection[id].used = 0
           /\ connections' = swap_remove(Index(t))
           /\ Goto(t, "transmit", id, "Rst") \/ Return(t)
           /\ DropUnreferenced
  <2>1. Picks(connections', connections, id) /\ connections' \in Seq(Ids)
    BY <1>4, <1>6, SMTT(30) DEF Picks
  <2>2. /\ connection' \in [Ids -> Conn]
        /\ \A x \in Ids : x \in Range(connections') => connection'[x] = connection[x]
    BY <1>1, <1>4, <1>6, DropFacts, SMTT(30)
  <2>3. TableInv' /\ \A u \in Threads : thread'[u] # thread[u] => u = t
    BY <1>1, <1>2, <1>3, <1>4, <1>6, <2>1, <2>2, GotoStep, ReturnStep, SMTT(30)
  <2>4. \A x \in Range(connections') : connection'[x].key = connection[x].key
    BY <2>1, <2>2, EntriesFacts
  <2> QED BY <1>2, <1>4, <1>6, <2>1, <2>3, <2>4, RemovedSound, SMTT(30)
<1>7. CASE /\ connection' = [connection EXCEPT ![id].peer_requested_shutdown = TRUE]
           /\ Return(t)
           /\ connections' = connections
  <2>1. connection' \in [Ids -> Conn] /\ \A x \in Ids : connection'[x].key = connection[x].key
    BY <1>3, <1>4, <1>7, Zenon DEF Conn
  <2>2. TableInv'
    BY <1>1, <1>2, <1>3, <1>7, <2>1, ReturnStep
  <2>3. \A x \in Range(connections) : connection'[x].key = connection[x].key
    BY <1>3, <2>1, EntriesFacts
  <2> QED BY <1>2, <1>7, <2>2, <2>3, SameTableSound
<1> QED BY <1>5, <1>6, <1>7

-----------------------------------------------------------------------------
(* poll_direct *)

LEMMA LookingFacts ==
  ASSUME TableInv, NEW t \in Threads, Looking(t)
  PROVE  direct /\ thread[t].packet.key \in Keys /\ About(t) = thread[t].packet.key
<1>1. direct /\ thread[t].packet \in Packet
  BY DEF TableInv, CallState, Looking
<1> QED BY <1>1 DEF Packet, About, Looking, Key

LEMMA DirectRequestSound ==
  ASSUME IInv, NEW t \in Threads, DirectRequest(t)
  PROVE  Sound
<1>1. TableInv
  BY DEF IInv
<1>2. direct' = direct /\ connections' = connections /\ Return(t) /\ Looking(t)
  BY DEF DirectRequest
<1>3. direct /\ thread[t].packet.key \in Keys
  BY <1>1, <1>2, LookingFacts, SMTT(30)
<1>4. /\ connection' \in [Ids -> Conn]
      /\ \A id \in Range(connections) : connection'[id] = connection[id]
      /\ offered' \subseteq Ids
  <2>1. CASE connection' = connection /\ offered' = offered
    BY <1>1, <2>1, SMTT(30) DEF TableInv
  <2>2. CASE /\ Ids \ Live # {}
             /\ connection' = [connection EXCEPT ![Fresh] = NewConnection(thread[t].packet.key)]
             /\ offered' = offered \cup {Fresh}
    BY <1>1, <1>3, <2>2, NewFacts, FreshFact, Zenon DEF TableInv
  <2> QED BY <2>1, <2>2 DEF DirectRequest
<1>5. TableInv'
  BY <1>1, <1>2, <1>3, <1>4, ReturnStep, SMTT(30) DEF TableInv
<1> QED BY <1>2, <1>4, <1>5, SameTableSound

LEMMA DirectLookupSound ==
  ASSUME IInv, NEW t \in Threads, t \in Pollers, DirectLookup(t)
  PROVE  Sound
<1> DEFINE key == thread[t].packet.key
           i == get_connection(key)
           id == connections[i]
           v == [thread[t] EXCEPT !.pc = "deliver", !.id = id]
<1>1. TableInv
  BY DEF IInv
<1>2. direct' = direct /\ offered' = offered /\ DropUnreferenced /\ Looking(t)
  BY DEF DirectLookup
<1>3. direct /\ About(t) = key
  BY <1>1, <1>2, LookingFacts
<1>4. connections \in Seq(Ids) /\ thread[t] \in CallState
  BY <1>1 DEF TableInv
<1>5. i # 0 => i \in 1 .. Len(connections) /\ id \in 0 .. MaxConnections /\ connection[id].key = key
  BY <1>1, LookupFacts, IdFacts, ZenonT(30)
<1>6. \/ Return(t)
      \/ i # 0 /\ thread' = [thread EXCEPT ![t].pc = "deliver", ![t].id = id]
  BY DEF DirectLookup
<1>7. \/ connections' = connections
      \/ i # 0 /\ connections' = swap_remove(i) /\ thread[t].packet.event = "Reset"
  BY SMTT(30) DEF DirectLookup
<1>8. Picks(connections', connections, id)
      /\ (id \in Entries \ Range(connections') => connection[id].key = key /\ Loses(id))
  <2>1. CASE connections' = connections
    BY <1>4, <2>1, PicksItself, SMTT(30) DEF Entries
  <2>2. CASE i # 0 /\ connections' = swap_remove(i) /\ thread[t].packet.event = "Reset"
    <3>1. Loses(id)
      BY <1>5, <2>2, Zenon DEF Loses, Key
    <3> QED BY <1>4, <1>5, <2>2, <3>1, SwapRemoveFacts, SMTT(30)
  <2> QED BY <1>7, <2>1, <2>2, SMTT(30)
<1>9. connections' \in Seq(Ids)
  BY <1>8 DEF Picks
<1>10. /\ connection' \in [Ids -> Conn]
       /\ \A x \in Ids : x \in Range(connections') => connection'[x] = connection[x]
  BY <1>1, <1>2, DropFacts
<1>11. TableInv' /\ \A u \in Threads : thread'[u] # thread[u] => u = t
  <2>1. CASE Return(t)
    BY <1>1, <1>2, <1>9, <1>10, <2>1, ReturnStep, SMTT(30) DEF TableInv
  <2>2. CASE i # 0 /\ thread' = [thread EXCEPT ![t].pc = "deliver", ![t].id = id]
    <3>1. id \in 0 .. MaxConnections
      BY <1>5, <2>2
    <3> HIDE DEF id
    <3>2. v \in CallState /\ v.pc = "deliver"
      BY <1>4, <3>1, Zenon DEF CallState
    <3>3. thread' = [thread EXCEPT ![t] = v]
      BY <2>2, Zenon
    <3> HIDE DEF v
    <3> QED BY <1>1, <1>2, <1>3, <1>9, <1>10, <3>2, <3>3, TypeStep, Zenon DEF TableInv
  <2> QED BY <1>6, <2>1, <2>2, SMTT(30)
<1>12. \A x \in Range(connections') : connection'[x].key = connection[x].key
  BY <1>9, <1>10, EntriesFacts
<1> HIDE DEF id, key
<1> QED BY <1>2, <1>3, <1>8, <1>11, <1>12, RemovedSound, Zenon

-----------------------------------------------------------------------------
LEMMA InitInv == Init => IInv
<1> SUFFICES ASSUME Init PROVE IInv
  OBVIOUS
<1>1. connection \in [Ids -> Conn] /\ connections = <<>> /\ connections \in Seq(Ids)
  BY NewConnectionFact, SMTT(30) DEF Init
<1>2. thread \in [Threads -> CallState] /\ \A t \in Threads : thread[t].pc = "idle"
  BY CallFacts DEF Init
<1>3. TableInv
  BY <1>1, <1>2 DEF Init, TableInv, At
<1>4. Unique(connections, connection)
  BY <1>1 DEF Unique
<1> QED BY <1>3, <1>4 DEF IInv

LEMMA NextSound == IInv /\ [Next]_vars => IInv' /\ [Sound]_vars
<1> SUFFICES ASSUME IInv, [Next]_vars PROVE IInv' /\ [Sound]_vars
  OBVIOUS
<1>1. CASE UNCHANGED vars
  BY <1>1 DEF vars, IInv, TableInv, Unique, At
<1>2. ASSUME NEW t \in Clients, Client(t) PROVE Sound
  <2>1. t \in Threads
    BY DEF Threads
  <2>2. CASE \E port \in Ports : listen(t, port) \/ unlisten(t, port)
    BY <2>2, ListenSound
  <2>3. CASE \E id \in Ids : accept(t, id) \/ decline(id)
    BY <2>1, <2>3, AcceptSound, DeclineSound
  <2>4. CASE \E key \in Keys : connect(t, key) \/ recv(t, key) \/ force_close(t, key)
    BY <1>2, <2>1, <2>4, ConnectSound, RecvSound, ForceCloseSound
  <2>5. CASE \E key \in Keys : send(t, key) \/ update_credit(t, key) \/ shutdown(t, key)
    BY <2>1, <2>5, TransmitOnSound DEF send, update_credit, shutdown
  <2> QED BY <1>2, <2>2, <2>3, <2>4, <2>5 DEF Client
<1>3. ASSUME NEW t \in Pollers, poll(t) \/ poll_direct(t) PROVE Sound
  <2>1. t \in Threads
    BY DEF Threads
  <2>2. CASE poll(t)
    BY <1>3, <2>1, <2>2, LocksSound, PollIgnoredSound, PollRequestSound, DeliveredSound,
       PollDisconnectedSound DEF poll
  <2>3. CASE poll_direct(t)
    BY <1>3, <2>1, <2>3, LocksSound, DirectRequestSound, DirectLookupSound, DeliveredSound
       DEF poll_direct
  <2> QED BY <1>3, <2>2, <2>3
<1>4. ASSUME NEW t \in Threads, Sending(t) PROVE Sound
  BY <1>4, SentSound, UndoSound DEF Sending
<1>5. CASE Next
  <2>1. Sound
    BY <1>2, <1>3, <1>4, <1>5 DEF Next
  <2> QED BY <2>1 DEF Sound
<1> QED BY <1>1, <1>5

\* get_connection and the adding of a connection are under one lock: with poll,
\* no two connections ever have the same addresses, for any number of threads
\* that connect, poll and close, any packets of peers and any failing sends.
THEOREM ConnectionsUnique == Spec => []UniqueConnections
<1>1. IInv => UniqueConnections
  BY DEF IInv, Unique, UniqueConnections
<1> QED BY <1>1, InitInv, NextSound, PTL DEF Spec

\* What a thread removes from the table, by its index or after other entries
\* have moved, is always a connection its call or its packet is about.
THEOREM RemovesItsOwn == Spec => OthersKept
<1>1. [Sound]_vars => [\A t \in Threads : thread'[t] # thread[t] /\ ~At(t, "idle") =>
         \A id \in Entries \ Range(connections') : connection[id].key = About(t)]_vars
  BY DEF Sound, OthersKeptStep
<1> QED BY <1>1, InitInv, NextSound, PTL DEF Spec, OthersKept

\* Data that the client has not read leaves the table only when the client
\* closes its connection or has read the last of it, in the very call whose
\* opening of the connection failed, when poll_direct finds it reset, or when
\* poll finds a request for it on a port nobody listens to, whatever peers and
\* other threads do.
THEOREM KeepsUnreadData == Spec => UnreadDataKept
<1>1. [Sound]_vars =>
        [\A id \in Entries \ Range(connections') : connection[id].used = 0 \/ Loses(id)]_vars
  BY DEF Sound, UnreadDataKeptStep
<1> QED BY <1>1, InitInv, NextSound, PTL DEF Spec, UnreadDataKept
=============================================================================
