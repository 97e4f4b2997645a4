---------------------------- MODULE CalculatorProofs ----------------------------
(***************************************************************************)
(* Proofs about the calculators, for all routers, links and coordinates:   *)
(* link state routing yields shortest ways, and hyperbolic routing goes by *)
(* how coordinates lie to each other.                                      *)
(*                                                                         *)
(* The search keeps Settled: what it has explored has its distance for     *)
(* good.  The parents it leaves lead back to the source, so that the next  *)
(* hop begins a way of that distance; and no way is shorter, by the number *)
(* of its links.                                                           *)
(***************************************************************************)
EXTENDS RouteCalculation, FiniteSetTheorems, SequenceTheorems, WellFoundedInduction, TLAPS

-----------------------------------------------------------------------------
(* What the proofs about loops rest on.                                    *)

(* A set of numbers has a least one: what every choice of the least cost and*)
(* the argument on the ways of next hops go back to.                       *)
LEMMA LeastNumber ==
  ASSUME NEW T \in SUBSET Nat, T # {}
  PROVE  \E m \in T : \A k \in T : m <= k
<1>1. PICK m \in T : \A k \in T : ~(<<k, m>> \in OpToRel(<, Nat))
  BY NatLessThanWellFounded, WFMin
<1>2. ASSUME NEW k \in T, k < m
      PROVE  <<k, m>> \in OpToRel(<, Nat)
  BY <1>2, k \in Nat, m \in Nat DEF OpToRel
<1>3. \A k \in T : ~(k < m)
  BY <1>1, <1>2
<1> QED
  BY <1>3

(* What holds of the first number and passes on from each to the next holds*)
(* of all: how a loop of the calculators keeps what it began with.         *)
LEMMA PassedOn ==
  ASSUME NEW a \in Int, NEW n \in Int, NEW T, a \in T,
         \A i \in a..n : i # a /\ i - 1 \in T => i \in T
  PROVE  \A i \in a..n : i \in T
<1>1. SUFFICES ASSUME NEW i \in a..n, i \notin T
               PROVE  FALSE
  OBVIOUS
<1> DEFINE Wrong == {d \in Nat : a + d <= n /\ a + d \notin T}
<1>2. i - a \in Wrong
  BY <1>1
<1>3. PICK d \in Wrong : \A e \in Wrong : d <= e
  BY <1>2, LeastNumber
<1>4. d \in Nat /\ a + d <= n /\ a + d \notin T /\ d # 0
  BY <1>3
<1>5. d - 1 \in Nat /\ a + (d - 1) <= n /\ ~(d <= d - 1) /\ a + d \in a..n /\ a + d # a /\ (a + d) - 1 = a + (d - 1)
  BY <1>4
<1>6. a + (d - 1) \in T
  BY <1>3, <1>5
<1> QED
  BY <1>4, <1>5, <1>6

Yields(f, a, n, base, step) == f = [i \in a..n |-> IF i = a THEN base ELSE step[i][f[i - 1]]]
KeepsTo(f, a, n, T) == \A i \in a..n : f[i] \in T[i]
StepsStayIn(a, n, step, T) == \A i \in a..n : i # a => \A x \in T[i - 1] : step[i][x] \in T[i]

(* A recursive definition over an interval has values, if each step is     *)
(* defined for what the one before may yield: the loops of                 *)
(* routing-table-calculator.cpp are such definitions.                      *)
LEMMA Recursion ==
  ASSUME NEW a \in Int, NEW n \in Int, a <= n, NEW T, NEW step, NEW base, base \in T[a],
         StepsStayIn(a, n, step, T)
  PROVE  \E f : Yields(f, a, n, base, step) /\ KeepsTo(f, a, n, T)
<1> USE DEF Yields, KeepsTo, StepsStayIn
<1> DEFINE Good(m, f) == /\ f = [i \in a..m |-> IF i = a THEN base ELSE step[i][f[i - 1]]]
                         /\ \A i \in a..m : f[i] \in T[i]
           All == {m \in a..n : \E f : Good(m, f)}
<1>1. a \in All
  <2>1. a..a = {a}
    OBVIOUS
  <2>2. Good(a, [i \in a..a |-> base])
    BY <2>1
  <2> HIDE DEF Good
  <2> QED
    BY <2>2
<1>2. ASSUME NEW m \in a..n, m # a, m - 1 \in All
      PROVE  m \in All
  <2>1. PICK f : Good(m - 1, f)
    BY <1>2
  <2> DEFINE g == [i \in a..m |-> IF i = m THEN step[m][f[m - 1]] ELSE f[i]]
  <2>2. \A i \in a..m : i # m => i \in a..m - 1 /\ (i # a => i - 1 \in a..m - 1 /\ i - 1 # m)
    OBVIOUS
  <2>3. m \in a..m /\ m - 1 \in a..m - 1 /\ m - 1 \in a..m /\ m - 1 # m
    BY <1>2
  <2>4. f[m - 1] \in T[m - 1]
    BY <2>1, <2>3
  <2>5. \A i \in a..m : g[i] \in T[i]
    BY <1>2, <2>1, <2>2, <2>4
  <2>6. ASSUME NEW i \in a..m
        PROVE  g[i] = IF i = a THEN base ELSE step[i][g[i - 1]]
    <3>1. CASE i = m
      BY <2>3, <3>1
    <3>2. CASE i # m
      <4>1. f[i] = IF i = a THEN base ELSE step[i][f[i - 1]]
        <5>1. i \in a..m - 1
          BY <2>2, <3>2
        <5>2. f = [j \in a..m - 1 |-> IF j = a THEN base ELSE step[j][f[j - 1]]]
          BY <2>1
        <5> QED
          BY <5>1, <5>2
      <4>2. g[i] = f[i]
        BY <3>2
      <4>3. i # a => g[i - 1] = f[i - 1]
        <5>1. i # a => i - 1 \in a..m /\ i - 1 # m
          BY <3>2
        <5> QED
          BY <5>1
      <4> HIDE DEF g
      <4> QED
        BY <4>1, <4>2, <4>3
    <3> QED
      BY <3>1, <3>2
  <2>7. Good(m, g)
    <3>1. g = [i \in a..m |-> g[i]]
      OBVIOUS
    <3> HIDE DEF g
    <3> QED
      BY <2>5, <2>6, <3>1
  <2> HIDE DEF Good, g
  <2> QED
    BY <2>7
<1>3. n \in All
  <2> HIDE DEF All
  <2>1. \A i \in a..n : i \in All
    BY <1>1, <1>2, PassedOn
  <2> QED
    BY <2>1
<1> QED
  BY <1>3

(* A function on an interval from one is a sequence of its length, as the  *)
(* arrays of the calculators are.                                          *)
LEMMA AsSequence ==
  ASSUME NEW n \in Nat, NEW S, NEW q \in [1..n -> S]
  PROVE  q \in Seq(S) /\ Len(q) = n /\ DOMAIN q = 1..n
<1>1. q \in Seq(S)
  BY SeqDef
<1> QED
  BY <1>1, LenProperties

-----------------------------------------------------------------------------
(* The Map.                                                                *)

AdjLsa == [orig : Routers, links : UNION {[A -> Nat] : A \in SUBSET Routers}]
Maps == {m \in Seq(Routers) : IsInjective(m)}

(* A set as a sequence has every member once: the neighbours of a LSA in   *)
(* the order the Map takes them.                                           *)
LEMMA AllOnce ==
  ASSUME NEW S, IsFiniteSet(S)
  PROVE  /\ SetToSeq(S) \in Seq(S) /\ IsInjective(SetToSeq(S))
         /\ ToSet(SetToSeq(S)) = S
<1> DEFINE n == Cardinality(S)
           q == SetToSeq(S)
<1>1. n \in Nat /\ ExistsBijection(1..n, S)
  BY FS_CardinalityType
<1>2. PICK b \in Bijection(1..n, S) : TRUE
  BY <1>1 DEF ExistsBijection
<1>3. b \in [1..n -> S] /\ IsInjective(b)
  BY <1>2 DEF Bijection, Injection
<1>4. q \in [1..n -> S] /\ IsInjective(q)
  BY <1>3 DEF SetToSeq
<1>5. q \in Injection(1..n, S)
  BY <1>4 DEF Injection
<1>6. IsFiniteSet(1..n) /\ Cardinality(1..n) = n
  BY <1>1, FS_Interval
<1>7. q \in Surjection(1..n, S)
  BY <1>5, <1>6, FS_Injection
<1>8. q \in Seq(S) /\ DOMAIN q = 1..n
  BY <1>1, <1>4, AsSequence
<1>9. ToSet(q) = S
  <2>1. \A x \in S : \E i \in 1..n : q[i] = x
    BY <1>7 DEF Surjection
  <2> HIDE DEF q, n
  <2> QED
    BY <1>4, <1>8, <2>1 DEF ToSet
<1> QED
  BY <1>4, <1>8, <1>9

(* Adding names to the Map leaves every router in it once, and adds no     *)
(* other (Map::addEntry, map.cpp).                                         *)
LEMMA AddEntriesMap ==
  ASSUME NEW map \in Maps, NEW names \in SUBSET Routers
  PROVE  AddEntries(map, names) \in Maps /\ ToSet(AddEntries(map, names)) = ToSet(map) \union names
<1> DEFINE new == SetToSeq(names \ ToSet(map))
           m == Len(map)
           k == Len(new)
           q == AddEntries(map, names)
<1>1. IsFiniteSet(names \ ToSet(map))
  BY RouterAssumption, FS_Subset
<1>2. /\ new \in Seq(names \ ToSet(map)) /\ IsInjective(new)
      /\ ToSet(new) = names \ ToSet(map)
  BY <1>1, AllOnce
<1>3. map \in Seq(Routers) /\ IsInjective(map) /\ new \in Seq(Routers) /\ q = map \o new
  <2>1. new \in Seq(Routers)
    <3> HIDE DEF new
    <3> QED
      BY <1>2
  <2> QED
    BY <2>1 DEF Maps, AddEntries
<1> HIDE DEF new
<1>4. /\ m \in Nat /\ k \in Nat /\ DOMAIN map = 1..m /\ DOMAIN new = 1..k
  BY <1>3, LenProperties
<1>5. q \in Seq(Routers) /\ Len(q) = m + k /\ DOMAIN q = 1..m + k
  BY <1>3, <1>4, ConcatProperties, LenProperties
<1>6. \A i \in 1..m + k : q[i] = IF i <= m THEN map[i] ELSE new[i - m]
  BY <1>3, ConcatProperties
<1>7. /\ \A i \in 1..m : q[i] = map[i]
      /\ \A i \in 1..k : q[i + m] = new[i]
      /\ \A i \in 1..m + k : i - m \in 1..k => q[i] = new[i - m]
      /\ \A i \in 1..m + k : i \in 1..m \/ (i - m \in 1..k /\ (i - m) + m = i)
  <2>1. /\ \A i \in 1..m : i \in 1..m + k /\ i <= m
        /\ \A i \in 1..k : i + m \in 1..m + k /\ ~(i + m <= m) /\ (i + m) - m = i
        /\ \A i \in 1..m + k : i - m \in 1..k => ~(i <= m)
        /\ \A i \in 1..m + k : i \in 1..m \/ (i - m \in 1..k /\ (i - m) + m = i)
    BY <1>4
  <2> HIDE DEF q, m, k
  <2> QED
    BY <1>6, <2>1
<1> HIDE DEF q, m, k
<1>8. \A i \in 1..m, j \in 1..k : map[i] # new[j]
  BY <1>2, <1>4 DEF ToSet
<1>9. IsInjective(q)
  <2>1. ASSUME NEW i \in 1..m + k, NEW j \in 1..m + k, q[i] = q[j]
        PROVE  i = j
    <3>1. CASE i \in 1..m /\ j \in 1..m
      BY <1>3, <1>4, <1>7, <2>1, <3>1 DEF IsInjective
    <3>2. CASE i - m \in 1..k /\ j - m \in 1..k
      <4>1. q[i] = new[i - m] /\ q[j] = new[j - m]
        BY <1>7, <3>2
      <4>2. i - m = j - m
        BY <1>2, <1>4, <2>1, <3>2, <4>1 DEF IsInjective
      <4> QED
        BY <1>4, <4>2
    <3>3. CASE i \in 1..m /\ j - m \in 1..k
      <4>1. q[i] = map[i] /\ q[j] = new[j - m]
        BY <1>7, <3>3
      <4> QED
        BY <1>8, <2>1, <3>3, <4>1
    <3>4. CASE i - m \in 1..k /\ j \in 1..m
      <4>1. q[j] = map[j] /\ q[i] = new[i - m]
        BY <1>7, <3>4
      <4> QED
        BY <1>8, <2>1, <3>4, <4>1
    <3> QED
      BY <1>7, <3>1, <3>2, <3>3, <3>4
  <2> QED
    BY <1>5, <2>1 DEF IsInjective
<1>10. ToSet(q) = ToSet(map) \union ToSet(new)
  <2>1. \A i \in 1..m + k : q[i] \in ToSet(map) \union ToSet(new)
    <3>1. ASSUME NEW i \in 1..m + k
          PROVE  q[i] \in ToSet(map) \union ToSet(new)
      <4>1. CASE i \in 1..m
        BY <1>4, <1>7, <4>1 DEF ToSet
      <4>2. CASE i - m \in 1..k
        <5>1. q[i] = new[i - m]
          BY <1>7, <4>2
        <5> QED
          BY <1>4, <4>2, <5>1 DEF ToSet
      <4> QED
        BY <1>7, <4>1, <4>2
    <3> QED
      BY <3>1
  <2>2. /\ \A i \in 1..m : i \in 1..m + k
        /\ \A i \in 1..k : i + m \in 1..m + k
    BY <1>4 DEF m, k
  <2>3. ToSet(map) \subseteq ToSet(q)
    BY <1>4, <1>5, <1>7, <2>2 DEF ToSet
  <2>4. ToSet(new) \subseteq ToSet(q)
    <3>1. \A i \in 1..k : new[i] \in ToSet(q)
      BY <1>4, <1>5, <1>7, <2>2 DEF ToSet
    <3> QED
      BY <1>4, <3>1 DEF ToSet
  <2> QED
    BY <1>5, <2>1, <2>3, <2>4 DEF ToSet
<1>11. ToSet(q) = ToSet(map) \union names
  BY <1>2, <1>10
<1> QED
  BY <1>5, <1>9, <1>11 DEF Maps, q

(* The Map has routers once, and the router of every LSA                   *)
(* (Map::createFromAdjLsdb, map.cpp).                                      *)
LEMMA MapProperties ==
  ASSUME NEW lsdb \in Seq(AdjLsa)
  PROVE  /\ CreateFromAdjLsdb(lsdb) \in Maps
         /\ \A i \in DOMAIN lsdb : lsdb[i].orig \in ToSet(CreateFromAdjLsdb(lsdb))
<1> DEFINE n == Len(lsdb)
           Next(i, m) == AddEntries(AddEntries(m, {lsdb[i].orig}), DOMAIN lsdb[i].links)
           Step(g) == [i \in 0..n |-> IF i = 0 THEN <<>> ELSE Next(i, g[i - 1])]
           map == CHOOSE g : g = Step(g)
           T == [i \in 0..n |-> {m \in Maps : \A j \in 1..i : lsdb[j].orig \in ToSet(m)}]
           step == [i \in 1..n |-> [m \in T[i - 1] |-> Next(i, m)]]
<1>1. n \in Nat /\ DOMAIN lsdb = 1..n /\ \A i \in 1..n : lsdb[i] \in AdjLsa
  BY LenProperties, ElementOfSeq
<1>2. CreateFromAdjLsdb(lsdb) = map[n]
  BY DEF CreateFromAdjLsdb
<1> HIDE DEF n
<1>3. <<>> \in T[0]
  <2>1. <<>> \in Maps
    BY DEF Maps, IsInjective
  <2> QED
    BY <1>1, <2>1
<1>4. ASSUME NEW i \in 1..n, NEW m \in T[i - 1]
      PROVE  Next(i, m) \in T[i]
  <2>1. i - 1 \in 0..n /\ i \in 0..n /\ \A j \in 1..i : j = i \/ j \in 1..i - 1
    BY <1>1
  <2>2. m \in Maps /\ \A j \in 1..i - 1 : lsdb[j].orig \in ToSet(m)
    BY <1>4, <2>1
  <2>3. {lsdb[i].orig} \subseteq Routers /\ DOMAIN lsdb[i].links \subseteq Routers
    BY <1>1 DEF AdjLsa
  <2>4. /\ AddEntries(m, {lsdb[i].orig}) \in Maps
        /\ ToSet(AddEntries(m, {lsdb[i].orig})) = ToSet(m) \union {lsdb[i].orig}
    BY <2>2, <2>3, AddEntriesMap
  <2>5. /\ Next(i, m) \in Maps
        /\ ToSet(Next(i, m)) = (ToSet(m) \union {lsdb[i].orig}) \union DOMAIN lsdb[i].links
    BY <2>3, <2>4, AddEntriesMap
  <2> HIDE DEF Next
  <2>6. \A j \in 1..i : lsdb[j].orig \in ToSet(Next(i, m))
    BY <2>1, <2>2, <2>5
  <2> QED
    BY <2>1, <2>5, <2>6
<1>5. \E f : f = Step(f)
  <2> HIDE DEF T, Next
  <2>1. \A i \in 0..n : i # 0 => \A m \in T[i - 1] : step[i][m] = Next(i, m)
    OBVIOUS
  <2>6. StepsStayIn(0, n, step, T)
    BY <1>4 DEF StepsStayIn
  <2> HIDE DEF step
  <2>5. 0 \in Int /\ n \in Int /\ 0 <= n
    BY <1>1
  <2>2. PICK f : Yields(f, 0, n, <<>>, step) /\ KeepsTo(f, 0, n, T)
    BY <1>3, <2>5, <2>6, Recursion
  <2>3. \A i \in 0..n : i # 0 => i - 1 \in 0..n
    BY <1>1
  <2>4. f = Step(f)
    BY <2>1, <2>2, <2>3 DEF Yields, KeepsTo
  <2> HIDE DEF Step
  <2> QED
    BY <2>4
<1>6. map = Step(map)
  <2> HIDE DEF Step
  <2> QED
    BY <1>5
<1> HIDE DEF map
<1>7. \A i \in 0..n : map[i] \in T[i]
  <2> DEFINE Right == {i \in 0..n : map[i] \in T[i]}
  <2>1. 0 \in Right
    BY <1>1, <1>3, <1>6
  <2>2. ASSUME NEW i \in 0..n, i # 0, i - 1 \in Right
        PROVE  i \in Right
    <3> HIDE DEF T, Next
    <3> QED
      BY <1>1, <1>4, <1>6, <2>2
  <2> HIDE DEF Right, T, step, Step, Next
  <2>3. 0 \in Int /\ n \in Int
    BY <1>1
  <2>4. \A i \in 0..n : i \in Right
    BY <2>1, <2>2, <2>3, PassedOn
  <2> QED
    BY <2>4 DEF Right
<1>8. map[n] \in T[n] /\ n \in 0..n
  BY <1>1, <1>7
<1> QED
  BY <1>1, <1>2, <1>8

-----------------------------------------------------------------------------
(* The queue of the routers not explored.                                  *)

Queues(n) == {q \in [1..n -> 1..n] : IsInjective(q) /\ \A v \in 1..n : \E i \in 1..n : q[i] = v}

(* An exchange leaves every router in the queue once                       *)
(* (sortQueueByDistance, routing-table-calculator.cpp).                    *)
LEMMA ExchangeKeepsQueues ==
  ASSUME NEW n \in Nat, NEW q \in Queues(n), NEW i \in 1..n, NEW k \in 1..n
  PROVE  [q EXCEPT ![i] = q[k], ![k] = q[i]] \in Queues(n)
<1> DEFINE r == [q EXCEPT ![i] = q[k], ![k] = q[i]]
<1>1. /\ q \in [1..n -> 1..n] /\ \A a, b \in 1..n : q[a] = q[b] => a = b
      /\ \A v \in 1..n : \E a \in 1..n : q[a] = v
  BY DEF Queues, IsInjective
<1>2. r \in [1..n -> 1..n]
  BY <1>1
<1>3. \A a \in 1..n : r[a] = IF a = k THEN q[i] ELSE IF a = i THEN q[k] ELSE q[a]
  BY <1>1
<1> HIDE DEF r
<1>4. \A a, b \in 1..n : r[a] = r[b] => a = b
  BY <1>1, <1>3
<1>5. \A v \in 1..n : \E a \in 1..n : r[a] = v
  BY <1>1, <1>3
<1>6. IsInjective(r)
  BY <1>2, <1>4 DEF IsInjective
<1> QED
  BY <1>2, <1>5, <1>6 DEF Queues, r

(* The inner loop of sortQueueByDistance brings the nearest of the routers *)
(* from i on to i, and leaves those before where they are.                 *)
LEMMA ExchangeNearerProperties ==
  ASSUME NEW n \in Nat, NEW q \in Queues(n), NEW d \in [1..n -> Nat], NEW i \in 1..n
  PROVE  /\ ExchangeNearer(q, d, i) \in Queues(n)
         /\ \A j \in 1..i - 1 : ExchangeNearer(q, d, i)[j] = q[j]
         /\ \A j \in i..n : d[ExchangeNearer(q, d, i)[i]] <= d[ExchangeNearer(q, d, i)[j]]
<1> DEFINE m == Len(q)
           Exchange(p, k) == IF d[p[k]] < d[p[i]] THEN [p EXCEPT ![i] = p[k], ![k] = p[i]] ELSE p
           Step(g) == [k \in i..m |-> IF k = i THEN q ELSE Exchange(g[k - 1], k)]
           exchanged == CHOOSE g : g = Step(g)
           T == [k \in i..n |-> {p \in Queues(n) : /\ \A j \in 1..i - 1 : p[j] = q[j]
                                                   /\ \A j \in i..k : d[p[i]] <= d[p[j]]}]
           step == [k \in i..n |-> [p \in T[k - 1] |-> Exchange(p, k)]]
<1>1. m = n
  BY AsSequence DEF Queues
<1>2. ExchangeNearer(q, d, i) = exchanged[n]
  BY <1>1 DEF ExchangeNearer
<1> HIDE DEF m
<1>3. q \in T[i]
  <2>1. \A j \in i..i : j = i
    OBVIOUS
  <2>2. d[q[i]] \in Nat
    BY DEF Queues
  <2> QED
    BY <2>1, <2>2
<1>4. ASSUME NEW k \in i..n, k # i, NEW p \in T[k - 1]
      PROVE  Exchange(p, k) \in T[k]
  <2>1. k - 1 \in i..n /\ k \in 1..n /\ \A j \in i..k : j = k \/ j \in i..k - 1
    BY <1>4
  <2>2. /\ p \in Queues(n) /\ \A j \in 1..i - 1 : p[j] = q[j]
        /\ \A j \in i..k - 1 : d[p[i]] <= d[p[j]]
    BY <1>4, <2>1
  <2>3. \A j \in 1..n : p[j] \in 1..n /\ d[p[j]] \in Nat
    BY <2>2 DEF Queues
  <2>6. d[p[i]] \in Nat /\ d[p[k]] \in Nat /\ p \in [1..n -> 1..n]
    BY <2>1, <2>2, <2>3 DEF Queues
  <2> HIDE DEF T
  <2>7. \A x, y \in Nat : /\ ~(x < y) => y <= x
                          /\ x < y => \A z \in Nat : y <= z => x <= z
    OBVIOUS
  <2>4. CASE d[p[k]] < d[p[i]]
    <3> DEFINE r == [p EXCEPT ![i] = p[k], ![k] = p[i]]
    <3>1. r \in Queues(n)
      BY <2>1, <2>2, ExchangeKeepsQueues
    <3>2. \A j \in 1..n : r[j] = IF j = k THEN p[i] ELSE IF j = i THEN p[k] ELSE p[j]
      BY <2>1, <2>6
    <3>3. Exchange(p, k) = r
      BY <2>4
    <3> HIDE DEF r
    <3>4. \A j \in 1..i - 1 : j \in 1..n /\ j # k /\ j # i
      BY <2>1
    <3>5. \A j \in 1..i - 1 : r[j] = q[j]
      BY <2>2, <3>2, <3>4
    <3>6. \A j \in i..k : d[r[i]] <= d[r[j]]
      <4>1. r[i] = p[k]
        BY <1>4, <3>2
      <4>2. ASSUME NEW j \in i..k
            PROVE  d[p[k]] <= d[r[j]]
        <5> HIDE DEF Exchange, Step, exchanged, step
        <5>5. j \in 1..n
          BY <2>1
        <5>1. p[j] \in 1..n /\ d[p[j]] \in Nat
          BY <2>3, <5>5
        <5>2. CASE j = k
          <6>1. r[j] = p[i]
            BY <3>2, <5>2, <5>5
          <6>2. \A x, y \in Nat : x < y => x <= y
            OBVIOUS
          <6>3. d[p[k]] <= d[p[i]]
            BY <2>4, <2>6, <6>2, Zenon
          <6> QED
            BY <6>1, <6>3
        <5>3. CASE j = i
          <6>1. d[r[j]] = d[p[k]]
            BY <4>1, <5>3
          <6>2. d[p[k]] \in Nat
            BY <2>6
          <6> QED
            BY <6>1, <6>2
        <5>4. CASE j # i /\ j # k
          <6>1. r[j] = p[j]
            BY <3>2, <5>4, <5>5
          <6>2. j \in i..k - 1
            BY <2>1, <5>4
          <6>3. d[p[i]] <= d[p[j]]
            BY <2>2, <6>2
          <6> QED
            BY <2>4, <2>6, <2>7, <5>1, <6>1, <6>3, Zenon
        <5> QED
          BY <5>2, <5>3, <5>4
      <4> QED
        BY <4>1, <4>2
    <3> QED
      BY <3>1, <3>3, <3>5, <3>6 DEF T
  <2>5. CASE ~(d[p[k]] < d[p[i]])
    <3>1. Exchange(p, k) = p
      BY <2>5
    <3>2. \A j \in i..k : d[p[i]] <= d[p[j]]
      <4> HIDE DEF Exchange, Step, exchanged, step
      <4>1. \A j \in i..k - 1 : d[p[i]] <= d[p[j]]
        BY <2>2
      <4>2. d[p[i]] <= d[p[k]]
        BY <2>5, <2>6, <2>7, Zenon
      <4> QED
        BY <2>1, <4>1, <4>2
    <3> QED
      BY <2>2, <3>1, <3>2 DEF T
  <2> QED
    BY <2>4, <2>5
<1>5. \E f : f = Step(f)
  <2> HIDE DEF T, Exchange
  <2>1. \A k \in i..n : k # i => \A p \in T[k - 1] : step[k][p] = Exchange(p, k)
    OBVIOUS
  <2>2. StepsStayIn(i, n, step, T)
    BY <1>4 DEF StepsStayIn
  <2> HIDE DEF step
  <2>3. i \in Int /\ n \in Int /\ i <= n
    OBVIOUS
  <2>4. PICK f : Yields(f, i, n, q, step) /\ KeepsTo(f, i, n, T)
    BY <1>3, <2>2, <2>3, Recursion
  <2>5. \A k \in i..n : k # i => k - 1 \in i..n
    OBVIOUS
  <2>6. f = Step(f)
    BY <1>1, <2>1, <2>4, <2>5 DEF Yields, KeepsTo
  <2> HIDE DEF Step
  <2> QED
    BY <2>6
<1>6. exchanged = Step(exchanged)
  <2> HIDE DEF Step
  <2> QED
    BY <1>5
<1> HIDE DEF exchanged
<1>7. \A k \in i..n : exchanged[k] \in T[k]
  <2> DEFINE Right == {k \in i..n : exchanged[k] \in T[k]}
  <2>1. i \in Right
    BY <1>1, <1>3, <1>6
  <2>2. ASSUME NEW k \in i..n, k # i, k - 1 \in Right
        PROVE  k \in Right
    <3> HIDE DEF T, Exchange
    <3> QED
      BY <1>1, <1>4, <1>6, <2>2
  <2> HIDE DEF Right
  <2>3. i \in Int /\ n \in Int
    OBVIOUS
  <2>4. \A k \in i..n : k \in Right
    BY <2>1, <2>2, <2>3, PassedOn
  <2> QED
    BY <2>4 DEF Right
<1>8. exchanged[n] \in T[n] /\ n \in i..n
  <2>1. n \in i..n
    OBVIOUS
  <2> HIDE DEF T
  <2> QED
    BY <1>7, <2>1
<1> QED
  BY <1>2, <1>8

(* sortQueueByDistance leaves what is before start where it is and brings  *)
(* the nearest of the others to start.                                     *)
LEMMA SortProperties ==
  ASSUME NEW n \in Nat, NEW q \in Queues(n), NEW d \in [1..n -> Nat], NEW start \in 1..n + 1
  PROVE  /\ SortQueueByDistance(q, d, start) \in Queues(n)
         /\ \A j \in 1..start - 1 : SortQueueByDistance(q, d, start)[j] = q[j]
         /\ \A j \in start..n : d[SortQueueByDistance(q, d, start)[start]]
                                  <= d[SortQueueByDistance(q, d, start)[j]]
<1> DEFINE m == Len(q)
           a == start - 1
           Step(g) == [i \in a..m |-> IF i = a THEN q ELSE ExchangeNearer(g[i - 1], d, i)]
           sorted == CHOOSE g : g = Step(g)
           T == [i \in a..n |-> {p \in Queues(n) :
                   /\ \A j \in 1..a : p[j] = q[j]
                   /\ i # a => \A j \in start..n : d[p[start]] <= d[p[j]]}]
           step == [i \in a..n |-> [p \in T[i - 1] |-> ExchangeNearer(p, d, i)]]
<1>1. m = n
  BY AsSequence DEF Queues
<1>2. SortQueueByDistance(q, d, start) = sorted[n]
  BY <1>1 DEF SortQueueByDistance
<1> HIDE DEF m
<1>3. q \in T[a]
  OBVIOUS
<1>4. ASSUME NEW i \in a..n, i # a, NEW p \in T[i - 1]
      PROVE  ExchangeNearer(p, d, i) \in T[i]
  <2> DEFINE r == ExchangeNearer(p, d, i)
  <2>1. i \in 1..n /\ start <= i /\ i - 1 \in a..n
    BY <1>4
  <2>2. /\ p \in Queues(n) /\ \A j \in 1..a : p[j] = q[j]
        /\ i - 1 # a => \A j \in start..n : d[p[start]] <= d[p[j]]
    BY <1>4, <2>1
  <2>3. /\ r \in Queues(n) /\ \A j \in 1..i - 1 : r[j] = p[j]
        /\ \A j \in i..n : d[r[i]] <= d[r[j]]
    BY <2>1, <2>2, ExchangeNearerProperties
  <2> HIDE DEF r
  <2>4. \A j \in 1..a : j \in 1..i - 1
    BY <2>1
  <2>5. \A j \in 1..a : r[j] = q[j]
    BY <2>2, <2>3, <2>4
  <2>6. \A j \in start..n : d[r[start]] <= d[r[j]]
    <3>1. CASE i = start
      BY <2>3, <3>1
    <3>2. CASE i # start
      <4>1. start \in 1..i - 1 /\ i - 1 # a
        BY <2>1, <3>2
      <4>2. r[start] = p[start]
        BY <2>3, <4>1
      <4>3. ASSUME NEW j \in start..n
            PROVE  \E l \in start..n : p[l] = r[j]
        <5>1. j \in 1..n /\ r[j] \in 1..n
          BY <2>3 DEF Queues
        <5>2. PICK l \in 1..n : p[l] = r[j]
          BY <2>2, <5>1 DEF Queues
        <5>3. ASSUME l < start PROVE FALSE
          <6>1. l \in 1..i - 1 /\ l # j
            BY <2>1, <5>2, <5>3
          <6>2. r[l] = r[j]
            BY <2>3, <5>2, <6>1
          <6> QED
            BY <2>3, <5>1, <6>1, <6>2 DEF Queues, IsInjective
        <5>4. l \in start..n
          BY <5>2, <5>3
        <5> QED
          BY <5>2, <5>4
      <4> QED
        BY <2>2, <4>1, <4>2, <4>3
    <3> QED
      BY <3>1, <3>2
  <2>7. r \in T[i]
    BY <2>3, <2>5, <2>6
  <2> QED
    BY <2>7 DEF r
<1>5. \E f : f = Step(f)
  <2>1. \A i \in a..n : i # a => \A p \in T[i - 1] : step[i][p] = ExchangeNearer(p, d, i)
    <3> HIDE DEF T, a
    <3> QED
      OBVIOUS
  <2>2. StepsStayIn(a, n, step, T)
    <3> HIDE DEF T, a
    <3> QED
      BY <1>4 DEF StepsStayIn
  <2>3. a \in Int /\ n \in Int /\ a <= n
    OBVIOUS
  <2>5. \A i \in a..n : i # a => i - 1 \in a..n
    OBVIOUS
  <2> HIDE DEF step, T, a
  <2>4. PICK f : Yields(f, a, n, q, step) /\ KeepsTo(f, a, n, T)
    BY <1>3, <2>2, <2>3, Recursion
  <2>6. f = Step(f)
    BY <1>1, <2>1, <2>4, <2>5 DEF Yields, KeepsTo
  <2> HIDE DEF Step
  <2> QED
    BY <2>6
<1>6. sorted = Step(sorted)
  <2> HIDE DEF Step
  <2> QED
    BY <1>5
<1> HIDE DEF sorted
<1>7. \A i \in a..n : sorted[i] \in T[i]
  <2> DEFINE Right == {i \in a..n : sorted[i] \in T[i]}
  <2>1. a \in Int /\ n \in Int /\ a \in a..n
    OBVIOUS
  <2> HIDE DEF T, a
  <2>2. a \in Right
    BY <1>1, <1>3, <1>6, <2>1
  <2>3. ASSUME NEW i \in a..n, i # a, i - 1 \in Right
        PROVE  i \in Right
    BY <1>1, <1>4, <1>6, <2>3
  <2> HIDE DEF Right
  <2>4. \A i \in a..n : i \in Right
    BY <2>1, <2>2, <2>3, PassedOn
  <2> QED
    BY <2>4 DEF Right
<1>8. n \in a..n /\ (n = a => start..n = {})
  OBVIOUS
<1>9. sorted[n] \in T[n]
  BY <1>7, <1>8
<1>10. \A j \in start..n : d[sorted[n][start]] <= d[sorted[n][j]]
  BY <1>8, <1>9
<1>11. sorted[n] \in Queues(n) /\ \A j \in 1..a : sorted[n][j] = q[j]
  BY <1>8, <1>9
<1> HIDE DEF sorted
<1> QED
  BY <1>2, <1>10, <1>11

-----------------------------------------------------------------------------
(* Dijkstra's algorithm: the inductive invariant of its rounds.            *)

Matrices(n) == [1..n -> [1..n -> Nat]]

\* The routers of E are settled: those behind have no way on that is shorter, and
\* no router of E is farther than one outside.  A router has the distance of its
\* parent, which is in E, and the link from there.
Settled(n, matrix, source, distance, parent, E) ==
  /\ distance[source] = 0 /\ parent[source] = NoRouter
  /\ \A v \in 1..n \ {source} :
       \/ distance[v] = Infinite /\ parent[v] = NoRouter
       \/ /\ parent[v] \in E /\ matrix[parent[v]][v] > 0 /\ distance[v] < Infinite
          /\ distance[v] = distance[parent[v]] + matrix[parent[v]][v]
  /\ \A u \in E :
       /\ distance[u] < Infinite
       /\ \A v \in 1..n : matrix[u][v] > 0 => distance[v] <= distance[u] + matrix[u][v]
       /\ \A v \in 1..n \ E : distance[u] <= distance[v]

\* The distances and parents once the routers of N are reached over u.
Relaxed(n, matrix, distance, u, N) ==
  [v \in 1..n |-> IF v \in N THEN distance[u] + matrix[u][v] ELSE distance[v]]
Over(n, parent, u, N) == [v \in 1..n |-> IF v \in N THEN u ELSE parent[v]]

(* The cost that stands for no way, INF_DISTANCE, is a positive number.    *)
LEMMA InfiniteIsPositive == Infinite \in Nat /\ 0 < Infinite
BY DEF Infinite

(* The nearest router outside of E is settled when the ways over it are    *)
(* tried, as one round of doDijkstraPathCalculation does.                  *)
LEMMA OneMoreSettled ==
  ASSUME NEW n \in Nat, NEW M \in Matrices(n), NEW source \in 1..n,
         NEW d \in [1..n -> 0..Infinite], NEW p \in [1..n -> 0..n], NEW E \in SUBSET (1..n),
         Settled(n, M, source, d, p, E),
         NEW u \in 1..n, u \notin E, d[u] # Infinite, \A v \in 1..n \ E : d[u] <= d[v],
         NEW N \in SUBSET (1..n),
         \A v \in 1..n : v \in N <=> M[u][v] > 0 /\ v \notin E \union {u} /\ d[u] + M[u][v] < d[v],
         NEW d2, d2 = Relaxed(n, M, d, u, N), NEW p2, p2 = Over(n, p, u, N)
  PROVE  /\ d2 \in [1..n -> 0..Infinite] /\ p2 \in [1..n -> 0..n]
         /\ Settled(n, M, source, d2, p2, E \union {u})
<1>1. \A a, b \in 1..n : M[a][b] \in Nat
  BY DEF Matrices
<1>2. Infinite \in Nat /\ 0 < Infinite
  BY InfiniteIsPositive
<1>3. \A v \in 1..n : d[v] \in Nat /\ d[v] <= Infinite /\ p[v] \in 0..n
  BY <1>2
<1>4. d[u] \in Nat /\ d[u] < Infinite
  BY <1>2, <1>3
<1>5. \A v \in 1..n : /\ v \in N => d2[v] = d[u] + M[u][v] /\ p2[v] = u
                      /\ v \notin N => d2[v] = d[v] /\ p2[v] = p[v]
  BY DEF Relaxed, Over
<1>6. \A v \in N : M[u][v] \in Nat /\ M[u][v] > 0 /\ v \notin E /\ v # u /\ d[u] + M[u][v] < d[v]
  BY <1>1
<1>7. \A v \in 1..n : /\ d2[v] \in Nat /\ d2[v] <= d[v] /\ p2[v] \in 0..n
                      /\ d2[v] <= Infinite
  <2> SUFFICES ASSUME NEW v \in 1..n
               PROVE  d2[v] \in Nat /\ d2[v] <= d[v] /\ p2[v] \in 0..n /\ d2[v] <= Infinite
    OBVIOUS
  <2>1. d[v] \in Nat /\ d[v] <= Infinite /\ p[v] \in 0..n /\ u \in 0..n
    BY <1>3
  <2>2. CASE v \in N
    <3>1. d2[v] = d[u] + M[u][v] /\ p2[v] = u /\ M[u][v] \in Nat /\ d[u] + M[u][v] < d[v]
      BY <1>5, <1>6, <2>2
    <3>2. \A a, b, c, e \in Nat : a + b < c /\ c <= e => a + b \in Nat /\ a + b <= c /\ a + b <= e
      OBVIOUS
    <3>3. d[u] + M[u][v] \in Nat /\ d[u] + M[u][v] <= d[v] /\ d[u] + M[u][v] <= Infinite
      BY <1>2, <1>4, <2>1, <3>1, <3>2, Zenon
    <3> QED
      BY <2>1, <3>1, <3>3
  <2>3. CASE v \notin N
    <3>1. d2[v] = d[v] /\ p2[v] = p[v]
      BY <1>5, <2>3
    <3>2. \A a \in Nat : a <= a
      OBVIOUS
    <3> QED
      BY <2>1, <3>1, <3>2, Zenon
  <2> QED
    BY <2>2, <2>3
<1>8. d2 \in [1..n -> 0..Infinite] /\ p2 \in [1..n -> 0..n]
  <2>1. \A v \in 1..n : d2[v] \in 0..Infinite
    BY <1>2, <1>7
  <2>2. DOMAIN d2 = 1..n /\ d2 = [v \in 1..n |-> d2[v]] /\ p2 = [v \in 1..n |-> p2[v]]
    BY DEF Relaxed, Over
  <2> QED
    BY <1>7, <2>1, <2>2
<1>9. \A v \in E \union {u} : v \in 1..n /\ v \notin N /\ d2[v] = d[v] /\ p2[v] = p[v]
  BY <1>5, <1>6
<1>10. d2[source] = 0 /\ p2[source] = NoRouter
  <2>1. d[source] = 0 /\ p[source] = NoRouter
    BY DEF Settled
  <2>2. source \notin N
    <3>1. ASSUME source \in N PROVE FALSE
      <4>1. M[u][source] \in Nat /\ d[u] + M[u][source] < d[source]
        BY <1>6, <3>1
      <4>2. \A a, b \in Nat : ~(a + b < 0)
        OBVIOUS
      <4> QED
        BY <1>4, <2>1, <4>1, <4>2, Zenon
    <3> QED
      BY <3>1
  <2> QED
    BY <1>5, <2>1, <2>2
<1>11. ASSUME NEW v \in 1..n \ {source}
       PROVE  \/ d2[v] = Infinite /\ p2[v] = NoRouter
              \/ /\ p2[v] \in E \union {u} /\ M[p2[v]][v] > 0 /\ d2[v] < Infinite
                 /\ d2[v] = d2[p2[v]] + M[p2[v]][v]
  <2>1. CASE v \in N
    <3>1. d2[v] = d[u] + M[u][v] /\ p2[v] = u /\ d2[u] = d[u] /\ M[u][v] > 0
      BY <1>5, <1>6, <1>9, <2>1
    <3>2. d2[v] < Infinite
      <4>1. M[u][v] \in Nat /\ d[u] + M[u][v] < d[v] /\ d[v] \in Nat /\ d[v] <= Infinite
        BY <1>3, <1>6, <2>1
      <4>2. \A a, b, c, e \in Nat : a + b < c /\ c <= e => a + b < e
        OBVIOUS
      <4>3. d[u] + M[u][v] < Infinite
        BY <1>2, <1>4, <4>1, <4>2, Zenon
      <4> QED
        BY <3>1, <4>3
    <3>3. ASSUME NEW x, x = u
          PROVE  x \in E \union {u} /\ M[x][v] > 0 /\ d2[v] = d2[x] + M[x][v]
      BY <3>1, <3>3
    <3> QED
      BY <3>1, <3>2, <3>3
  <2>2. CASE v \notin N
    <3>1. d2[v] = d[v] /\ p2[v] = p[v]
      BY <1>5, <2>2
    <3>2. \/ d[v] = Infinite /\ p[v] = NoRouter
          \/ /\ p[v] \in E /\ M[p[v]][v] > 0 /\ d[v] < Infinite
             /\ d[v] = d[p[v]] + M[p[v]][v]
      BY DEF Settled
    <3>3. p[v] \in E => d2[p[v]] = d[p[v]]
      BY <1>9
    <3> QED
      BY <3>1, <3>2, <3>3
  <2> QED
    BY <2>1, <2>2
<1>12. ASSUME NEW w \in E \union {u}
       PROVE  /\ d2[w] < Infinite
              /\ \A v \in 1..n : M[w][v] > 0 => d2[v] <= d2[w] + M[w][v]
              /\ \A v \in 1..n \ (E \union {u}) : d2[w] <= d2[v]
  <2>1. w \in 1..n /\ d2[w] = d[w] /\ d[w] \in Nat
    BY <1>3, <1>9
  <2>2. d[w] < Infinite
    BY <1>4 DEF Settled
  <2>3. d[w] <= d[u]
    <3>1. CASE w = u
      BY <1>4, <3>1
    <3>2. CASE w \in E
      BY <3>2 DEF Settled
    <3> QED
      BY <3>1, <3>2
  <2>4. ASSUME NEW v \in 1..n, M[w][v] > 0
        PROVE  d2[v] <= d[w] + M[w][v]
    <3>1. M[w][v] \in Nat /\ d2[v] \in Nat /\ d2[v] <= d[v] /\ d[v] \in Nat /\ M[u][v] \in Nat
      BY <1>1, <1>3, <1>7, <2>1
    <3>2. CASE w \in E
      <4>1. d[v] <= d[w] + M[w][v]
        BY <2>4, <3>2 DEF Settled
      <4>2. \A a, b, c, e \in Nat : a <= b /\ b <= c + e => a <= c + e
        OBVIOUS
      <4> QED
        BY <2>1, <3>1, <4>1, <4>2, Zenon
    <3>3. CASE w = u /\ v \in N
      <4>1. d2[v] = d[w] + M[w][v]
        BY <1>5, <3>3
      <4>2. \A a \in Nat : a <= a
        OBVIOUS
      <4> QED
        BY <3>1, <4>1, <4>2, Zenon
    <3>4. CASE w = u /\ v \notin N /\ (v \in E \/ v = u)
      <4>1. d[v] <= d[w]
        <5>1. \A a \in Nat : a <= a
          OBVIOUS
        <5>2. v \in E => d[v] <= d[u]
          BY <3>4 DEF Settled
        <5> QED
          BY <2>1, <3>4, <5>1, <5>2, Zenon
      <4>2. \A a, b, c, e \in Nat : a <= b /\ b <= c => a <= c + e
        OBVIOUS
      <4> QED
        BY <2>1, <3>1, <4>1, <4>2, Zenon
    <3>5. CASE w = u /\ v \notin N /\ v \notin E /\ v # u
      <4>1. ~(d[w] + M[w][v] < d[v])
        BY <2>4, <3>5
      <4>2. \A a, b, c, e \in Nat : a <= b /\ ~(c + e < b) => a <= c + e
        OBVIOUS
      <4> QED
        BY <2>1, <3>1, <4>1, <4>2, Zenon
    <3> QED
      BY <3>2, <3>3, <3>4, <3>5
  <2>5. ASSUME NEW v \in 1..n \ (E \union {u})
        PROVE  d[w] <= d2[v]
    <3>1. d[u] <= d[v] /\ d[v] \in Nat /\ d2[v] \in Nat
      BY <1>3, <1>7
    <3>2. CASE v \in N
      <4>1. d2[v] = d[u] + M[u][v] /\ M[u][v] \in Nat
        BY <1>5, <1>6, <3>2
      <4>2. \A x, y, z \in Nat : x <= y => x <= y + z
        OBVIOUS
      <4>3. d[w] <= d[u] + M[u][v]
        BY <1>4, <2>1, <2>3, <4>1, <4>2, Zenon
      <4> QED
        BY <4>1, <4>3
    <3>3. CASE v \notin N
      <4>1. d2[v] = d[v]
        BY <1>5, <3>3
      <4> QED
        BY <1>4, <2>1, <2>3, <3>1, <4>1
    <3> QED
      BY <3>2, <3>3
  <2> QED
    BY <2>1, <2>2, <2>4, <2>5
<1>13. Settled(n, M, source, d2, p2, E \union {u})
  BY <1>10, <1>11, <1>12 DEF Settled
<1> QED
  BY <1>8, <1>13

FirstOf(q, h) == {q[i] : i \in 1..h - 1}
Explored(s) == FirstOf(s.queue, s.head)

\* The states of a search: the explored routers are settled, and the nearest of
\* the others is at the head of the queue.
Searches(n, matrix, source) ==
  {s \in [distance : [1..n -> 0..Infinite], parent : [1..n -> 0..n], head : 1..n + 1, queue : Queues(n)] :
     /\ Settled(n, matrix, source, s.distance, s.parent, Explored(s))
     /\ s.head <= n => \A v \in 1..n \ Explored(s) : s.distance[s.queue[s.head]] <= s.distance[v]}

(* The routers not explored are those of the queue from its head on, which *)
(* is what isNotExplored looks for.                                        *)
LEMMA QueueParts ==
  ASSUME NEW n \in Nat, NEW q \in Queues(n), NEW h \in 1..n + 1, NEW v \in 1..n
  PROVE  v \notin FirstOf(q, h) <=> \E i \in h..n : q[i] = v
<1>1. /\ \A i, j \in 1..n : q[i] = q[j] => i = j
      /\ \E i \in 1..n : q[i] = v
  BY DEF Queues, IsInjective
<1>2. /\ \A i \in 1..h - 1 : i \in 1..n
      /\ \A i \in h..n : i \in 1..n /\ i \notin 1..h - 1
      /\ \A i \in 1..n : i \in 1..h - 1 \/ i \in h..n
  OBVIOUS
<1> QED
  BY <1>1, <1>2 DEF FirstOf

(* One round of doDijkstraPathCalculation explores the router at the head  *)
(* and leaves a search, or stops where nothing more can be reached.        *)
LEMMA ExploreProperties ==
  ASSUME NEW n \in Nat, NEW M \in Matrices(n), NEW source \in 1..n,
         NEW s \in Searches(n, M, source), s.head <= n
  PROVE  /\ Explore(M, s) \in Searches(n, M, source)
         /\ IF s.distance[s.queue[s.head]] = Infinite THEN Explore(M, s) = s
            ELSE Explore(M, s).head = s.head + 1
<1> DEFINE d == s.distance
           p == s.parent
           h == s.head
           q == s.queue
           u == q[h]
           E == Explored(s)
           Nearer(v) == M[u][v] > 0 /\ IsNotExplored(s, v) /\ d[u] + M[u][v] < d[v]
           d2 == [v \in 1..n |-> IF Nearer(v) THEN d[u] + M[u][v] ELSE d[v]]
           p2 == [v \in 1..n |-> IF Nearer(v) THEN u ELSE p[v]]
           q2 == SortQueueByDistance(q, d2, h + 1)
           N == {v \in 1..n : Nearer(v)}
<1>1. /\ d \in [1..n -> 0..Infinite] /\ p \in [1..n -> 0..n] /\ h \in 1..n + 1 /\ q \in Queues(n)
      /\ s = [distance |-> d, parent |-> p, head |-> h, queue |-> q]
      /\ Settled(n, M, source, d, p, E)
      /\ \A v \in 1..n \ E : d[u] <= d[v]
  BY DEF Searches
<1>2. DOMAIN M = 1..n /\ Len(q) = n /\ q \in [1..n -> 1..n] /\ h \in 1..n
  <2>1. h \in 1..n
    BY <1>1
  <2> HIDE DEF q
  <2>2. DOMAIN M = 1..n /\ q \in [1..n -> 1..n]
    BY <1>1 DEF Matrices, Queues
  <2> QED
    BY <2>1, <2>2, AsSequence
<1>3. CASE d[u] = Infinite
  BY <1>3 DEF Explore
<1>4. CASE d[u] # Infinite
  <2>1. Explore(M, s) = [distance |-> d2, parent |-> p2, head |-> h + 1, queue |-> q2]
    BY <1>2, <1>4 DEF Explore
  <2> HIDE DEF d, p, h, q
  <2>2. E = FirstOf(q, h)
    BY DEF Explored, q, h
  <2>3. \A v \in 1..n : IsNotExplored(s, v) <=> \E i \in h + 1..n : q[i] = v
    BY <1>2 DEF IsNotExplored, q, h
  <2>4. u \in 1..n /\ u \notin E
    <3>1. u \in 1..n
      BY <1>2
    <3>2. u \notin FirstOf(q, h) <=> \E i \in h..n : q[i] = u
      BY <1>1, <3>1, QueueParts
    <3>3. h \in h..n
      BY <1>2
    <3> QED
      BY <2>2, <3>1, <3>2, <3>3
  <2>5. FirstOf(q, h + 1) = E \union {u}
    <3>1. /\ \A i \in 1..(h + 1) - 1 : i = h \/ i \in 1..h - 1
          /\ \A i \in 1..h - 1 : i \in 1..(h + 1) - 1
          /\ h \in 1..(h + 1) - 1
      BY <1>2
    <3> HIDE DEF E
    <3> QED
      BY <2>2, <3>1 DEF FirstOf
  <2>6. \A v \in 1..n : IsNotExplored(s, v) <=> v \notin E \union {u}
    <3>1. h + 1 \in 1..n + 1
      BY <1>2
    <3> HIDE DEF E
    <3>2. \A v \in 1..n : v \notin FirstOf(q, h + 1) <=> \E i \in h + 1..n : q[i] = v
      BY <1>1, <3>1, QueueParts
    <3> QED
      BY <2>3, <2>5, <3>2
  <2>7. E \in SUBSET (1..n)
    BY <1>2, <2>2 DEF FirstOf
  <2>8. \A v \in 1..n : v \in N <=> M[u][v] > 0 /\ v \notin E \union {u} /\ d[u] + M[u][v] < d[v]
    BY <2>6
  <2>9. d2 = Relaxed(n, M, d, u, N) /\ p2 = Over(n, p, u, N)
    BY DEF Relaxed, Over
  <2>10. N \in SUBSET (1..n)
    OBVIOUS
  <2> HIDE DEF N, d2, p2, E, u
  <2>11. /\ d2 \in [1..n -> 0..Infinite] /\ p2 \in [1..n -> 0..n]
         /\ Settled(n, M, source, d2, p2, E \union {u})
    BY <1>1, <1>4, <2>4, <2>7, <2>8, <2>9, <2>10, OneMoreSettled
  <2>12. d2 \in [1..n -> Nat] /\ h + 1 \in 1..n + 1
    <3>1. 0..Infinite \subseteq Nat
      BY InfiniteIsPositive
    <3>2. d2 \in [1..n -> Nat]
      BY <2>11, <3>1
    <3>3. h + 1 \in 1..n + 1
      BY <1>2
    <3> QED
      BY <3>2, <3>3
  <2>13. /\ q2 \in Queues(n)
         /\ \A j \in 1..(h + 1) - 1 : q2[j] = q[j]
         /\ \A j \in h + 1..n : d2[q2[h + 1]] <= d2[q2[j]]
    BY <1>1, <2>12, SortProperties
  <2> DEFINE t == [distance |-> d2, parent |-> p2, head |-> h + 1, queue |-> q2]
  <2> HIDE DEF q2
  <2>14. FirstOf(q2, h + 1) = E \union {u}
    BY <2>5, <2>13 DEF FirstOf
  <2>15. Explored(t) = E \union {u}
    BY <2>14 DEF Explored
  <2>16. \A v \in 1..n \ (E \union {u}) : d2[q2[h + 1]] <= d2[v]
    <3>1. \A v \in 1..n : v \notin E \union {u} => \E i \in h + 1..n : q2[i] = v
      <4>1. \A v \in 1..n : v \notin FirstOf(q2, h + 1) <=> \E i \in h + 1..n : q2[i] = v
        BY <2>12, <2>13, QueueParts
      <4> QED
        BY <2>14, <4>1
    <3> QED
      BY <2>13, <3>1
  <2>17. t \in Searches(n, M, source)
    BY <2>11, <2>12, <2>13, <2>15, <2>16 DEF Searches
  <2> QED
    BY <1>4, <2>1, <2>17 DEF u, d, q, h
<1> QED
  BY <1>3, <1>4

Reached(n, distance) == {v \in 1..n : distance[v] < Infinite}

(* What doDijkstraPathCalculation sets up is a search that has explored    *)
(* nothing.                                                                *)
LEMMA SearchStart ==
  ASSUME NEW n \in Nat, NEW M \in Matrices(n), NEW source \in 1..n,
         NEW d, d = [i \in 1..n |-> IF i = source THEN 0 ELSE Infinite]
  PROVE  [distance |-> d, parent |-> [i \in 1..n |-> NoRouter], head |-> 1,
          queue |-> SortQueueByDistance(UpTo(n), d, 1)] \in Searches(n, M, source)
<1> DEFINE q == SortQueueByDistance(UpTo(n), d, 1)
           p == [i \in 1..n |-> NoRouter]
           s == [distance |-> d, parent |-> p, head |-> 1, queue |-> q]
<1>1. d \in [1..n -> 0..Infinite] /\ d \in [1..n -> Nat]
  BY InfiniteIsPositive
<1>2. UpTo(n) \in Queues(n)
  <2>1. UpTo(n) \in [1..n -> 1..n] /\ \A i \in 1..n : UpTo(n)[i] = i
    BY DEF UpTo
  <2> QED
    BY <2>1 DEF Queues, IsInjective
<1>3. q \in Queues(n) /\ \A j \in 1..n : d[q[1]] <= d[q[j]]
  <2>1. 1 \in 1..n + 1
    OBVIOUS
  <2> QED
    BY <1>1, <1>2, <2>1, SortProperties
<1> HIDE DEF q
<1>4. Explored(s) = {}
  BY DEF Explored, FirstOf
<1>5. p \in [1..n -> 0..n] /\ \A v \in 1..n : p[v] = NoRouter
  BY DEF NoRouter
<1> HIDE DEF p
<1>6. Settled(n, M, source, d, p, {})
  BY <1>5 DEF Settled
<1>7. \A v \in 1..n : d[q[1]] <= d[v]
  BY <1>3 DEF Queues
<1>8. 1 \in 1..n + 1
  OBVIOUS
<1> HIDE DEF s
<1>9. s.distance = d /\ s.parent = p /\ s.head = 1 /\ s.queue = q
  BY DEF s
<1>10. s \in [distance : [1..n -> 0..Infinite], parent : [1..n -> 0..n], head : 1..n + 1, queue : Queues(n)]
  BY <1>1, <1>3, <1>5, <1>8 DEF s
<1> QED
  BY <1>4, <1>6, <1>7, <1>9, <1>10 DEF Searches, s, p, q

(* doDijkstraPathCalculation settles all that can be reached from the      *)
(* source.                                                                 *)
LEMMA DijkstraProperties ==
  ASSUME NEW n \in Nat, NEW M \in Matrices(n), NEW source \in 1..n,
         NEW s, s = DoDijkstraPathCalculation(M, source)
  PROVE  /\ s.distance \in [1..n -> 0..Infinite] /\ s.parent \in [1..n -> 0..n]
         /\ Settled(n, M, source, s.distance, s.parent, Reached(n, s.distance))
<1> DEFINE m == Len(M)
           d == [i \in DOMAIN M |-> IF i = source THEN 0 ELSE Infinite]
           start == [distance |-> d, parent |-> [i \in DOMAIN M |-> NoRouter], head |-> 1,
                     queue |-> SortQueueByDistance(UpTo(m), d, 1)]
           Step(g) == [i \in 0..m |-> IF i = 0 THEN start ELSE Explore(M, g[i - 1])]
           explored == CHOOSE g : g = Step(g)
           T == [i \in 0..n |-> {t \in Searches(n, M, source) :
                   t.head = i + 1 \/ (t.head <= n /\ t.distance[t.queue[t.head]] = Infinite)}]
           step == [i \in 0..n |-> [t \in T[i - 1] |-> Explore(M, t)]]
<1>1. m = n /\ DOMAIN M = 1..n
  BY AsSequence DEF Matrices
<1>2. s = explored[n]
  BY <1>1 DEF DoDijkstraPathCalculation
<1> HIDE DEF m
<1>3. start \in T[0]
  <2>1. start \in Searches(n, M, source)
    BY <1>1, SearchStart
  <2>2. start.head = 0 + 1
    OBVIOUS
  <2> HIDE DEF start
  <2> QED
    BY <2>1, <2>2
<1> HIDE DEF start
<1>4. ASSUME NEW i \in 0..n, i # 0, NEW t \in T[i - 1]
      PROVE  Explore(M, t) \in T[i]
  <2>1. i - 1 \in 0..n /\ (i - 1) + 1 = i
    BY <1>4
  <2>2. /\ t \in Searches(n, M, source)
        /\ t.head = i \/ (t.head <= n /\ t.distance[t.queue[t.head]] = Infinite)
    BY <1>4, <2>1
  <2>3. t.head <= n
    BY <2>2
  <2>4. /\ Explore(M, t) \in Searches(n, M, source)
        /\ IF t.distance[t.queue[t.head]] = Infinite THEN Explore(M, t) = t
           ELSE Explore(M, t).head = t.head + 1
    BY <2>2, <2>3, ExploreProperties
  <2> QED
    BY <2>2, <2>3, <2>4
<1>5. \E f : f = Step(f)
  <2>1. \A i \in 0..n : i # 0 => \A t \in T[i - 1] : step[i][t] = Explore(M, t)
    <3> HIDE DEF T
    <3> QED
      OBVIOUS
  <2>2. StepsStayIn(0, n, step, T)
    <3> HIDE DEF T
    <3> QED
      BY <1>4 DEF StepsStayIn
  <2>3. 0 \in Int /\ n \in Int /\ 0 <= n
    OBVIOUS
  <2> HIDE DEF step, T
  <2>4. PICK f : Yields(f, 0, n, start, step) /\ KeepsTo(f, 0, n, T)
    BY <1>3, <2>2, <2>3, Recursion
  <2>5. \A i \in 0..n : i # 0 => i - 1 \in 0..n
    OBVIOUS
  <2>6. f = Step(f)
    BY <1>1, <2>1, <2>4, <2>5 DEF Yields, KeepsTo
  <2> HIDE DEF Step
  <2> QED
    BY <2>6
<1>6. explored = Step(explored)
  <2> HIDE DEF Step
  <2> QED
    BY <1>5
<1> HIDE DEF explored
<1>7. \A i \in 0..n : explored[i] \in T[i]
  <2> DEFINE Right == {i \in 0..n : explored[i] \in T[i]}
  <2> HIDE DEF T
  <2>1. 0 \in Right
    BY <1>1, <1>3, <1>6
  <2>2. ASSUME NEW i \in 0..n, i # 0, i - 1 \in Right
        PROVE  i \in Right
    BY <1>1, <1>4, <1>6, <2>2
  <2>3. 0 \in Int /\ n \in Int
    OBVIOUS
  <2> HIDE DEF Right
  <2>4. \A i \in 0..n : i \in Right
    BY <2>1, <2>2, <2>3, PassedOn
  <2> QED
    BY <2>4 DEF Right
<1>8. s \in Searches(n, M, source) /\ (s.head = n + 1 \/ (s.head <= n /\ s.distance[s.queue[s.head]] = Infinite))
  <2>1. n \in 0..n
    OBVIOUS
  <2> QED
    BY <1>2, <1>7, <2>1
<1> HIDE DEF T, Step, step
<1>9. /\ s.distance \in [1..n -> 0..Infinite] /\ s.parent \in [1..n -> 0..n]
      /\ s.queue \in Queues(n) /\ s.head \in 1..n + 1
      /\ Settled(n, M, source, s.distance, s.parent, Explored(s))
      /\ s.head <= n => \A v \in 1..n \ Explored(s) : s.distance[s.queue[s.head]] <= s.distance[v]
  BY <1>8 DEF Searches
<1>10. Explored(s) = Reached(n, s.distance)
  <2>1. \A u \in Explored(s) : u \in 1..n /\ s.distance[u] < Infinite
    <3>1. \A u \in Explored(s) : u \in 1..n
      BY <1>9 DEF Explored, FirstOf, Queues
    <3> QED
      BY <1>9, <3>1 DEF Settled
  <2>2. ASSUME NEW v \in 1..n, v \notin Explored(s)
        PROVE  ~(s.distance[v] < Infinite)
    <3>1. CASE s.head = n + 1
      <4> DEFINE q == s.queue
                 h == s.head
      <4>3. q \in Queues(n) /\ h \in 1..n + 1
        BY <1>9
      <4> HIDE DEF q, h
      <4>4. v \notin FirstOf(q, h) <=> \E i \in h..n : q[i] = v
        BY <4>3, QueueParts
      <4>1. v \notin FirstOf(s.queue, s.head) <=> \E i \in s.head..n : s.queue[i] = v
        BY <4>4 DEF q, h
      <4>2. s.head..n = {}
        BY <3>1
      <4> QED
        BY <2>2, <4>1, <4>2 DEF Explored
    <3>2. CASE s.head <= n /\ s.distance[s.queue[s.head]] = Infinite
      <4>1. Infinite <= s.distance[v]
        BY <1>9, <2>2, <3>2
      <4>2. s.distance[v] \in Nat
        BY <1>9, InfiniteIsPositive
      <4> QED
        BY <4>1, <4>2, InfiniteIsPositive
    <3> QED
      BY <1>8, <3>1, <3>2
  <2> QED
    BY <2>1, <2>2 DEF Reached
<1> QED
  BY <1>9, <1>10

-----------------------------------------------------------------------------
(* The way back along the parents.                                         *)

\* What a search has come to: the distances and parents of the shortest ways
\* from source.
IsTree(n, matrix, source, distance, parent) ==
  /\ distance \in [1..n -> 0..Infinite] /\ parent \in [1..n -> 0..n]
  /\ Settled(n, matrix, source, distance, parent, Reached(n, distance))

(* A parent is nearer than its child, so that getLsNextHop gets nearer to  *)
(* the source with every step of its loop.                                 *)
LEMMA ParentIsNearer ==
  ASSUME NEW n \in Nat, NEW M \in Matrices(n), NEW source \in 1..n,
         NEW d, NEW p, IsTree(n, M, source, d, p), NEW v \in 1..n, p[v] # NoRouter
  PROVE  /\ v # source /\ p[v] \in 1..n /\ M[p[v]][v] \in Nat /\ M[p[v]][v] > 0
         /\ d[p[v]] \in Nat /\ d[v] \in Nat
         /\ d[v] = d[p[v]] + M[p[v]][v] /\ d[p[v]] < d[v] /\ d[v] < Infinite
<1>1. /\ d \in [1..n -> 0..Infinite] /\ p \in [1..n -> 0..n]
      /\ Settled(n, M, source, d, p, Reached(n, d))
  BY DEF IsTree
<1>2. v # source
  BY <1>1 DEF Settled
<1>3. /\ p[v] \in Reached(n, d) /\ M[p[v]][v] > 0 /\ d[v] < Infinite
      /\ d[v] = d[p[v]] + M[p[v]][v]
  BY <1>1, <1>2 DEF Settled
<1>4. p[v] \in 1..n
  BY <1>3 DEF Reached
<1>5. M[p[v]][v] \in Nat
  BY <1>4 DEF Matrices
<1>6. d[p[v]] \in Nat /\ d[v] \in Nat
  BY <1>1, <1>4, InfiniteIsPositive
<1>7. \A x, y \in Nat : y > 0 => x < x + y
  OBVIOUS
<1>8. d[p[v]] < d[p[v]] + M[p[v]][v]
  BY <1>3, <1>5, <1>6, <1>7, Zenon
<1>9. d[p[v]] < d[v]
  BY <1>3, <1>8
<1> QED
  BY <1>2, <1>3, <1>4, <1>5, <1>6, <1>9

HopBy(hop, p, source, v) ==
  IF p[v] = NoRouter THEN NoRouter ELSE IF p[v] = source THEN v ELSE hop[p[v]]

(* The way back of getLsNextHop ends, so that every router has its next    *)
(* hop or has none.                                                        *)
LEMMA HopsExist ==
  ASSUME NEW n \in Nat, NEW M \in Matrices(n), NEW source \in 1..n,
         NEW d, NEW p, IsTree(n, M, source, d, p)
  PROVE  \E hop \in [1..n -> 0..n] : hop = [v \in 1..n |-> HopBy(hop, p, source, v)]
<1> DEFINE V(m) == {v \in 1..n : d[v] <= m}
           Good(m, f) == f \in [V(m) -> 0..n] /\ \A v \in V(m) : f[v] = HopBy(f, p, source, v)
           Wrong == {m \in Nat : ~\E f : Good(m, f)}
<1>1. /\ \A v \in 1..n : d[v] \in Nat /\ d[v] <= Infinite
      /\ \A v \in 1..n : p[v] \in 0..n
  BY InfiniteIsPositive DEF IsTree
<1>2. \A v \in 1..n : p[v] # NoRouter => p[v] \in 1..n /\ d[p[v]] < d[v]
  BY ParentIsNearer
<1>3. \A m \in Nat : m \notin Wrong
  <2>1. SUFFICES ASSUME Wrong # {} PROVE FALSE
    OBVIOUS
  <2>2. PICK m \in Wrong : \A k \in Wrong : m <= k
    <3>1. Wrong \in SUBSET Nat
      OBVIOUS
    <3> HIDE DEF Wrong
    <3> QED
      BY <2>1, <3>1, LeastNumber
  <2>3. m \in Nat /\ ~\E f : Good(m, f)
    BY <2>2
  <2>4. CASE m = 0
    <3> DEFINE f == [v \in V(0) |-> NoRouter]
    <3>1. \A v \in V(0) : p[v] = NoRouter
      BY <1>1, <1>2
    <3>2. f \in [V(0) -> 0..n]
      BY DEF NoRouter
    <3>3. \A v \in V(0) : f[v] = HopBy(f, p, source, v)
      BY <3>1 DEF HopBy
    <3>4. Good(0, f)
      BY <3>2, <3>3
    <3> HIDE DEF Good, f
    <3> QED
      BY <2>3, <2>4, <3>4
  <2>5. CASE m # 0
    <3>1. m - 1 \in Nat /\ ~(m <= m - 1)
      BY <2>3, <2>5
    <3>2. PICK f : Good(m - 1, f)
      BY <2>2, <3>1
    <3> DEFINE g == [v \in V(m) |-> IF v \in V(m - 1) THEN f[v] ELSE HopBy(f, p, source, v)]
    <3>3. \A v \in V(m) : v \in 1..n /\ (p[v] # NoRouter => p[v] \in V(m - 1) /\ p[v] \in V(m))
      BY <1>1, <1>2, <2>3
    <3>4. \A v \in V(m - 1) : f[v] \in 0..n /\ f[v] = HopBy(f, p, source, v)
      BY <3>2
    <3>5. \A v \in V(m) : g[v] = HopBy(f, p, source, v)
      BY <3>4
    <3>6. \A v \in V(m - 1) : v \in V(m) => g[v] = f[v]
      OBVIOUS
    <3> HIDE DEF V
    <3>7. ASSUME NEW v \in V(m)
          PROVE  HopBy(f, p, source, v) = HopBy(g, p, source, v) /\ HopBy(f, p, source, v) \in 0..n
      <4> HIDE DEF g
      <4>1. p[v] # NoRouter => g[p[v]] = f[p[v]] /\ f[p[v]] \in 0..n
        BY <3>3, <3>4, <3>6
      <4>2. v \in 0..n /\ NoRouter \in 0..n
        BY <3>3 DEF NoRouter
      <4> QED
        BY <4>1, <4>2 DEF HopBy
    <3>8. g \in [V(m) -> 0..n]
      BY <3>4, <3>7
    <3>9. \A v \in V(m) : g[v] = HopBy(g, p, source, v)
      <4> HIDE DEF g
      <4> QED
        BY <3>5, <3>7
    <3>10. Good(m, g)
      BY <3>8, <3>9
    <3> HIDE DEF Good, g
    <3> QED
      BY <2>3, <3>10
  <2> QED
    BY <2>4, <2>5
<1>4. V(Infinite) = 1..n
  BY <1>1
<1>5. PICK f : Good(Infinite, f)
  <2> HIDE DEF Good
  <2> QED
    BY <1>3, InfiniteIsPositive
<1>6. f \in [1..n -> 0..n] /\ \A v \in 1..n : f[v] = HopBy(f, p, source, v)
  BY <1>4, <1>5
<1>7. f = [v \in 1..n |-> HopBy(f, p, source, v)]
  BY <1>6
<1> QED
  BY <1>6, <1>7

(* getLsNextHop follows the parents back to the router before the source.  *)
LEMMA NextHopProperties ==
  ASSUME NEW n \in Nat, NEW M \in Matrices(n), NEW source \in 1..n,
         NEW s, IsTree(n, M, source, s.distance, s.parent)
  PROVE  \E hop : \A v \in 1..n : /\ GetLsNextHop(s, v, source) = hop[v]
                                  /\ hop[v] = HopBy(hop, s.parent, source, v)
<1> DEFINE Step(g) == [v \in DOMAIN s.parent |->
                         IF s.parent[v] = NoRouter THEN NoRouter
                         ELSE IF s.parent[v] = source THEN v ELSE g[s.parent[v]]]
           hop == CHOOSE g : g = Step(g)
<1>1. DOMAIN s.parent = 1..n
  BY DEF IsTree
<1>2. \A v : GetLsNextHop(s, v, source) = hop[v]
  BY DEF GetLsNextHop
<1>3. PICK f : f = [v \in 1..n |-> HopBy(f, s.parent, source, v)]
  BY HopsExist
<1>4. f = Step(f)
  BY <1>1, <1>3 DEF HopBy
<1>5. hop = Step(hop)
  <2> HIDE DEF Step
  <2> QED
    BY <1>4
<1> HIDE DEF hop
<1>6. \A v \in 1..n : hop[v] = HopBy(hop, s.parent, source, v)
  BY <1>1, <1>5 DEF HopBy
<1> QED
  BY <1>2, <1>6

-----------------------------------------------------------------------------
(* Shortest ways, by the number of their links.                            *)

LinksOK == adjLsdb \in Seq(AdjLsa)

(* The two ends of a link, as makeAdjMatrix counts one, are both in the    *)
(* database.                                                               *)
LEMMA LinkCostProperties ==
  ASSUME LinksOK, NEW a, NEW b
  PROVE  /\ LinkCost(a, b) \in Nat
         /\ LinkCost(a, b) > 0 => a \in Listed /\ b \in Listed
<1>1. /\ DOMAIN adjLsdb = 1..Len(adjLsdb) /\ \A i \in DOMAIN adjLsdb : adjLsdb[i] \in AdjLsa
  BY LenProperties, ElementOfSeq DEF LinksOK
<1>2. ASSUME NEW x, NEW y
      PROVE  Told(adjLsdb, x, y) \in Nat /\ (Told(adjLsdb, x, y) # 0 => x \in Listed)
  <2> DEFINE Telling == {i \in DOMAIN adjLsdb : adjLsdb[i].orig = x /\ y \in DOMAIN adjLsdb[i].links}
  <2>1. CASE Telling = {}
    BY <2>1 DEF Told
  <2>2. CASE Telling # {}
    <3> DEFINE i == CHOOSE j \in Telling : TRUE
    <3>1. i \in Telling
      BY <2>2
    <3>2. Told(adjLsdb, x, y) = adjLsdb[i].links[y]
      BY <2>2 DEF Told
    <3> HIDE DEF i
    <3>3. i \in DOMAIN adjLsdb /\ adjLsdb[i].orig = x /\ y \in DOMAIN adjLsdb[i].links
      BY <3>1
    <3>4. adjLsdb[i] \in AdjLsa
      BY <1>1, <3>3
    <3>5. x \in Listed
      BY <3>3, <3>4 DEF Listed, AdjLsa
    <3>6. PICK A \in SUBSET Routers : adjLsdb[i].links \in [A -> Nat]
      BY <3>4 DEF AdjLsa
    <3>7. adjLsdb[i].links[y] \in Nat
      BY <3>3, <3>6
    <3> QED
      BY <3>2, <3>5, <3>7
  <2> QED
    BY <2>1, <2>2
<1> DEFINE to == Told(adjLsdb, a, b)
           fr == Told(adjLsdb, b, a)
<1>3. to \in Nat /\ fr \in Nat
  BY <1>2
<1>4. LinkCost(a, b) = IF to = 0 \/ fr = 0 THEN 0 ELSE IF to > fr THEN to ELSE fr
  BY DEF LinkCost, Larger
<1>5. (to # 0 => a \in Listed) /\ (fr # 0 => b \in Listed)
  BY <1>2
<1> HIDE DEF to, fr
<1> QED
  BY <1>3, <1>4, <1>5

(* The least of a set of costs is one of them, and none is less.           *)
LEMMA MinProperties ==
  ASSUME NEW A \in SUBSET Nat, A # {}
  PROVE  Min(A) \in A /\ \A x \in A : Min(A) <= x
BY LeastNumber DEF Min

\* W has the costs of the ways to b by routers of S over 0..K links.
IsWithin(b, S, K, W) ==
  /\ W \in [0..K -> [S -> 0..Infinite]]
  /\ \A k \in 0..K : W[k][b] = 0
  /\ \A c \in S \ {b} : W[0][c] = Infinite
  /\ \A k \in 1..K : \A c \in S \ {b} :
       /\ \A e \in S : LinkCost(c, e) > 0 => W[k][c] <= LinkCost(c, e) + W[k - 1][e]
       /\ W[k][c] = Infinite \/ \E e \in S : LinkCost(c, e) > 0 /\ W[k][c] = LinkCost(c, e) + W[k - 1][e]

\* The best of going one link and on.
OneFurther(S, w, c) ==
  LET on == {d \in S : LinkCost(c, d) > 0 /\ w[d] < Infinite}
  IN Min({Infinite} \union {LinkCost(c, d) + w[d] : d \in on})

(* The best of one link and on is the cost of one of these ways, and none  *)
(* costs less.                                                             *)
LEMMA OneLinkFurther ==
  ASSUME LinksOK, NEW S \in SUBSET Routers, NEW w \in [S -> 0..Infinite], NEW c,
         NEW x, x = OneFurther(S, w, c)
  PROVE  /\ x \in 0..Infinite
         /\ \A e \in S : LinkCost(c, e) > 0 => x <= LinkCost(c, e) + w[e]
         /\ x = Infinite \/ \E e \in S : LinkCost(c, e) > 0 /\ x = LinkCost(c, e) + w[e]
<1> DEFINE on == {f \in S : LinkCost(c, f) > 0 /\ w[f] < Infinite}
           A == {Infinite} \union {LinkCost(c, e) + w[e] : e \in on}
<1>1. Infinite \in Nat /\ \A e \in S : LinkCost(c, e) \in Nat /\ w[e] \in Nat /\ w[e] <= Infinite
  BY InfiniteIsPositive, LinkCostProperties
<1>2. A \in SUBSET Nat /\ A # {} /\ Infinite \in A
  BY <1>1
<1>3. x \in A /\ \A y \in A : x <= y
  <2> HIDE DEF A
  <2> QED
    BY <1>2, MinProperties DEF A, OneFurther
<1>4. x \in Nat /\ x <= Infinite
  BY <1>2, <1>3
<1>5. ASSUME NEW e \in S, LinkCost(c, e) > 0
      PROVE  x <= LinkCost(c, e) + w[e]
  <2>1. CASE w[e] < Infinite
    BY <1>3, <1>5, <2>1
  <2>2. CASE ~(w[e] < Infinite)
    <3>1. \A a, i, l, v \in Nat : a <= i /\ ~(v < i) => a <= l + v
      OBVIOUS
    <3> QED
      BY <1>1, <1>4, <2>2, <3>1, Zenon
  <2> QED
    BY <2>1, <2>2
<1>6. x = Infinite \/ \E e \in S : LinkCost(c, e) > 0 /\ x = LinkCost(c, e) + w[e]
  BY <1>3
<1>7. x \in 0..Infinite
  BY <1>1, <1>4
<1> HIDE DEF A, on
<1> QED
  BY <1>5, <1>6, <1>7

(* The costs of the shortest ways are those over at most as many links as  *)
(* there are routers.                                                      *)
LEMMA DistancesProperties ==
  ASSUME LinksOK, NEW S \in SUBSET Routers, NEW b \in S, NEW K, K = Cardinality(S)
  PROVE  K \in Nat /\ \E W : IsWithin(b, S, K, W) /\ Distances(b, S) = W[K]
<1> DEFINE Further(w, c) ==
             LET on == {e \in S : LinkCost(c, e) > 0 /\ w[e] < Infinite}
             IN Min({Infinite} \union {LinkCost(c, e) + w[e] : e \in on})
           Step(g) == [k \in 0..K |->
             [c \in S |-> IF c = b THEN 0 ELSE IF k = 0 THEN Infinite ELSE Further(g[k - 1], c)]]
           W == CHOOSE g : g = Step(g)
           base == [c \in S |-> IF c = b THEN 0 ELSE Infinite]
           Next(w) == [c \in S |-> IF c = b THEN 0 ELSE Further(w, c)]
           T == [k \in 0..K |-> [S -> 0..Infinite]]
           step == [k \in 0..K |-> [w \in [S -> 0..Infinite] |-> Next(w)]]
<1>1. K \in Nat
  BY FS_Subset, FS_CardinalityType, RouterAssumption
<1>2. Distances(b, S) = W[K]
  BY DEF Distances
<1>3. base \in [S -> 0..Infinite]
  BY InfiniteIsPositive
<1>4. ASSUME NEW w \in [S -> 0..Infinite], NEW c \in S
      PROVE  /\ Further(w, c) \in 0..Infinite
             /\ \A e \in S : LinkCost(c, e) > 0 => Further(w, c) <= LinkCost(c, e) + w[e]
             /\ Further(w, c) = Infinite \/ \E e \in S : LinkCost(c, e) > 0 /\ Further(w, c) = LinkCost(c, e) + w[e]
  <2>1. Further(w, c) = OneFurther(S, w, c)
    BY DEF OneFurther
  <2> HIDE DEF Further
  <2> QED
    BY <2>1, OneLinkFurther
<1> HIDE DEF Further
<1>5. \A w \in [S -> 0..Infinite] : Next(w) \in [S -> 0..Infinite]
  BY <1>4, InfiniteIsPositive
<1>6. \E f : f = Step(f)
  <2>1. /\ base \in T[0] /\ StepsStayIn(0, K, step, T)
        /\ \A k \in 0..K : k # 0 => \A w \in T[k - 1] : step[k][w] = Next(w)
    <3>1. \A k \in 0..K : T[k] = [S -> 0..Infinite] /\ \A w \in [S -> 0..Infinite] : step[k][w] = Next(w)
      OBVIOUS
    <3>2. 0 \in 0..K /\ \A k \in 0..K : k # 0 => k - 1 \in 0..K
      BY <1>1
    <3> HIDE DEF T, step, Next, base
    <3> QED
      BY <1>3, <1>5, <3>1, <3>2 DEF StepsStayIn
  <2>2. 0 \in Int /\ K \in Int /\ 0 <= K
    BY <1>1
  <2> HIDE DEF step, T, base
  <2>3. PICK f : Yields(f, 0, K, base, step) /\ KeepsTo(f, 0, K, T)
    BY <2>1, <2>2, Recursion
  <2>4. \A k \in 0..K : k # 0 => k - 1 \in 0..K
    BY <1>1
  <2>5. \A k \in 0..K : f[k] = IF k = 0 THEN base ELSE Next(f[k - 1])
    <3> HIDE DEF Next
    <3> QED
      BY <2>1, <2>3, <2>4 DEF Yields, KeepsTo
  <2>6. \A k \in 0..K : f[k] = Step(f)[k]
    BY <2>5 DEF base
  <2>7. f = Step(f)
    <3>1. f = [k \in 0..K |-> f[k]]
      BY <2>3 DEF Yields
    <3>2. Step(f) = [k \in 0..K |-> Step(f)[k]]
      OBVIOUS
    <3> HIDE DEF Step
    <3> QED
      BY <2>6, <3>1, <3>2
  <2> HIDE DEF Step
  <2> QED
    BY <2>7
<1>7. W = Step(W)
  <2> HIDE DEF Step
  <2> QED
    BY <1>6
<1> HIDE DEF W
<1>8. ASSUME NEW k \in 0..K
      PROVE  \A c \in S : W[k][c] = IF c = b THEN 0 ELSE IF k = 0 THEN Infinite ELSE Further(W[k - 1], c)
  <2>1. W[k] = [c \in S |-> IF c = b THEN 0 ELSE IF k = 0 THEN Infinite ELSE Further(W[k - 1], c)]
    BY <1>7
  <2> QED
    BY <2>1
<1>9. ASSUME NEW k \in 0..K
      PROVE  W[k] = IF k = 0 THEN base ELSE Next(W[k - 1])
  <2>1. W[k] = [c \in S |-> IF c = b THEN 0 ELSE IF k = 0 THEN Infinite ELSE Further(W[k - 1], c)]
    BY <1>7
  <2>2. CASE k = 0
    BY <2>1, <2>2
  <2>3. CASE k # 0
    BY <2>1, <2>3
  <2> QED
    BY <2>2, <2>3
<1> DEFINE Right == {k \in 0..K : W[k] \in [S -> 0..Infinite]}
<1>10. \A k \in 0..K : k \in Right
  <2> HIDE DEF Next, base
  <2>1. 0 \in Right
    BY <1>1, <1>3, <1>9
  <2>2. ASSUME NEW k \in 0..K, k # 0, k - 1 \in Right
        PROVE  k \in Right
    BY <1>5, <1>9, <2>2
  <2>3. 0 \in Int /\ K \in Int
    BY <1>1
  <2> HIDE DEF Right
  <2> QED
    BY <2>1, <2>2, <2>3, PassedOn
<1>11. \A k \in 0..K : W[k] \in [S -> 0..Infinite]
  BY <1>10
<1>12. W \in [0..K -> [S -> 0..Infinite]]
  <2>1. W = [k \in 0..K |-> W[k]]
    <3>1. DOMAIN Step(W) = 0..K /\ Step(W) = [k \in 0..K |-> Step(W)[k]]
      OBVIOUS
    <3> HIDE DEF Step
    <3> QED
      BY <1>7, <3>1
  <2> QED
    BY <1>11, <2>1
<1>13. ASSUME NEW k \in 1..K, NEW c \in S \ {b}
       PROVE  /\ \A e \in S : LinkCost(c, e) > 0 => W[k][c] <= LinkCost(c, e) + W[k - 1][e]
              /\ W[k][c] = Infinite \/ \E e \in S : LinkCost(c, e) > 0 /\ W[k][c] = LinkCost(c, e) + W[k - 1][e]
  <2>1. k \in 0..K /\ k - 1 \in 0..K /\ k # 0
    BY <1>1
  <2>2. W[k - 1] \in [S -> 0..Infinite]
    BY <1>11, <2>1
  <2>3. W[k][c] = Further(W[k - 1], c)
    BY <1>8, <2>1
  <2> QED
    BY <1>4, <2>2, <2>3
<1>14. (\A k \in 0..K : W[k][b] = 0) /\ \A c \in S \ {b} : W[0][c] = Infinite
  <2>1. 0 \in 0..K
    BY <1>1
  <2> QED
    BY <1>8, <2>1
<1>15. IsWithin(b, S, K, W)
  BY <1>12, <1>13, <1>14 DEF IsWithin
<1> QED
  BY <1>1, <1>2, <1>15

-----------------------------------------------------------------------------
(* A search against the shortest ways.                                     *)

\* The matrix has the links of the database, by the numbers of the map, save
\* that the source may have fewer.
Fits(n, map, matrix, source) ==
  /\ n \in Nat /\ map \in [1..n -> Routers] /\ source \in 1..n /\ matrix \in Matrices(n)
  /\ \A i, j \in 1..n : map[i] = map[j] => i = j
  /\ \A r \in Listed : \E i \in 1..n : map[i] = r
  /\ \A c \in 1..n \ {source} : \A e \in 1..n : matrix[c][e] = LinkCost(map[c], map[e])

(* No way is shorter than doDijkstraPathCalculation says.                  *)
LEMMA NoShorterWay ==
  ASSUME LinksOK, NEW n, NEW map, NEW M, NEW source, Fits(n, map, M, source),
         NEW d, NEW p, IsTree(n, M, source, d, p), NEW dest \in 1..n \ {source},
         NEW S, S = Routers \ {map[source]}, NEW K \in Nat, NEW W, IsWithin(map[dest], S, K, W)
  PROVE  \A k \in 0..K : \A c \in 1..n \ {source} : d[dest] <= d[c] + W[k][map[c]]
<1> DEFINE Right == {k \in 0..K : \A c \in 1..n \ {source} : d[dest] <= d[c] + W[k][map[c]]}
<1>1. /\ n \in Nat /\ map \in [1..n -> Routers] /\ source \in 1..n /\ M \in Matrices(n)
      /\ \A i, j \in 1..n : map[i] = map[j] => i = j
      /\ \A r \in Listed : \E i \in 1..n : map[i] = r
      /\ \A c \in 1..n \ {source} : \A e \in 1..n : M[c][e] = LinkCost(map[c], map[e])
  BY DEF Fits
<1>2. \A v \in 1..n : d[v] \in Nat /\ d[v] <= Infinite
  BY InfiniteIsPositive DEF IsTree
<1>3. \A c \in 1..n \ {source} : map[c] \in S
  BY <1>1
<1>4. /\ W \in [0..K -> [S -> 0..Infinite]]
      /\ \A k \in 0..K : W[k][map[dest]] = 0
      /\ \A c \in S \ {map[dest]} : W[0][c] = Infinite
      /\ \A k \in 1..K : \A c \in S \ {map[dest]} :
           W[k][c] = Infinite \/ \E e \in S : LinkCost(c, e) > 0 /\ W[k][c] = LinkCost(c, e) + W[k - 1][e]
  BY ZenonT(60) DEF IsWithin
<1>5. \A k \in 0..K : \A c \in S : W[k][c] \in Nat
  BY <1>4, InfiniteIsPositive
<1>6. Infinite \in Nat /\ d[dest] \in Nat /\ d[dest] <= Infinite
  BY <1>2, InfiniteIsPositive
<1>7. \A x, y, i \in Nat : x <= i => x <= y + i
  OBVIOUS
<1>8. ASSUME NEW k \in 0..K, NEW c \in 1..n \ {source}, c = dest \/ W[k][map[c]] = Infinite
      PROVE  d[dest] <= d[c] + W[k][map[c]]
  <2>1. CASE c = dest
    BY <1>4, <1>6, <2>1
  <2>2. CASE W[k][map[c]] = Infinite
    BY <1>2, <1>6, <1>7, <2>2
  <2> QED
    BY <1>8, <2>1, <2>2
<1>9. 0 \in Right
  <2>1. 0 \in 0..K
    OBVIOUS
  <2>2. \A c \in 1..n \ {source} : c = dest \/ W[0][map[c]] = Infinite
    BY <1>1, <1>3, <1>4
  <2> QED
    BY <1>8, <2>1, <2>2
<1>10. ASSUME NEW k \in 0..K, k # 0, k - 1 \in Right
       PROVE  k \in Right
  <2>1. SUFFICES ASSUME NEW c \in 1..n \ {source}, c # dest, W[k][map[c]] # Infinite
                 PROVE  d[dest] <= d[c] + W[k][map[c]]
    BY <1>8
  <2>2. k \in 1..K /\ k - 1 \in 0..K
    BY <1>10
  <2>3. map[c] \in S \ {map[dest]}
    BY <1>1, <1>3, <2>1
  <2>4. PICK e \in S : LinkCost(map[c], e) > 0 /\ W[k][map[c]] = LinkCost(map[c], e) + W[k - 1][e]
    BY <1>4, <2>1, <2>2, <2>3
  <2>5. e \in Listed
    BY <2>4, LinkCostProperties
  <2>6. PICK j \in 1..n : map[j] = e
    BY <1>1, <2>5
  <2>7. j \in 1..n \ {source}
    BY <2>4, <2>6
  <2>8. M[c][j] = LinkCost(map[c], e) /\ M[c][j] \in Nat
    BY <1>1, <2>6, LinkCostProperties
  <2>9. d[dest] <= d[j] + W[k - 1][e]
    BY <1>10, <2>6, <2>7
  <2>10. d[c] \in Nat /\ d[j] \in Nat /\ W[k - 1][e] \in Nat
    BY <1>2, <1>5, <2>2, <2>4, <2>7
  <2>11. d[j] <= d[c] + M[c][j]
    <3>1. CASE d[c] < Infinite
      <4>1. c \in Reached(n, d)
        BY <3>1 DEF Reached
      <4> QED
        BY <2>4, <2>8, <4>1 DEF IsTree, Settled
    <3>2. CASE ~(d[c] < Infinite)
      BY <1>2, <1>6, <2>8, <2>10, <3>2
    <3> QED
      BY <3>1, <3>2
  <2>12. \A a, b, x, y, w \in Nat : a <= b + w /\ b <= x + y => a <= x + (y + w)
    OBVIOUS
  <2>13. d[dest] <= d[c] + (M[c][j] + W[k - 1][e])
    BY <1>6, <2>8, <2>9, <2>10, <2>11, <2>12, Zenon
  <2> QED
    BY <2>4, <2>8, <2>13
<1>11. 0 \in Int /\ K \in Int /\ 0 \in Right
  BY <1>9
<1> HIDE DEF Right
<1>12. \A k \in 0..K : k \in Right
  BY <1>10, <1>11, PassedOn
<1> QED
  BY <1>12 DEF Right

Far(n, map, source, d, x) == {map[y] : y \in {z \in 1..n \ {source} : d[z] > d[x]}}

(* The routers farther than x are fewer than those farther than a router   *)
(* nearer than x, so that a way along the parents has a link for each.     *)
LEMMA FarGrows ==
  ASSUME NEW n, NEW map, NEW M, NEW source, Fits(n, map, M, source),
         NEW d, NEW p, IsTree(n, M, source, d, p),
         NEW x \in 1..n \ {source}, NEW y \in 1..n \ {source}, d[y] < d[x]
  PROVE  /\ Cardinality(Far(n, map, source, d, x)) \in Nat
         /\ Cardinality(Far(n, map, source, d, y)) \in Nat
         /\ Cardinality(Far(n, map, source, d, x)) + 1 <= Cardinality(Far(n, map, source, d, y))
<1> DEFINE A == Far(n, map, source, d, x)
           B == Far(n, map, source, d, y)
<1>1. /\ n \in Nat /\ map \in [1..n -> Routers]
      /\ \A i, j \in 1..n : map[i] = map[j] => i = j
  BY DEF Fits
<1>2. \A v \in 1..n : d[v] \in Nat
  BY InfiniteIsPositive DEF IsTree
<1>3. A \in SUBSET Routers /\ B \in SUBSET Routers
  BY <1>1 DEF Far
<1>4. map[x] \notin A
  BY <1>1, <1>2 DEF Far
<1>5. A \union {map[x]} \subseteq B
  <2>1. \A z \in 1..n : d[z] > d[x] => d[z] > d[y]
    BY <1>2
  <2> QED
    BY <1>1, <1>2, <2>1 DEF Far
<1> HIDE DEF A, B
<1>6. IsFiniteSet(A) /\ IsFiniteSet(B)
  BY <1>3, RouterAssumption, FS_Subset
<1>7. IsFiniteSet(A \union {map[x]}) /\ Cardinality(A \union {map[x]}) = Cardinality(A) + 1
  BY <1>4, <1>6, FS_AddElement
<1>8. Cardinality(A \union {map[x]}) <= Cardinality(B)
  BY <1>5, <1>6, FS_Subset
<1>9. Cardinality(A) \in Nat /\ Cardinality(B) \in Nat
  BY <1>6, FS_CardinalityType
<1> QED
  BY <1>7, <1>8, <1>9 DEF A, B

(* The next hop of getLsNextHop begins a way of the distance found.        *)
LEMMA HopIsOnAWay ==
  ASSUME LinksOK, NEW n, NEW map, NEW M, NEW source, Fits(n, map, M, source),
         NEW d, NEW p, IsTree(n, M, source, d, p),
         NEW dest \in 1..n \ {source}, d[dest] < Infinite,
         NEW S, S = Routers \ {map[source]}, NEW K, K = Cardinality(S),
         NEW W, IsWithin(map[dest], S, K, W),
         NEW hop, \A v \in 1..n : hop[v] = HopBy(hop, p, source, v)
  PROVE  /\ hop[dest] \in 1..n \ {source}
         /\ M[source][hop[dest]] > 0
         /\ W[K][map[hop[dest]]] + M[source][hop[dest]] <= d[dest]
<1> DEFINE Beyond(x) == Cardinality(Far(n, map, source, d, x))
           X == {x \in 1..n \ {source} :
                   /\ d[x] < Infinite /\ hop[x] = hop[dest]
                   /\ \A k \in Beyond(x)..K : W[k][map[x]] + d[x] <= d[dest]}
<1>1. /\ n \in Nat /\ map \in [1..n -> Routers] /\ source \in 1..n /\ M \in Matrices(n)
      /\ \A i, j \in 1..n : map[i] = map[j] => i = j
      /\ \A c \in 1..n \ {source} : \A e \in 1..n : M[c][e] = LinkCost(map[c], map[e])
  BY DEF Fits
<1>2. \A v \in 1..n : d[v] \in Nat /\ d[v] <= Infinite
  BY InfiniteIsPositive DEF IsTree
<1>3. \A c \in 1..n \ {source} : map[c] \in S
  BY <1>1
<1>4. IsFiniteSet(S) /\ K \in Nat
  BY RouterAssumption, FS_Subset, FS_CardinalityType
<1>5. ASSUME NEW x \in 1..n \ {source}
      PROVE  Beyond(x) \in Nat /\ K \in Beyond(x)..K
  <2>1. Far(n, map, source, d, x) \subseteq S
    BY <1>3 DEF Far
  <2>2. IsFiniteSet(Far(n, map, source, d, x)) /\ Cardinality(Far(n, map, source, d, x)) <= K
    BY <1>4, <2>1, FS_Subset
  <2>3. Beyond(x) \in Nat
    BY <2>2, FS_CardinalityType
  <2> QED
    BY <1>4, <2>2, <2>3
<1>6. /\ W \in [0..K -> [S -> 0..Infinite]]
      /\ \A k \in 0..K : W[k][map[dest]] = 0
      /\ \A k \in 1..K : \A c \in S \ {map[dest]} : \A e \in S :
           LinkCost(c, e) > 0 => W[k][c] <= LinkCost(c, e) + W[k - 1][e]
  BY ZenonT(60) DEF IsWithin
<1>7. \A k \in 0..K : \A c \in S : W[k][c] \in Nat
  <2>1. 0..Infinite \subseteq Nat
    BY InfiniteIsPositive
  <2>2. \A k \in 0..K : \A c \in S : W[k][c] \in 0..Infinite
    BY <1>6, ZenonT(60)
  <2> QED
    BY <2>1, <2>2
<1> HIDE DEF Beyond
<1>8. dest \in X
  <2>1. \A k \in Beyond(dest)..K : k \in 0..K
    BY <1>4, <1>5
  <2>2. d[dest] \in Nat
    BY <1>2
  <2>3. \A k \in Beyond(dest)..K : W[k][map[dest]] + d[dest] <= d[dest]
    <3> HIDE DEF X
    <3>1. 0 + d[dest] <= d[dest]
      BY <2>2
    <3> QED
      BY <1>6, <2>1, <3>1
  <2> QED
    BY <2>3
<1>9. PICK x \in X : \A y \in X : d[x] <= d[y]
  <2> DEFINE D == {d[y] : y \in X}
  <2>1. D \in SUBSET Nat /\ D # {}
    BY <1>2, <1>8
  <2>2. PICK m \in D : \A k \in D : m <= k
    <3> HIDE DEF D
    <3> QED
      BY <2>1, LeastNumber
  <2> QED
    BY <2>2
<1>10. /\ x \in 1..n \ {source} /\ d[x] < Infinite /\ hop[x] = hop[dest] /\ d[x] \in Nat
       /\ \A k \in Beyond(x)..K : W[k][map[x]] + d[x] <= d[dest]
  BY <1>2
<1>11. W[K][map[x]] + d[x] <= d[dest] /\ W[K][map[x]] \in Nat
  BY <1>3, <1>4, <1>5, <1>7, <1>10
<1>12. p[x] # NoRouter
  BY <1>10 DEF IsTree, Settled, Reached, NoRouter
<1>13. /\ p[x] \in 1..n /\ M[p[x]][x] \in Nat /\ M[p[x]][x] > 0 /\ d[p[x]] \in Nat
       /\ d[x] = d[p[x]] + M[p[x]][x] /\ d[p[x]] < d[x]
  BY <1>1, <1>10, <1>12, ParentIsNearer
<1> HIDE DEF X
<1>14. CASE p[x] = source
  <2>1. hop[x] = x
    BY <1>10, <1>12, <1>14 DEF HopBy
  <2>2. d[source] = 0
    BY DEF IsTree, Settled
  <2>3. d[x] = M[source][x]
    BY <1>13, <1>14, <2>2
  <2> QED
    BY <1>10, <1>11, <1>13, <1>14, <2>1, <2>3
<1>15. CASE p[x] # source
  <2> DEFINE y == p[x]
  <2>1. y \in 1..n \ {source} /\ d[y] < d[x] /\ d[y] \in Nat /\ d[x] = d[y] + M[y][x] /\ M[y][x] \in Nat
    BY <1>13, <1>15
  <2>2. LinkCost(map[y], map[x]) = M[y][x] /\ M[y][x] > 0
    BY <1>1, <1>10, <1>13, <2>1
  <2>3. hop[y] = hop[dest]
    BY <1>10, <1>12, <1>15 DEF HopBy
  <2> HIDE DEF y
  <2>4. d[y] < Infinite
    BY <1>10, <2>1, InfiniteIsPositive
  <2>5. Beyond(x) \in Nat /\ Beyond(y) \in Nat /\ Beyond(x) + 1 <= Beyond(y)
    BY <1>10, <2>1, FarGrows DEF Beyond
  <2>6. ASSUME NEW k \in Beyond(y)..K
        PROVE  W[k][map[y]] + d[y] <= d[dest]
    <3>1. k \in 1..K /\ k \in 0..K /\ k - 1 \in Beyond(x)..K /\ k - 1 \in 0..K
      BY <1>4, <2>5
    <3>2. W[k - 1][map[x]] + d[x] <= d[dest] /\ W[k - 1][map[x]] \in Nat
      BY <1>3, <1>7, <1>10, <3>1
    <3>3. d[dest] \in Nat
      BY <1>2
    <3>4. CASE y = dest
      <4>1. W[k][map[y]] = 0
        BY <1>6, <3>1, <3>4
      <4> QED
        BY <2>1, <3>4, <4>1
    <3>5. CASE y # dest
      <4>1. map[y] \in S \ {map[dest]} /\ map[x] \in S
        BY <1>1, <1>3, <1>10, <2>1, <3>5
      <4> DEFINE a == W[k][map[y]]
                 b == M[y][x]
                 e == W[k - 1][map[x]]
                 h == d[y]
                 g == d[dest]
      <4>2. a \in Nat /\ b \in Nat /\ e \in Nat /\ h \in Nat /\ g \in Nat
        BY <1>7, <2>1, <3>1, <3>2, <3>3, <4>1
      <4>3. a <= b + e
        BY <1>6, <2>2, <3>1, <4>1
      <4>4. e + (h + b) <= g
        BY <2>1, <3>2
      <4> HIDE DEF a, b, e, h, g
      <4>5. a + h <= g
        BY <4>2, <4>3, <4>4
      <4> QED
        BY <4>5 DEF a, h, g
    <3> QED
      BY <3>4, <3>5
  <2>7. y \in X
    BY <2>1, <2>3, <2>4, <2>6 DEF X
  <2>8. d[x] <= d[y]
    BY <1>9, <2>7
  <2> QED
    BY <1>10, <2>1, <2>8
<1> QED
  BY <1>14, <1>15

(* No way leads to a router that has no LSA in the database, which the Map *)
(* may have by what another tells of it, or may not.                       *)
LEMMA NoWayToUnlisted ==
  ASSUME LinksOK, NEW S \in SUBSET Routers, NEW r \in S, r \notin Listed,
         NEW K \in Nat, NEW W, IsWithin(r, S, K, W)
  PROVE  \A c \in S \ {r} : W[K][c] = Infinite
<1> DEFINE Right == {k \in 0..K : \A c \in S \ {r} : W[k][c] = Infinite}
<1>1. 0 \in Right
  BY DEF IsWithin
<1>2. ASSUME NEW k \in 0..K, k # 0, k - 1 \in Right
      PROVE  k \in Right
  <2>1. SUFFICES ASSUME NEW c \in S \ {r}, W[k][c] # Infinite
                 PROVE  FALSE
    OBVIOUS
  <2>2. k \in 1..K /\ k - 1 \in 0..K
    BY <1>2
  <2>3. PICK e \in S : LinkCost(c, e) > 0 /\ W[k][c] = LinkCost(c, e) + W[k - 1][e]
    BY <2>1, <2>2 DEF IsWithin
  <2>4. e # r
    BY <2>3, LinkCostProperties
  <2>5. W[k - 1][e] = Infinite
    BY <1>2, <2>4
  <2>6. W[k][c] \in 0..Infinite
    BY DEF IsWithin
  <2>7. LinkCost(c, e) \in Nat /\ Infinite \in Nat
    BY LinkCostProperties, InfiniteIsPositive
  <2> QED
    BY <2>3, <2>5, <2>6, <2>7
<1>3. 0 \in Int /\ K \in Int
  OBVIOUS
<1> HIDE DEF Right
<1>4. \A k \in 0..K : k \in Right
  BY <1>1, <1>2, <1>3, PassedOn
<1> QED
  BY <1>4 DEF Right

\* The links of the source a way to the router with the distances goes on from,
\* and the costs of these ways.
CostBy(map, matrix, source, distances, m) == matrix[source][m] + distances[map[m]]
Goes(n, map, matrix, source, distances) ==
  {m \in 1..n \ {source} : /\ matrix[source][m] > 0 /\ distances[map[m]] < Infinite
                           /\ CostBy(map, matrix, source, distances, m) < Infinite}

NoHops == [h \in {} |-> 0]
OneHop(h, cost) == [k \in {h} |-> cost]

\* H is one neighbour that begins a shortest way, if there is any way.
ShortestHop(map, matrix, source, distances, H) ==
  LET G == Goes(Len(map), map, matrix, source, distances)
      Cost(m) == CostBy(map, matrix, source, distances, m)
  IN /\ G = {} => H = NoHops
     /\ G # {} => \E m \in G : H = OneHop(map[m], Cost(m)) /\ \A j \in G : Cost(m) <= Cost(j)

(* What one search adds to the routing table for a router is a neighbour   *)
(* that begins a shortest way, or nothing where there is no way            *)
(* (LinkStateRoutingTableCalculator::addAllLsNextHopsToRoutingTable).      *)
LEMMA HopsAreShortest ==
  ASSUME LinksOK, NEW map \in Maps, NEW M, NEW source, Fits(Len(map), map, M, source),
         NEW r \in Routers \ {map[source]}
  PROVE  ShortestHop(map, M, source, Distances(r, Routers \ {map[source]}),
                     LsNextHops(DoDijkstraPathCalculation(M, source), map, source)[r])
<1>0. SUFFICES
        ASSUME NEW n, n = Len(map), NEW self, self = map[source],
               NEW a, a = Distances(r, Routers \ {self}),
               NEW H, H = LsNextHops(DoDijkstraPathCalculation(M, source), map, source)[r],
               NEW G, G = Goes(n, map, M, source, a)
        PROVE  /\ G = {} => H = NoHops
               /\ G # {} => \E m \in G :
                    /\ H = OneHop(map[m], CostBy(map, M, source, a, m))
                    /\ \A j \in G : CostBy(map, M, source, a, m) <= CostBy(map, M, source, a, j)
  BY DEF ShortestHop
<1> USE <1>0
<1> DEFINE S == Routers \ {self}
           K == Cardinality(S)
           s == DoDijkstraPathCalculation(M, source)
           d == s.distance
           p == s.parent
           Cost(m) == CostBy(map, M, source, a, m)
<1>1. /\ n \in Nat /\ map \in [1..n -> Routers] /\ source \in 1..n /\ M \in Matrices(n)
      /\ \A i, j \in 1..n : map[i] = map[j] => i = j
      /\ \A q \in Listed : \E i \in 1..n : map[i] = q
  BY <1>0 DEF Fits
<1>2. S \in SUBSET Routers /\ r \in S
  BY <1>0
<1>3. K \in Nat /\ \E W : IsWithin(r, S, K, W) /\ a = W[K]
  BY <1>0, <1>2, DistancesProperties
<1> HIDE DEF K
<1>4. PICK W : IsWithin(r, S, K, W) /\ a = W[K]
  BY <1>3
<1>5. a \in [S -> 0..Infinite] /\ a[r] = 0
  <2>1. K \in 0..K
    BY <1>3
  <2> QED
    <3>1. W \in [0..K -> [S -> 0..Infinite]] /\ W[K][r] = 0
      BY <1>4, <2>1 DEF IsWithin
    <3> QED
      BY <1>4, <2>1, <3>1
<1>6. \A m \in 1..n \ {source} : map[m] \in S /\ a[map[m]] \in Nat /\ M[source][m] \in Nat
  <2>1. \A m \in 1..n \ {source} : map[m] \in S
    BY <1>1
  <2>2. \A c \in S : a[c] \in Nat
    <3>1. 0..Infinite \subseteq Nat
      BY InfiniteIsPositive
    <3>2. \A c \in S : a[c] \in 0..Infinite
      BY <1>5
    <3> QED
      BY <3>1, <3>2
  <2>3. \A m \in 1..n : M[source][m] \in Nat
    BY <1>1 DEF Matrices
  <2> HIDE DEF S
  <2> QED
    BY <2>1, <2>2, <2>3
<1>7. H = IF ~Contains(map, r) THEN NoHops
          ELSE LET dest == MappingNo(map, r)
                   hop == GetLsNextHop(s, dest, source)
               IN [h \in (IF hop = NoRouter THEN {} ELSE {map[hop]}) |-> d[dest]]
  BY <1>0 DEF LsNextHops, NoHops
<1>8. CASE ~Contains(map, r)
  <2>1. r \notin Listed
    BY <1>1, <1>8 DEF Contains
  <2>2. \A c \in S \ {r} : a[c] = Infinite
    <3> HIDE DEF S
    <3>1. \A c \in S \ {r} : W[K][c] = Infinite
      BY <1>2, <1>3, <1>4, <2>1, NoWayToUnlisted, ZenonT(60)
    <3> QED
      BY <1>4, <3>1
  <2>3. \A m \in 1..n \ {source} : map[m] # r
    BY <1>1, <1>8 DEF Contains
  <2>4. G = {}
    <3>1. \A m \in 1..n \ {source} : a[map[m]] = Infinite
      <4> HIDE DEF S
      <4> QED
        BY <1>6, <2>2, <2>3
    <3>2. \A m \in G : m \in 1..n \ {source} /\ a[map[m]] < Infinite
      BY DEF Goes
    <3>3. ~(Infinite < Infinite)
      BY InfiniteIsPositive
    <3> QED
      BY <3>1, <3>2, <3>3
  <2> QED
    BY <1>7, <1>8, <2>4
<1>9. CASE Contains(map, r)
  <2>1. PICK dest \in 1..n : map[dest] = r
    BY <1>9 DEF Contains
  <2>2. dest \in 1..n \ {source}
    BY <2>1
  <2>3. MappingNo(map, r) = dest
    <3>1. \A i \in DOMAIN map : map[i] = r <=> i = dest
      BY <1>1, <2>1
    <3>2. dest \in DOMAIN map
      BY <1>1
    <3> QED
      BY <3>1, <3>2 DEF MappingNo
  <2>4. IsTree(n, M, source, d, p)
    BY <1>1, DijkstraProperties DEF IsTree
  <2> HIDE DEF d, p, s
  <2>5. PICK hop : \A v \in 1..n : /\ GetLsNextHop(s, v, source) = hop[v]
                                   /\ hop[v] = HopBy(hop, p, source, v)
    <3>1. IsTree(n, M, source, s.distance, s.parent)
      BY <2>4 DEF d, p
    <3> QED
      BY <1>1, <3>1, NextHopProperties DEF p
  <2>6. H = [h \in (IF hop[dest] = NoRouter THEN {} ELSE {map[hop[dest]]}) |-> d[dest]]
    BY <1>7, <1>9, <2>3, <2>5
  <2>7. \A v \in 1..n : d[v] \in Nat /\ d[v] <= Infinite
    BY <2>4, InfiniteIsPositive DEF IsTree
  <2>8. ASSUME NEW j \in 1..n \ {source}, M[source][j] > 0
        PROVE  d[dest] <= Cost(j) /\ Cost(j) \in Nat
    <3>1. K \in 0..K
      BY <1>3
    <3>2. d[dest] <= d[j] + W[K][map[j]]
      BY <1>3, <1>4, <2>1, <2>2, <2>4, <3>1, NoShorterWay
    <3>3. d[j] <= M[source][j]
      <4>1. d[source] = 0 /\ source \in Reached(n, d)
        BY <1>1, <2>4, InfiniteIsPositive DEF IsTree, Settled, Reached
      <4>2. d[j] <= d[source] + M[source][j]
        BY <2>4, <2>8, <4>1 DEF IsTree, Settled
      <4> QED
        BY <1>6, <4>1, <4>2
    <3>4. \A x, y, z, w \in Nat : x <= y + z /\ y <= w => x <= w + z
      OBVIOUS
    <3>5. d[dest] <= M[source][j] + a[map[j]]
      BY <1>4, <1>6, <2>7, <3>2, <3>3, <3>4, Zenon
    <3>6. M[source][j] + a[map[j]] \in Nat
      <4>1. \A x, y \in Nat : x + y \in Nat
        OBVIOUS
      <4> QED
        BY <1>6, <4>1, Zenon
    <3> QED
      BY <3>5, <3>6 DEF CostBy
  <2>9. CASE d[dest] < Infinite
    <3> DEFINE m == hop[dest]
    <3>1. m \in 1..n \ {source} /\ M[source][m] > 0 /\ W[K][map[m]] + M[source][m] <= d[dest]
      BY <1>4, <2>1, <2>2, <2>4, <2>5, <2>9, HopIsOnAWay DEF K
    <3> HIDE DEF m
    <3>2. Cost(m) <= d[dest]
      <4>1. M[source][m] \in Nat /\ a[map[m]] \in Nat
        BY <1>6, <3>1
      <4>2. a[map[m]] + M[source][m] <= d[dest]
        BY <1>4, <3>1
      <4>3. \A x, y, z \in Nat : x + y <= z => y + x <= z
        OBVIOUS
      <4>4. d[dest] \in Nat
        BY <2>7
      <4>5. M[source][m] + a[map[m]] <= d[dest]
        BY <4>1, <4>2, <4>3, <4>4, Zenon
      <4> QED
        BY <4>5 DEF CostBy
    <3>3. d[dest] <= Cost(m) /\ Cost(m) \in Nat /\ d[dest] \in Nat
      BY <2>2, <2>7, <2>8, <3>1
    <3>4. Cost(m) = d[dest]
      BY <3>2, <3>3
    <3>5. a[map[m]] < Infinite
      <4>1. \A x, y, i \in Nat : x + y < i => y < i
        OBVIOUS
      <4>2. M[source][m] + a[map[m]] < Infinite
        BY <2>9, <3>4 DEF CostBy
      <4> QED
        BY <1>6, <3>1, <4>1, <4>2, InfiniteIsPositive, Zenon
    <3>6. m \in G
      BY <2>9, <3>1, <3>4, <3>5 DEF Goes
    <3>7. \A j \in G : Cost(m) <= Cost(j)
      BY <2>8, <3>4 DEF Goes
    <3>8. H = OneHop(map[m], Cost(m))
      <4>1. m # NoRouter
        BY <3>1 DEF NoRouter
      <4> QED
        BY <2>6, <3>4, <4>1 DEF m, OneHop
    <3> QED
      BY <3>6, <3>7, <3>8
  <2>10. CASE ~(d[dest] < Infinite)
    <3>1. G = {}
      <4>1. ASSUME NEW j \in G PROVE FALSE
        <5>1. j \in 1..n \ {source} /\ M[source][j] > 0 /\ Cost(j) < Infinite
          BY <4>1 DEF Goes
        <5>2. d[dest] <= Cost(j) /\ Cost(j) \in Nat /\ d[dest] \in Nat
          BY <2>2, <2>7, <2>8, <5>1
        <5> HIDE DEF Cost
        <5> QED
          BY <2>10, <5>1, <5>2, InfiniteIsPositive
      <4> QED
        BY <4>1
    <3>2. p[dest] = NoRouter
      BY <2>2, <2>4, <2>10 DEF IsTree, Settled
    <3>3. hop[dest] = NoRouter
      BY <2>2, <2>5, <3>2 DEF HopBy
    <3>4. H = NoHops
      BY <2>6, <3>3 DEF NoHops
    <3> QED
      BY <3>1, <3>4
  <2> QED
    BY <2>9, <2>10
<1> QED
  BY <1>8, <1>9

-----------------------------------------------------------------------------
(* Single path routing.                                                    *)

(* The Map and the matrix of a router in the database have its links.      *)
LEMMA MatrixFits ==
  ASSUME LinksOK, NEW self \in Listed,
         NEW map, map = CreateFromAdjLsdb(adjLsdb), NEW n, n = Len(map),
         NEW source, source = MappingNo(map, self), NEW M, M = MakeAdjMatrix(adjLsdb, map)
  PROVE  /\ map \in Maps /\ n \in Nat /\ map \in [1..n -> Routers]
         /\ source \in 1..n /\ map[source] = self
         /\ Fits(n, map, M, source)
         /\ \A i, j \in 1..n : M[i][j] = LinkCost(map[i], map[j])
         /\ \A i, j \in 1..n : map[i] = map[j] => i = j
         /\ \A r \in Listed : \E i \in 1..n : map[i] = r
<1>1. /\ map \in Maps /\ \A i \in DOMAIN adjLsdb : adjLsdb[i].orig \in ToSet(map)
  BY MapProperties DEF LinksOK
<1>2. map \in Seq(Routers) /\ n \in Nat /\ DOMAIN map = 1..n /\ map \in [1..n -> Routers]
  BY <1>1, LenProperties DEF Maps
<1>3. \A i, j \in 1..n : map[i] = map[j] => i = j
  BY <1>1, <1>2 DEF Maps, IsInjective
<1>4. \A r \in Listed : \E i \in 1..n : map[i] = r
  <2>1. \A r \in Listed : r \in ToSet(map)
    BY <1>1 DEF Listed
  <2> QED
    BY <1>2, <2>1 DEF ToSet
<1>5. source \in 1..n /\ map[source] = self
  BY <1>2, <1>4 DEF MappingNo
<1>6. M = [row \in 1..n |-> [col \in 1..n |-> LinkCost(map[row], map[col])]]
  BY <1>2 DEF MakeAdjMatrix, LinkCost
<1>7. M \in Matrices(n)
  BY <1>6, LinkCostProperties DEF Matrices
<1>8. \A i, j \in 1..n : M[i][j] = LinkCost(map[i], map[j])
  BY <1>6
<1> QED
  BY <1>1, <1>2, <1>3, <1>4, <1>5, <1>7, <1>8 DEF Fits

\* The ways of a router are those its links begin, with their costs.
GoBy(map, matrix, source, distances, ways) ==
  LET G == Goes(Len(map), map, matrix, source, distances)
  IN /\ \A m \in G : map[m] \in DOMAIN ways /\ ways[map[m]] = CostBy(map, matrix, source, distances, m)
     /\ \A h \in DOMAIN ways : \E m \in G : map[m] = h

(* The ways of a router are those its links in the matrix begin.           *)
LEMMA WaysByNumber ==
  ASSUME LinksOK, NEW map \in Maps, NEW M, NEW source, Fits(Len(map), map, M, source),
         \A j \in 1..Len(map) : M[source][j] = LinkCost(map[source], map[j]),
         NEW r \in Routers \ {map[source]}
  PROVE  GoBy(map, M, source, Distances(r, Routers \ {map[source]}), Ways(map[source], r))
<1> DEFINE n == Len(map)
           self == map[source]
           a == Distances(r, Routers \ {self})
           G == Goes(n, map, M, source, a)
           D == {m \in Routers \ {self} : /\ LinkCost(self, m) > 0 /\ a[m] < Infinite
                                          /\ LinkCost(self, m) + a[m] < Infinite}
           ways == Ways(self, r)
<1>1. ways = [h \in D |-> LinkCost(self, h) + a[h]]
  BY DEF Ways
<1>2. /\ map \in [1..n -> Routers] /\ source \in 1..n
      /\ \A i, j \in 1..n : map[i] = map[j] => i = j
      /\ \A q \in Listed : \E i \in 1..n : map[i] = q
      /\ \A j \in 1..n : M[source][j] = LinkCost(self, map[j])
  BY DEF Fits
<1> HIDE DEF n, a, ways
<1>3. \A m \in G : map[m] \in D /\ CostBy(map, M, source, a, m) = LinkCost(self, map[m]) + a[map[m]]
  BY <1>2 DEF Goes, CostBy
<1>4. ASSUME NEW h \in D
      PROVE  \E m \in G : map[m] = h
  <2>1. h \in Listed
    BY <1>4, LinkCostProperties
  <2>2. PICK m \in 1..n : map[m] = h
    BY <1>2, <2>1
  <2>3. m \in 1..n \ {source}
    BY <1>4, <2>2
  <2>4. m \in G
    BY <1>2, <1>4, <2>2, <2>3 DEF Goes, CostBy
  <2> QED
    BY <2>2, <2>4
<1> HIDE DEF D, G
<1>5. DOMAIN ways = D /\ \A h \in D : ways[h] = LinkCost(self, h) + a[h]
  BY <1>1
<1>6. \A m \in G : map[m] \in DOMAIN ways /\ ways[map[m]] = CostBy(map, M, source, a, m)
  BY <1>3, <1>5
<1>7. \A h \in DOMAIN ways : \E m \in G : map[m] = h
  BY <1>4, <1>5
<1> QED
  BY <1>6, <1>7 DEF GoBy, G, a, n, ways

\* One of the ways, and none is shorter.
ShortestOf(ways, hops) ==
  IF DOMAIN ways = {} THEN DOMAIN hops = {}
  ELSE \E n \in DOMAIN ways : /\ hops = [h \in {n} |-> ways[n]]
                              /\ \A h \in DOMAIN ways : ways[n] <= ways[h]

(* Single path routing takes a neighbour on a shortest way                 *)
(* (LinkStateRoutingTableCalculator::calculatePath).                       *)
LEMMA SingleIsShortest ==
  ASSUME LinksOK, NEW self \in Listed, NEW r \in Routers \ {self}
  PROVE  ShortestOf(Ways(self, r), SinglePath(adjLsdb, self)[r])
<1>0. SUFFICES ASSUME NEW single, single = SinglePath(adjLsdb, self), NEW ways, ways = Ways(self, r)
               PROVE  ShortestOf(ways, single[r])
  OBVIOUS
<1> USE <1>0
<1> DEFINE map == CreateFromAdjLsdb(adjLsdb)
           n == Len(map)
           source == MappingNo(map, self)
           M == MakeAdjMatrix(adjLsdb, map)
           a == Distances(r, Routers \ {self})
           G == Goes(n, map, M, source, a)
           H == LsNextHops(DoDijkstraPathCalculation(M, source), map, source)[r]
           Cost(m) == CostBy(map, M, source, a, m)
<1>1. /\ map \in Maps /\ n \in Nat /\ map \in [1..n -> Routers]
      /\ source \in 1..n /\ map[source] = self
      /\ Fits(n, map, M, source)
      /\ \A i, j \in 1..n : M[i][j] = LinkCost(map[i], map[j])
      /\ \A i, j \in 1..n : map[i] = map[j] => i = j
      /\ \A q \in Listed : \E i \in 1..n : map[i] = q
  BY MatrixFits
<1>2. single[r] = H
  BY DEF SinglePath
<1> HIDE DEF map, M, source, n, a
<1>10. n = Len(map) /\ a = Distances(r, Routers \ {self}) /\ self = map[source]
  BY <1>1 DEF n, a
<1>11. G = Goes(n, map, M, source, a) /\ H = LsNextHops(DoDijkstraPathCalculation(M, source), map, source)[r]
  OBVIOUS
<1> HIDE DEF G, H
<1>3. /\ G = {} => H = NoHops
      /\ G # {} => \E m \in G : /\ H = OneHop(map[m], Cost(m))
                                /\ \A j \in G : Cost(m) <= Cost(j)
  <2>1. r \in Routers \ {map[source]} /\ Fits(Len(map), map, M, source) /\ map \in Maps
    BY <1>1, <1>10
  <2>2. ShortestHop(map, M, source, Distances(r, Routers \ {map[source]}),
                    LsNextHops(DoDijkstraPathCalculation(M, source), map, source)[r])
    BY <2>1, HopsAreShortest
  <2>3. ShortestHop(map, M, source, a, H)
    BY <1>10, <1>11, <2>2
  <2>4. G = Goes(Len(map), map, M, source, a)
    BY <1>10, <1>11
  <2> QED
    BY <2>3, <2>4 DEF ShortestHop
<1>4. /\ \A m \in G : map[m] \in DOMAIN ways /\ ways[map[m]] = Cost(m)
      /\ \A h \in DOMAIN ways : \E m \in G : map[m] = h
  <2>1. /\ r \in Routers \ {map[source]} /\ Fits(Len(map), map, M, source) /\ map \in Maps
        /\ \A j \in 1..Len(map) : M[source][j] = LinkCost(map[source], map[j])
    BY <1>1, <1>10
  <2>2. GoBy(map, M, source, Distances(r, Routers \ {map[source]}), Ways(map[source], r))
    BY <2>1, WaysByNumber
  <2>3. GoBy(map, M, source, a, ways)
    BY <1>10, <2>2
  <2>4. G = Goes(Len(map), map, M, source, a)
    BY <1>10, <1>11
  <2> QED
    BY <2>3, <2>4 DEF GoBy
<1> HIDE DEF G, H, Cost
<1>5. CASE G = {}
  BY <1>2, <1>3, <1>4, <1>5 DEF NoHops, ShortestOf
<1>6. CASE G # {}
  <2>1. PICK m \in G : /\ H = OneHop(map[m], Cost(m))
                       /\ \A j \in G : Cost(m) <= Cost(j)
    BY <1>3, <1>6
  <2>2. map[m] \in DOMAIN ways /\ ways[map[m]] = Cost(m)
    BY <1>4
  <2>3. \A h \in DOMAIN ways : ways[map[m]] <= ways[h]
    BY <1>4, <2>1, <2>2
  <2>4. single[r] = [h \in {map[m]} |-> ways[map[m]]]
    BY <1>2, <2>1, <2>2 DEF OneHop
  <2> QED
    BY <2>2, <2>3, <2>4 DEF ShortestOf
<1> QED
  BY <1>5, <1>6

-----------------------------------------------------------------------------
(* Multi path routing.                                                     *)

(* adjustAdMatrix leaves the links of the other routers, and one of this.  *)
LEMMA AdjustedFits ==
  ASSUME NEW n, NEW map, NEW M, NEW source, Fits(n, map, M, source), NEW link \in 1..n
  PROVE  /\ Fits(n, map, AdjustAdMatrix(M, source, link), source)
         /\ \A j \in 1..n : AdjustAdMatrix(M, source, link)[source][j] = IF j = link THEN M[source][j] ELSE 0
<1> DEFINE row == [i \in 1..n |-> IF i = link THEN M[source][i] ELSE 0]
           A == [M EXCEPT ![source] = row]
<1>1. M \in [1..n -> [1..n -> Nat]] /\ source \in 1..n
  BY DEF Fits, Matrices
<1>2. AdjustAdMatrix(M, source, link) = A
  BY <1>1 DEF AdjustAdMatrix
<1>3. row \in [1..n -> Nat]
  BY <1>1
<1>4. A \in [1..n -> [1..n -> Nat]] /\ A[source] = row /\ \A c \in 1..n \ {source} : A[c] = M[c]
  <2> HIDE DEF row
  <2> QED
    BY <1>1, <1>3
<1> HIDE DEF A
<1>5. Fits(n, map, A, source)
  <2>1. A \in Matrices(n)
    BY <1>4 DEF Matrices
  <2>2. /\ n \in Nat /\ map \in [1..n -> Routers] /\ source \in 1..n
        /\ \A i, j \in 1..n : map[i] = map[j] => i = j
        /\ \A r \in Listed : \E i \in 1..n : map[i] = r
        /\ \A c \in 1..n \ {source} : \A e \in 1..n : M[c][e] = LinkCost(map[c], map[e])
    BY DEF Fits
  <2>3. \A c \in 1..n \ {source} : \A e \in 1..n : A[c][e] = LinkCost(map[c], map[e])
    <3>1. ASSUME NEW c \in 1..n \ {source}, NEW e \in 1..n
          PROVE  A[c][e] = LinkCost(map[c], map[e])
      <4>1. A[c] = M[c]
        BY <1>4
      <4>2. M[c][e] = LinkCost(map[c], map[e])
        BY <2>2
      <4> QED
        BY <4>1, <4>2
    <3> QED
      BY <3>1
  <2> QED
    BY <2>1, <2>2, <2>3 DEF Fits
<1>6. \A j \in 1..n : A[source][j] = IF j = link THEN M[source][j] ELSE 0
  BY <1>4
<1> QED
  BY <1>2, <1>5, <1>6

\* The hops over one link of the source.
ByLink(map, matrix, source, link) ==
  LsNextHops(DoDijkstraPathCalculation(AdjustAdMatrix(matrix, source, link), source), map, source)

HopIfAny(ways, h) == IF h \in DOMAIN ways THEN OneHop(h, ways[h]) ELSE NoHops

(* With one link of this router left, a search finds the way over it, if   *)
(* there is any.                                                           *)
LEMMA ByLinkProperties ==
  ASSUME LinksOK, NEW map \in Maps, NEW M, NEW source, Fits(Len(map), map, M, source),
         NEW r \in Routers \ {map[source]}, NEW ways,
         GoBy(map, M, source, Distances(r, Routers \ {map[source]}), ways), NEW link \in 1..Len(map)
  PROVE  ByLink(map, M, source, link)[r] = HopIfAny(ways, map[link])
<1> DEFINE n == Len(map)
           a == Distances(r, Routers \ {map[source]})
           A == AdjustAdMatrix(M, source, link)
           H == ByLink(map, M, source, link)[r]
           G == Goes(n, map, M, source, a)
           G2 == Goes(n, map, A, source, a)
           Cost(m) == CostBy(map, M, source, a, m)
           Cost2(m) == CostBy(map, A, source, a, m)
<1>1. /\ Fits(n, map, A, source)
      /\ \A j \in 1..n : A[source][j] = IF j = link THEN M[source][j] ELSE 0
  BY AdjustedFits
<1>2. \A i, j \in 1..n : map[i] = map[j] => i = j
  BY DEF Fits
<1>3. /\ G2 = {} => H = NoHops
      /\ G2 # {} => \E m \in G2 : H = OneHop(map[m], Cost2(m))
  <2> HIDE DEF A
  <2>1. ShortestHop(map, A, source, Distances(r, Routers \ {map[source]}),
                    LsNextHops(DoDijkstraPathCalculation(A, source), map, source)[r])
    BY <1>1, HopsAreShortest
  <2>2. H = LsNextHops(DoDijkstraPathCalculation(A, source), map, source)[r]
    BY DEF ByLink, A
  <2> HIDE DEF H
  <2>3. ShortestHop(map, A, source, a, H)
    BY <2>1, <2>2
  <2> QED
    BY <2>3 DEF ShortestHop
<1>4. /\ \A m \in G : map[m] \in DOMAIN ways /\ ways[map[m]] = Cost(m)
      /\ \A h \in DOMAIN ways : \E m \in G : map[m] = h
  BY DEF GoBy
<1> HIDE DEF A, H
<1>5. /\ link \in G => G2 = {link} /\ Cost2(link) = Cost(link)
      /\ link \notin G => G2 = {}
  <2>1. A[source][link] = M[source][link] /\ \A j \in 1..n : j # link => ~(A[source][j] > 0)
    BY <1>1
  <2>2. Cost2(link) = Cost(link)
    BY <2>1 DEF CostBy
  <2>3. \A j \in G2 : j = link
    BY <2>1 DEF Goes
  <2>4. link \in G2 <=> link \in G
    BY <2>1, <2>2 DEF Goes
  <2> QED
    BY <2>2, <2>3, <2>4
<1>6. \A m \in G : m \in 1..n
  BY DEF Goes
<1> HIDE DEF G, G2, Cost, Cost2, n
<1>7. CASE link \in G
  <2>1. H = OneHop(map[link], Cost(link))
    BY <1>3, <1>5, <1>7
  <2>2. map[link] \in DOMAIN ways /\ ways[map[link]] = Cost(link)
    BY <1>4, <1>7
  <2> QED
    BY <2>1, <2>2 DEF HopIfAny, H
<1>8. CASE link \notin G
  <2>1. H = NoHops
    BY <1>3, <1>5, <1>8
  <2>2. map[link] \notin DOMAIN ways
    <3>1. link \in 1..n
      BY DEF n
    <3> QED
      BY <1>2, <1>4, <1>6, <1>8, <3>1
  <2> QED
    BY <2>1, <2>2 DEF HopIfAny, H
<1> QED
  BY <1>7, <1>8

Part(ways, A) == [h \in DOMAIN ways \intersect A |-> ways[h]]

(* Adding the next hops of one link more leaves those of the other links.  *)
LEMMA OneLinkMore ==
  ASSUME NEW r \in Routers, NEW a, NEW b, NEW ways, NEW A, NEW x, x \notin A,
         a[r] = Part(ways, A), b[r] = HopIfAny(ways, x)
  PROVE  AddHops(a, b)[r] = Part(ways, A \union {x})
<1> DEFINE p == a[r]
           q == b[r]
           sum == [h \in DOMAIN p \union DOMAIN q |->
                     IF h \in DOMAIN p /\ (h \in DOMAIN q => p[h] <= q[h]) THEN p[h] ELSE q[h]]
<1>1. AddHops(a, b)[r] = sum
  BY DEF AddHops
<1>2. DOMAIN p = DOMAIN ways \intersect A /\ \A h \in DOMAIN p : p[h] = ways[h]
  BY DEF Part
<1>3. DOMAIN q = DOMAIN ways \intersect {x} /\ \A h \in DOMAIN q : q[h] = ways[h]
  BY DEF HopIfAny, OneHop, NoHops
<1> HIDE DEF p, q
<1>4. DOMAIN p \union DOMAIN q = DOMAIN ways \intersect (A \union {x})
  BY <1>2, <1>3
<1>5. \A h \in DOMAIN p \union DOMAIN q : sum[h] = ways[h]
  BY <1>2, <1>3
<1>6. sum = [h \in DOMAIN p \union DOMAIN q |-> sum[h]]
  OBVIOUS
<1> HIDE DEF sum
<1> QED
  BY <1>1, <1>4, <1>5, <1>6 DEF Part

(* Multi path routing takes every neighbour a way leads over, at the cost  *)
(* of the shortest way over it (the loop of calculatePath over the links). *)
LEMMA MultiIsShortest ==
  ASSUME LinksOK, NEW self \in Listed
  PROVE  \A r \in Routers \ {self} : MultiPath(adjLsdb, self)[r] = Ways(self, r)
<1> DEFINE map == CreateFromAdjLsdb(adjLsdb)
           n == Len(map)
           source == MappingNo(map, self)
           M == MakeAdjMatrix(adjLsdb, map)
           None == [r \in Routers |-> [h \in {} |-> 0]]
           By(i) == LsNextHops(DoDijkstraPathCalculation(AdjustAdMatrix(M, source, i), source), map, source)
           Step(g) == [i \in 0..n |->
             IF i = 0 THEN None ELSE IF M[source][i] > 0 THEN AddHops(g[i - 1], By(i)) ELSE g[i - 1]]
           hops == CHOOSE g : g = Step(g)
           \* all routers but this one, by the first links
           First(i) == {map[j] : j \in 1..i}
           W == [r \in Routers |-> IF r = self THEN NoHops ELSE Ways(self, r)]
           f == [i \in 0..n |-> [r \in Routers |-> Part(W[r], First(i))]]
<1>1. /\ map \in Maps /\ n \in Nat /\ map \in [1..n -> Routers]
      /\ source \in 1..n /\ map[source] = self
      /\ Fits(n, map, M, source)
      /\ \A i, j \in 1..n : M[i][j] = LinkCost(map[i], map[j])
      /\ \A i, j \in 1..n : map[i] = map[j] => i = j
  BY MatrixFits
<1>2. MultiPath(adjLsdb, self) = hops[n]
  BY DEF MultiPath
<1>3. self \in Routers
  BY DEF Listed
<1> HIDE DEF map, M, source
<1>4. ASSUME NEW r \in Routers \ {self}
      PROVE  GoBy(map, M, source, Distances(r, Routers \ {self}), W[r])
  <2>1. /\ r \in Routers \ {map[source]} /\ Fits(Len(map), map, M, source) /\ map \in Maps
        /\ \A j \in 1..Len(map) : M[source][j] = LinkCost(map[source], map[j])
    BY <1>1
  <2>2. GoBy(map, M, source, Distances(r, Routers \ {map[source]}), Ways(map[source], r))
    BY <2>1, WaysByNumber
  <2> QED
    BY <1>1, <2>2
<1>5. ASSUME NEW r \in Routers, NEW i \in 1..n
      PROVE  By(i)[r] = HopIfAny(W[r], map[i])
  <2>1. By(i) = ByLink(map, M, source, i)
    BY DEF ByLink
  <2>2. CASE r = self
    <3>1. By(i)[r] = NoHops
      BY <1>1, <2>2 DEF LsNextHops, NoHops
    <3>2. W[r] = NoHops /\ DOMAIN NoHops = {}
      BY <1>3, <2>2 DEF NoHops
    <3> HIDE DEF By, W
    <3> QED
      BY <3>1, <3>2 DEF HopIfAny
  <2>3. CASE r # self
    <3> DEFINE ways == W[r]
    <3>1. /\ r \in Routers \ {map[source]} /\ Fits(Len(map), map, M, source) /\ map \in Maps
          /\ i \in 1..Len(map)
          /\ GoBy(map, M, source, Distances(r, Routers \ {map[source]}), ways)
      BY <1>1, <1>4, <2>3
    <3> HIDE DEF W, ways, By, Step, hops, First, f, None, n
    <3>2. ByLink(map, M, source, i)[r] = HopIfAny(ways, map[i])
      BY <3>1, ByLinkProperties, SMTT(60)
    <3> QED
      BY <2>1, <3>2 DEF ways
  <2> QED
    BY <2>2, <2>3
<1>6. ASSUME NEW r \in Routers, NEW i \in 1..n, ~(M[source][i] > 0)
      PROVE  map[i] \notin DOMAIN W[r]
  <2>1. CASE r = self
    BY <1>3, <2>1 DEF NoHops
  <2>2. CASE r # self
    <3>1. LinkCost(self, map[i]) = M[source][i]
      BY <1>1
    <3>2. W[r] = Ways(self, r)
      BY <2>2
    <3>3. \A h \in DOMAIN Ways(self, r) : LinkCost(self, h) > 0
      BY DEF Ways
    <3> QED
      BY <1>6, <3>1, <3>2, <3>3
  <2> QED
    BY <2>1, <2>2
<1>7. \A h, r : r \in Routers /\ h \in DOMAIN W[r] => \E i \in 1..n : map[i] = h
  <2>1. SUFFICES ASSUME NEW r \in Routers, NEW h \in DOMAIN W[r]
                 PROVE  \E i \in 1..n : map[i] = h
    OBVIOUS
  <2>2. CASE r = self
    BY <1>3, <2>2 DEF NoHops
  <2>3. CASE r # self
    <3> HIDE DEF W
    <3> QED
      BY <1>4, <2>3 DEF GoBy, Goes
  <2> QED
    BY <2>2, <2>3
<1> HIDE DEF By, W
<1>8. f[0] = None
  <2>1. First(0) = {}
    OBVIOUS
  <2>2. \A r \in Routers : Part(W[r], {}) = [h \in {} |-> 0]
    BY DEF Part
  <2>3. 0 \in 0..n
    BY <1>1
  <2> HIDE DEF First
  <2> QED
    BY <2>1, <2>2, <2>3
<1>9. ASSUME NEW i \in 0..n, i # 0
      PROVE  f[i] = IF M[source][i] > 0 THEN AddHops(f[i - 1], By(i)) ELSE f[i - 1]
  <2>1. i \in 1..n /\ i - 1 \in 0..n
    BY <1>1, <1>9
  <2>2. First(i) = First(i - 1) \union {map[i]} /\ map[i] \notin First(i - 1)
    <3>1. /\ \A j \in 1..i : j = i \/ j \in 1..i - 1
          /\ \A j \in 1..i - 1 : j \in 1..i /\ j \in 1..n /\ j # i
          /\ i \in 1..i
      BY <2>1
    <3> QED
      BY <1>1, <2>1, <3>1
  <2> HIDE DEF First
  <2>3. \A r \in Routers : f[i - 1][r] = Part(W[r], First(i - 1)) /\ f[i][r] = Part(W[r], First(i - 1) \union {map[i]})
    BY <2>1, <2>2
  <2>4. f[i] = [r \in Routers |-> f[i][r]] /\ f[i - 1] = [r \in Routers |-> f[i - 1][r]]
    BY <2>1
  <2> HIDE DEF f
  <2>5. CASE M[source][i] > 0
    <3>1. \A r \in Routers : AddHops(f[i - 1], By(i))[r] = f[i][r]
      BY <1>5, <2>1, <2>2, <2>3, OneLinkMore
    <3>2. AddHops(f[i - 1], By(i)) = [r \in Routers |-> AddHops(f[i - 1], By(i))[r]]
      BY DEF AddHops
    <3> QED
      BY <2>4, <2>5, <3>1, <3>2
  <2>6. CASE ~(M[source][i] > 0)
    <3>1. ASSUME NEW r \in Routers
          PROVE  f[i][r] = f[i - 1][r]
      <4>1. map[i] \notin DOMAIN W[r]
        BY <1>6, <2>1, <2>6
      <4>2. DOMAIN W[r] \intersect (First(i - 1) \union {map[i]}) = DOMAIN W[r] \intersect First(i - 1)
        BY <4>1
      <4> QED
        BY <2>3, <4>2 DEF Part
    <3> QED
      BY <2>4, <2>6, <3>1
  <2> QED
    BY <2>5, <2>6
<1>10. f = Step(f)
  <2>1. \A i \in 0..n : f[i] = Step(f)[i]
    <3> HIDE DEF f
    <3> QED
      BY <1>8, <1>9
  <2>2. f = [i \in 0..n |-> f[i]] /\ Step(f) = [i \in 0..n |-> Step(f)[i]]
    OBVIOUS
  <2> HIDE DEF f, Step
  <2> QED
    BY <2>1, <2>2
<1>11. hops = Step(hops)
  <2> HIDE DEF f, Step
  <2> QED
    BY <1>10
<1> HIDE DEF hops, f
<1> DEFINE Right == {i \in 0..n : hops[i] = f[i]}
<1>12. \A i \in 0..n : i \in Right
  <2>1. 0 \in Right
    BY <1>1, <1>8, <1>11
  <2>2. ASSUME NEW i \in 0..n, i # 0, i - 1 \in Right
        PROVE  i \in Right
    <3>1. i - 1 \in 0..n /\ hops[i - 1] = f[i - 1]
      BY <2>2
    <3>2. hops[i] = IF M[source][i] > 0 THEN AddHops(hops[i - 1], By(i)) ELSE hops[i - 1]
      BY <1>11, <2>2
    <3> QED
      BY <1>9, <2>2, <3>1, <3>2
  <2>3. 0 \in Int /\ n \in Int
    BY <1>1
  <2> HIDE DEF Right
  <2> QED
    BY <2>1, <2>2, <2>3, PassedOn
<1>13. n \in 0..n /\ hops[n] = f[n]
  BY <1>1, <1>12
<1>14. ASSUME NEW r \in Routers \ {self}
       PROVE  f[n][r] = Ways(self, r)
  <2>1. DOMAIN W[r] \subseteq First(n)
    BY <1>7
  <2>2. W[r] = [h \in DOMAIN Ways(self, r) |-> Ways(self, r)[h]] /\ W[r] = Ways(self, r)
    BY DEF W, Ways
  <2>3. f[n][r] = [h \in DOMAIN W[r] \intersect First(n) |-> W[r][h]]
    <3> HIDE DEF First
    <3> QED
      BY <1>13 DEF f, Part
  <2>4. DOMAIN W[r] \intersect First(n) = DOMAIN W[r]
    BY <2>1
  <2> HIDE DEF First
  <2> QED
    BY <2>2, <2>3, <2>4
<1> QED
  BY <1>2, <1>13, <1>14

-----------------------------------------------------------------------------
(* Link state routing in every state.                                      *)

(* A router begins with no Adjacency LSAs.                                 *)
LEMMA LinksInit == CalcInit => LinksOK
BY DEF CalcInit, LinksOK

(* What is left of a list when a LSA is erased is of its LSAs              *)
(* (Lsdb::removeAdjLsa).                                                   *)
LEMMA RemoveAtKeeps ==
  ASSUME NEW S, NEW q \in Seq(S), NEW i \in 1..Len(q)
  PROVE  RemoveAt(q, i) \in Seq(S)
<1>1. Len(q) \in Nat /\ \A j \in 1..Len(q) : q[j] \in S
  BY LenProperties, ElementOfSeq
<1>2. SubSeq(q, 1, i - 1) \in Seq(S) /\ SubSeq(q, i + 1, Len(q)) \in Seq(S)
  <2>1. /\ \A j \in 1..i - 1 : j \in 1..Len(q)
        /\ \A j \in i + 1..Len(q) : j \in 1..Len(q)
    BY <1>1
  <2> QED
    BY <1>1, <2>1, SubSeqProperties
<1> QED
  BY <1>2, ConcatProperties DEF RemoveAt

(* Adjacency LSAs that come, change and go leave a list of Adjacency LSAs. *)
LEMMA LinksStep == LinksOK /\ [CalcNext]_<<adjLsdb, coordinates>> => LinksOK'
<1>1. SUFFICES ASSUME LinksOK, [CalcNext]_<<adjLsdb, coordinates>> PROVE LinksOK'
  OBVIOUS
<1>2. adjLsdb \in Seq(AdjLsa) /\ Len(adjLsdb) \in Nat /\ DOMAIN adjLsdb = 1..Len(adjLsdb)
      /\ \A i \in DOMAIN adjLsdb : adjLsdb[i] \in AdjLsa
  BY <1>1, LenProperties, ElementOfSeq DEF LinksOK
<1>3. ASSUME NEW r \in Routers, InstallAdjLsa(r) PROVE LinksOK'
  <2>1. PICK links \in AdjLsas(r) :
          adjLsdb' = IF r \in Listed
                     THEN [i \in DOMAIN adjLsdb |->
                             IF adjLsdb[i].orig = r THEN [orig |-> r, links |-> links] ELSE adjLsdb[i]]
                     ELSE Append(adjLsdb, [orig |-> r, links |-> links])
    BY <1>3 DEF InstallAdjLsa
  <2> DEFINE lsa == [orig |-> r, links |-> links]
  <2>2. DOMAIN links \in SUBSET Routers /\ links \in [DOMAIN links -> Nat]
    BY LinkAssumption
  <2>3. lsa \in AdjLsa
    <3>1. links \in UNION {[A -> Nat] : A \in SUBSET Routers}
      BY <2>2
    <3> QED
      BY <3>1 DEF AdjLsa
  <2>4. CASE r \in Listed
    <3> HIDE DEF lsa
    <3>1. adjLsdb' = [i \in 1..Len(adjLsdb) |-> IF adjLsdb[i].orig = r THEN lsa ELSE adjLsdb[i]]
      BY <1>2, <2>1, <2>4 DEF lsa
    <3>2. adjLsdb' \in [1..Len(adjLsdb) -> AdjLsa]
      BY <1>2, <2>3, <3>1
    <3> QED
      BY <1>2, <3>2, AsSequence DEF LinksOK
  <2>5. CASE r \notin Listed
    <3> HIDE DEF lsa
    <3>1. adjLsdb' = Append(adjLsdb, lsa)
      BY <2>1, <2>5 DEF lsa
    <3> QED
      BY <1>2, <2>3, <3>1, AppendProperties DEF LinksOK
  <2> QED
    BY <2>4, <2>5
<1>4. ASSUME NEW r \in Routers, RemoveAdjLsa(r) PROVE LinksOK'
  <2>1. PICK i \in DOMAIN adjLsdb : adjLsdb' = RemoveAt(adjLsdb, i)
    BY <1>4 DEF RemoveAdjLsa
  <2> QED
    BY <1>2, <2>1, RemoveAtKeeps DEF LinksOK
<1>5. ASSUME NEW r \in Routers, InstallCoordinateLsa(r) \/ RemoveCoordinateLsa(r) PROVE LinksOK'
  BY <1>1, <1>5 DEF InstallCoordinateLsa, RemoveCoordinateLsa, LinksOK
<1>6. CASE UNCHANGED <<adjLsdb, coordinates>>
  BY <1>1, <1>6 DEF LinksOK
<1> QED
  BY <1>1, <1>3, <1>4, <1>5, <1>6 DEF CalcNext

(* The routes are shortest for whatever list of Adjacency LSAs.            *)
LEMMA RoutesOnceOK == LinksOK => RoutesAreShortest
<1>1. SUFFICES ASSUME LinksOK
               PROVE  \A self \in Listed : \A r \in Routers \ {self} :
                        /\ MultiPath(adjLsdb, self)[r] = Ways(self, r)
                        /\ ShortestOf(Ways(self, r), SinglePath(adjLsdb, self)[r])
  BY DEF RoutesAreShortest, ShortestOf
<1>2. ASSUME NEW self \in Listed, NEW r \in Routers \ {self}
      PROVE  /\ MultiPath(adjLsdb, self)[r] = Ways(self, r)
             /\ ShortestOf(Ways(self, r), SinglePath(adjLsdb, self)[r])
  BY <1>1, MultiIsShortest, SingleIsShortest
<1> QED
  BY <1>2

(* Link state routing takes shortest ways: for every set of routers and    *)
(* every database that LSAs coming, changing and going leave, the          *)
(* calculators of routing-table-calculator.cpp yield what the definition   *)
(* of shortest ways says, over one path and over all links.                *)
THEOREM RoutesAreShortestCorrect == CalcSpec => []RoutesAreShortest
<1>1. CalcSpec => []LinksOK
  BY LinksInit, LinksStep, PTL DEF CalcSpec
<1> QED
  BY <1>1, RoutesOnceOK, PTL

-----------------------------------------------------------------------------
(* Hyperbolic distances.                                                   *)

Angles == 0..2 * HalfTurn - 1
Place == [radius : Nat \union {Unknown}, angle : Int]

\* By one step an angle goes to the next, and the last one to the first.
LEMMA NextAngle ==
  ASSUME NEW a \in Angles
  PROVE  /\ a + 1 < 2 * HalfTurn => (a + 1) % (2 * HalfTurn) = a + 1
         /\ a + 1 = 2 * HalfTurn => (a + 1) % (2 * HalfTurn) = 0
<1> DEFINE T == 2 * HalfTurn
<1>1. T \in Nat \ {0} /\ a \in Nat /\ a + 1 <= T
  BY TurnAssumption DEF Angles
<1> HIDE DEF T
<1>2. a + 1 < T => (a + 1) % T = a + 1
  BY <1>1
<1>3. T % T = 0
  BY <1>1
<1> QED
  BY <1>2, <1>3 DEF T

\* Two angles are as far from each other as before when both turn.
LEMMA AngleBetweenTurns ==
  ASSUME NEW a \in Angles, NEW b \in Angles
  PROVE  AngleBetween((a + 1) % (2 * HalfTurn), (b + 1) % (2 * HalfTurn)) = AngleBetween(a, b)
<1>1. HalfTurn \in Nat \ {0} /\ a \in 0..2 * HalfTurn - 1 /\ b \in 0..2 * HalfTurn - 1
  BY TurnAssumption DEF Angles
<1>2. /\ (a + 1) % (2 * HalfTurn) = IF a + 1 = 2 * HalfTurn THEN 0 ELSE a + 1
      /\ (b + 1) % (2 * HalfTurn) = IF b + 1 = 2 * HalfTurn THEN 0 ELSE b + 1
  BY <1>1, NextAngle
<1>3. CASE a + 1 = 2 * HalfTurn
  BY <1>1, <1>2, <1>3 DEF AngleBetween
<1>4. CASE b + 1 = 2 * HalfTurn
  BY <1>1, <1>2, <1>4 DEF AngleBetween
<1>5. CASE a + 1 # 2 * HalfTurn /\ b + 1 # 2 * HalfTurn
  BY <1>1, <1>2, <1>5 DEF AngleBetween
<1> QED
  BY <1>3, <1>4, <1>5

CoordinatesOK ==
  /\ DOMAIN coordinates \subseteq Routers
  /\ coordinates \in [DOMAIN coordinates -> Place]

\* Distances are the same in both directions.
LEMMA DistanceIsSymmetric ==
  ASSUME CoordinatesOK, NEW n, NEW r
  PROVE  GetHyperbolicDistance(coordinates, n, r) = GetHyperbolicDistance(coordinates, r, n)
<1>1. {r, n} = {n, r}
  OBVIOUS
<1>2. CASE ~({n, r} \subseteq DOMAIN coordinates)
  BY <1>1, <1>2 DEF GetHyperbolicDistance
<1>3. CASE {n, r} \subseteq DOMAIN coordinates
  <2> DEFINE a == coordinates[n]
             b == coordinates[r]
             least(x, y) == x.radius + y.radius - Larger(x.radius, y.radius)
             most(x, y) == Larger(x.radius, y.radius)
             angle(x, y) == AngleBetween(x.angle, y.angle)
             apart(x, y) == IF x.radius > y.radius THEN x.radius - y.radius ELSE y.radius - x.radius
             distance(x, y) == IF x.radius = Unknown /\ y.radius = Unknown THEN Unknown
                               ELSE IF angle(x, y) = 0 THEN apart(x, y)
                               ELSE Bend(least(x, y), most(x, y), angle(x, y))
  <2>1. a \in Place /\ b \in Place
    BY <1>3 DEF CoordinatesOK
  <2>2. /\ GetHyperbolicDistance(coordinates, n, r) = distance(a, b)
        /\ GetHyperbolicDistance(coordinates, r, n) = distance(b, a)
    BY <1>1, <1>3 DEF GetHyperbolicDistance
  <2> HIDE DEF a, b
  <2>3. a.radius \in Int /\ b.radius \in Int /\ a.angle \in Int /\ b.angle \in Int
    BY <2>1 DEF Place, Unknown
  <2>4. most(a, b) = most(b, a) /\ most(a, b) \in Int
    BY <2>3 DEF Larger
  <2>5. least(a, b) = least(b, a)
    <3> HIDE DEF most
    <3>1. least(a, b) = a.radius + b.radius - most(a, b) /\ least(b, a) = b.radius + a.radius - most(b, a)
      BY DEF most
    <3> HIDE DEF least
    <3> QED
      BY <2>3, <2>4, <3>1
  <2>6. angle(a, b) = angle(b, a)
    BY <2>3, TurnAssumption DEF AngleBetween
  <2>7. apart(a, b) = apart(b, a)
    BY <2>3
  <2> HIDE DEF least, most, angle, apart
  <2>8. distance(a, b) = distance(b, a)
    BY <2>4, <2>5, <2>6, <2>7
  <2> QED
    BY <2>2, <2>8
<1> QED
  BY <1>2, <1>3

\* Turning all coordinates leaves the distances.
LEMMA DistanceIsRelative ==
  ASSUME CoordinatesOK, WithinTurn, NEW n, NEW r
  PROVE  GetHyperbolicDistance(Turned(1), n, r) = GetHyperbolicDistance(coordinates, n, r)
<1>1. DOMAIN Turned(1) = DOMAIN coordinates
  BY DEF Turned
<1>2. CASE ~({n, r} \subseteq DOMAIN coordinates)
  BY <1>1, <1>2 DEF GetHyperbolicDistance
<1>3. CASE {n, r} \subseteq DOMAIN coordinates
  <2> DEFINE a == coordinates[n]
             b == coordinates[r]
  <2>1. a \in Place /\ b \in Place /\ a.angle \in Angles /\ b.angle \in Angles
    BY <1>3 DEF CoordinatesOK, WithinTurn, Angles
  <2>2. /\ Turned(1)[n] = [a EXCEPT !.angle = (@ + 1) % (2 * HalfTurn)]
        /\ Turned(1)[r] = [b EXCEPT !.angle = (@ + 1) % (2 * HalfTurn)]
    BY <1>3 DEF Turned
  <2> HIDE DEF a, b
  <2>3. /\ Turned(1)[n].radius = a.radius /\ Turned(1)[n].angle = (a.angle + 1) % (2 * HalfTurn)
        /\ Turned(1)[r].radius = b.radius /\ Turned(1)[r].angle = (b.angle + 1) % (2 * HalfTurn)
    BY <2>1, <2>2 DEF Place
  <2>4. AngleBetween(Turned(1)[n].angle, Turned(1)[r].angle) = AngleBetween(a.angle, b.angle)
    BY <2>1, <2>3, AngleBetweenTurns
  <2> QED
    BY <1>1, <1>3, <2>3, <2>4 DEF GetHyperbolicDistance, a, b
<1> QED
  BY <1>2, <1>3

\* At first there are no Coordinate LSAs.
LEMMA CoordinatesInit == CalcInit => CoordinatesOK
  BY DEF CalcInit, CoordinatesOK

\* Coordinate LSAs that come and go leave coordinates of routers.
LEMMA CoordinatesStep == CoordinatesOK /\ [CalcNext]_<<adjLsdb, coordinates>> => CoordinatesOK'
<1> SUFFICES ASSUME CoordinatesOK, [CalcNext]_<<adjLsdb, coordinates>>
             PROVE  CoordinatesOK'
  OBVIOUS
<1>1. ASSUME NEW r \in Routers, InstallCoordinateLsa(r)
      PROVE  CoordinatesOK'
  <2>1. PICK c \in Coordinates :
          coordinates' = [q \in DOMAIN coordinates \union {r} |-> IF q = r THEN c ELSE coordinates[q]]
    BY <1>1 DEF InstallCoordinateLsa
  <2>2. c \in Place
    BY CoordinateAssumption DEF Place
  <2> QED
    BY <2>1, <2>2 DEF CoordinatesOK
<1>2. ASSUME NEW r \in Routers, RemoveCoordinateLsa(r)
      PROVE  CoordinatesOK'
  BY <1>2 DEF RemoveCoordinateLsa, CoordinatesOK
<1>3. ASSUME NEW r \in Routers, InstallAdjLsa(r) \/ RemoveAdjLsa(r)
      PROVE  CoordinatesOK'
  BY <1>3 DEF InstallAdjLsa, RemoveAdjLsa, CoordinatesOK
<1>4. CASE UNCHANGED <<adjLsdb, coordinates>>
  BY <1>4 DEF CoordinatesOK
<1> QED
  BY <1>1, <1>2, <1>3, <1>4 DEF CalcNext

\* Paths depend on the distances only, which turning leaves.
LEMMA RelativeOnceOK == CoordinatesOK => HyperbolicIsRelative
<1> SUFFICES ASSUME CoordinatesOK, NEW self \in Listed, NEW active \in SUBSET Routers
             PROVE  LET paths(c) == HyperbolicPaths(adjLsdb, c, active, self)
                    IN /\ WithinTurn => paths(coordinates) = paths(Turned(1))
                       /\ \A n, r \in active \ {self} :
                            n \in DOMAIN paths(coordinates)[r] <=> r \in DOMAIN paths(coordinates)[n]
  BY DEF HyperbolicIsRelative
<1> DEFINE map == CreateFromAdjLsdb(adjLsdb)
           D(n, r) == GetHyperbolicDistance(coordinates, n, r)
           Leads(n, r) == \/ r = n
                          \/ /\ Contains(map, n) /\ Contains(map, r) /\ r # self
                             /\ D(n, r) # Unknown
           Hops(r) == {h \in active \ {self} : Leads(h, r)}
           P == [r \in Routers |-> [n \in Hops(r) |-> IF n = r THEN 0 ELSE D(n, r)]]
<1>1. \A n, r : /\ WithinTurn => GetHyperbolicDistance(Turned(1), n, r) = D(n, r)
                /\ D(n, r) = D(r, n)
  BY DistanceIsRelative, DistanceIsSymmetric
<1>2. HyperbolicPaths(adjLsdb, coordinates, active, self) = P
  BY DEF HyperbolicPaths
<1>3. WithinTurn => HyperbolicPaths(adjLsdb, Turned(1), active, self) = P
  BY <1>1 DEF HyperbolicPaths
<1> HIDE DEF map, D
<1>4. ASSUME NEW n \in active \ {self}, NEW r \in active \ {self}
      PROVE  n \in DOMAIN P[r] <=> r \in DOMAIN P[n]
  <2>1. DOMAIN P[r] = Hops(r) /\ DOMAIN P[n] = Hops(n)
    BY <1>4
  <2>2. Leads(n, r) <=> Leads(r, n)
    BY <1>1, <1>4
  <2> QED
    BY <2>1, <2>2
<1> QED
  BY <1>2, <1>3, <1>4

\* Hyperbolic routing goes by how coordinates lie to each other, for all
\* routers, coordinates and adjacencies (routing-table-calculator.cpp:458).
THEOREM HyperbolicIsRelativeCorrect == CalcSpec => []HyperbolicIsRelative
  BY CoordinatesInit, CoordinatesStep, RelativeOnceOK, PTL DEF CalcSpec
=================================================================================
