------------------------ MODULE RoutingTableCalculator ------------------------
(***************************************************************************)
(* The calculators: what RoutingTable gets from the Adjacency LSAs of the  *)
(* database, by link state routing over one path or over all links of this *)
(* router, or by hyperbolic routing from its neighbours.                   *)
(*                                                                         *)
(* The database is a list of Adjacency LSAs in the order they came in; the *)
(* order numbers the routers in the Map, and the numbers decide between    *)
(* paths of the same cost.  A LSA has its router and the costs of its      *)
(* links, by neighbour.  Routers are numbers; faces go by the neighbour    *)
(* they lead to.                                                           *)
(***************************************************************************)
EXTENDS Integers, Sequences, FiniteSets, SequencesExt

CONSTANTS
  Routers,
  HalfTurn,       \* steps of angle that make half a turn
  Bend(_, _, _)   \* the distance of two radii, the smaller first, at an angle

ASSUME RouterAssumption == Routers \subseteq Nat \ {0} /\ IsFiniteSet(Routers)
ASSUME TurnAssumption   == HalfTurn \in Nat \ {0}

Infinite == 2147483647
NoRouter == 0
Larger(a, b) == IF a > b THEN a ELSE b
UpTo(n) == [i \in 1..n |-> i]

-----------------------------------------------------------------------------
(* The Map and the matrix.                                                 *)

\* Each LSA adds its router, then its neighbours, unless they are there.
AddEntries(map, names) == map \o SetToSeq(names \ ToSet(map))

CreateFromAdjLsdb(lsdb) ==
  LET map[i \in 0..Len(lsdb)] ==
        IF i = 0 THEN <<>>
        ELSE AddEntries(AddEntries(map[i - 1], {lsdb[i].orig}), DOMAIN lsdb[i].links)
  IN map[Len(lsdb)]

MappingNo(map, r) == CHOOSE i \in DOMAIN map : map[i] = r

\* The cost one side tells of, 0 for no link.
Told(lsdb, from, to) ==
  LET Telling == {i \in DOMAIN lsdb : lsdb[i].orig = from /\ to \in DOMAIN lsdb[i].links}
  IN IF Telling = {} THEN 0 ELSE lsdb[CHOOSE i \in Telling : TRUE].links[to]

Mut_MakeAdjMatrixOneSided(lsdb, map) ==
  [row \in DOMAIN map |-> [col \in DOMAIN map |-> Told(lsdb, map[row], map[col])]]

\* A link counts when both sides tell of it, at the larger of the two costs.
MakeAdjMatrix(lsdb, map) ==
  [row \in DOMAIN map |-> [col \in DOMAIN map |->
     LET to == Told(lsdb, map[row], map[col])
         fr == Told(lsdb, map[col], map[row])
     IN IF to = 0 \/ fr = 0 THEN 0 ELSE Larger(to, fr)]]

-----------------------------------------------------------------------------
(* Dijkstra's algorithm.                                                   *)

\* The router at i is exchanged with each one behind that is nearer.
ExchangeNearer(queue, distance, i) ==
  LET n == Len(queue)
      Exchange(q, k) == IF distance[q[k]] < distance[q[i]] THEN [q EXCEPT ![i] = q[k], ![k] = q[i]] ELSE q
      exchanged[k \in i..n] == IF k = i THEN queue ELSE Exchange(exchanged[k - 1], k)
  IN exchanged[n]

\* The part of the queue from start on is sorted.
SortQueueByDistance(queue, distance, start) ==
  LET n == Len(queue)
      sorted[i \in start - 1..n] ==
        IF i = start - 1 THEN queue ELSE ExchangeNearer(sorted[i - 1], distance, i)
  IN sorted[n]

IsNotExplored(s, v) == \E i \in s.head + 1..Len(s.queue) : s.queue[i] = v

\* The router at the head of the queue is explored, unless it is out of reach
\* and so are all behind it.
Explore(matrix, s) ==
  LET u == s.queue[s.head]
      Nearer(v) == /\ matrix[u][v] > 0 /\ IsNotExplored(s, v)
                   /\ s.distance[u] + matrix[u][v] < s.distance[v]
      distance == [v \in DOMAIN matrix |->
                     IF Nearer(v) THEN s.distance[u] + matrix[u][v] ELSE s.distance[v]]
      parent == [v \in DOMAIN matrix |-> IF Nearer(v) THEN u ELSE s.parent[v]]
  IN IF s.distance[u] = Infinite THEN s
     ELSE [distance |-> distance, parent |-> parent, head |-> s.head + 1,
           queue |-> SortQueueByDistance(s.queue, distance, s.head + 1)]

DoDijkstraPathCalculation(matrix, source) ==
  LET distance == [i \in DOMAIN matrix |-> IF i = source THEN 0 ELSE Infinite]
      start == [distance |-> distance, parent |-> [i \in DOMAIN matrix |-> NoRouter], head |-> 1,
                queue |-> SortQueueByDistance(UpTo(Len(matrix)), distance, 1)]
      explored[i \in 0..Len(matrix)] == IF i = 0 THEN start ELSE Explore(matrix, explored[i - 1])
  IN explored[Len(matrix)]

\* The router before the source on the way back from dest, NoRouter for no way.
GetLsNextHop(s, dest, source) ==
  LET hop[v \in DOMAIN s.parent] ==
        IF s.parent[v] = NoRouter THEN NoRouter
        ELSE IF s.parent[v] = source THEN v ELSE hop[s.parent[v]]
  IN hop[dest]

\* A hop for every router that can be reached, by the neighbour to take.
LsNextHops(s, map, source) ==
  [r \in Routers |->
     IF ~Contains(map, r) \/ r = map[source] THEN [h \in {} |-> 0]
     ELSE LET dest == MappingNo(map, r)
              hop == GetLsNextHop(s, dest, source)
          IN [h \in (IF hop = NoRouter THEN {} ELSE {map[hop]}) |-> s.distance[dest]]]

\* Next hops by another link are added to those there are.
AddHops(a, b) == [r \in Routers |-> [h \in DOMAIN a[r] \union DOMAIN b[r] |->
  IF h \in DOMAIN a[r] /\ (h \in DOMAIN b[r] => a[r][h] <= b[r][h]) THEN a[r][h] ELSE b[r][h]]]

\* The source keeps this link only.
AdjustAdMatrix(matrix, source, link) ==
  [matrix EXCEPT ![source] = [i \in DOMAIN matrix |-> IF i = link THEN matrix[source][i] ELSE 0]]

SinglePath(lsdb, self) ==
  LET map == CreateFromAdjLsdb(lsdb)
      source == MappingNo(map, self)
  IN LsNextHops(DoDijkstraPathCalculation(MakeAdjMatrix(lsdb, map), source), map, source)

MultiPath(lsdb, self) ==
  LET map == CreateFromAdjLsdb(lsdb)
      source == MappingNo(map, self)
      matrix == MakeAdjMatrix(lsdb, map)
      By(link) == LsNextHops(
        DoDijkstraPathCalculation(AdjustAdMatrix(matrix, source, link), source), map, source)
      hops[i \in 0..Len(map)] ==
        IF i = 0 THEN [r \in Routers |-> [h \in {} |-> 0]]
        ELSE IF matrix[source][i] > 0 THEN AddHops(hops[i - 1], By(i)) ELSE hops[i - 1]
  IN hops[Len(map)]

-----------------------------------------------------------------------------
(* Hyperbolic routing.  A coordinate has a radius, in the units of cost,   *)
(* and an angle; Bend stands for the hyperbolic functions.                 *)

Unknown == -1

Mut_AngleBetweenNoWrap(a, b) == IF a > b THEN a - b ELSE b - a

AngleBetween(a, b) ==
  LET diff == IF a > b THEN a - b ELSE b - a
  IN IF diff > HalfTurn THEN 2 * HalfTurn - diff ELSE diff

\* coords has the Coordinate LSAs of the database, by router.
GetHyperbolicDistance(coords, src, dest) ==
  IF ~({src, dest} \subseteq DOMAIN coords) THEN Unknown
  ELSE LET a == coords[src]
           b == coords[dest]
           angle == AngleBetween(a.angle, b.angle)
       IN IF a.radius = Unknown /\ b.radius = Unknown THEN Unknown
          ELSE IF angle = 0
          THEN IF a.radius > b.radius THEN a.radius - b.radius ELSE b.radius - a.radius
          ELSE Bend(a.radius + b.radius - Larger(a.radius, b.radius), Larger(a.radius, b.radius), angle)

\* Every ACTIVE neighbour leads to itself, and to every router of the map it
\* has a known distance to.  What is kept is the next hops by neighbour.
HyperbolicPaths(lsdb, coords, active, self) ==
  LET map == CreateFromAdjLsdb(lsdb)
      Distance(n, r) == GetHyperbolicDistance(coords, n, r)
      Leads(n, r) == \/ r = n
                     \/ /\ Contains(map, n) /\ Contains(map, r) /\ r # self
                        /\ Distance(n, r) # Unknown
  IN [r \in Routers |-> [n \in {h \in active \ {self} : Leads(h, r)} |->
        IF n = r THEN 0 ELSE Distance(n, r)]]
===============================================================================
