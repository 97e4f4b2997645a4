--------------------------- MODULE RouteCalculation ---------------------------
(***************************************************************************)
(* What the calculators yield for every database that LSAs coming,         *)
(* changing and going can leave behind, against the definition of shortest *)
(* paths.                                                                  *)
(***************************************************************************)
EXTENDS RoutingTableCalculator

CONSTANTS
  AdjLsas(_),    \* the Adjacency LSAs a router may have, as the costs of its links
  Coordinates    \* the coordinates a router may have

ASSUME LinkAssumption ==
  \A r \in Routers : \A links \in AdjLsas(r) :
    DOMAIN links \subseteq Routers /\ links \in [DOMAIN links -> Nat]

ASSUME CoordinateAssumption == Coordinates \subseteq [radius : Nat \union {Unknown}, angle : Int]

VARIABLES
  adjLsdb,       \* the Adjacency LSAs, in the order of the list
  coordinates    \* the Coordinate LSAs, by router

Listed == {r \in Routers : \E i \in DOMAIN adjLsdb : adjLsdb[i].orig = r}

\* A first LSA of a router goes to the end of the list, another one takes the
\* place of the first.
InstallAdjLsa(r) ==
  /\ \E links \in AdjLsas(r) :
       LET lsa == [orig |-> r, links |-> links]
       IN adjLsdb' = IF r \in Listed
                     THEN [i \in DOMAIN adjLsdb |-> IF adjLsdb[i].orig = r THEN lsa ELSE adjLsdb[i]]
                     ELSE Append(adjLsdb, lsa)
  /\ UNCHANGED coordinates

RemoveAdjLsa(r) ==
  /\ \E i \in DOMAIN adjLsdb : adjLsdb[i].orig = r /\ adjLsdb' = RemoveAt(adjLsdb, i)
  /\ UNCHANGED coordinates

InstallCoordinateLsa(r) ==
  /\ \E c \in Coordinates :
       coordinates' = [q \in DOMAIN coordinates \union {r} |-> IF q = r THEN c ELSE coordinates[q]]
  /\ UNCHANGED adjLsdb

RemoveCoordinateLsa(r) ==
  /\ r \in DOMAIN coordinates
  /\ coordinates' = [q \in DOMAIN coordinates \ {r} |-> coordinates[q]]
  /\ UNCHANGED adjLsdb

CalcInit == adjLsdb = <<>> /\ coordinates = [r \in {} |-> 0]

CalcNext ==
  \E r \in Routers : \/ InstallAdjLsa(r) \/ RemoveAdjLsa(r)
                    \/ InstallCoordinateLsa(r) \/ RemoveCoordinateLsa(r)

CalcSpec == CalcInit /\ [][CalcNext]_<<adjLsdb, coordinates>>

-----------------------------------------------------------------------------
(* Shortest paths by definition.                                           *)

\* The cost of the link between two routers, 0 for none.
LinkCost(a, b) ==
  IF Told(adjLsdb, a, b) = 0 \/ Told(adjLsdb, b, a) = 0 THEN 0
  ELSE Larger(Told(adjLsdb, a, b), Told(adjLsdb, b, a))

\* The costs of the shortest ways to b by routers of S only, where a cost of
\* Infinite is no way: over k links at most it is the best of going one link and
\* on over k - 1.
Distances(b, S) ==
  LET within[k \in 0..Cardinality(S)] ==
        [c \in S |->
           IF c = b THEN 0
           ELSE IF k = 0 THEN Infinite
           ELSE LET on == {d \in S : LinkCost(c, d) > 0 /\ within[k - 1][d] < Infinite}
                IN Min({Infinite} \union {LinkCost(c, d) + within[k - 1][d] : d \in on})]
  IN within[Cardinality(S)]

\* The costs of going to r by each neighbour there is such a way by, that does
\* not come back here.
Ways(self, r) ==
  LET distances == Distances(r, Routers \ {self})
      Cost(n) == LinkCost(self, n) + distances[n]
  IN [n \in {m \in Routers \ {self} : LinkCost(self, m) > 0 /\ distances[m] < Infinite /\ Cost(m) < Infinite} |->
        Cost(n)]

\* Single path routing takes, for every router that can be reached and for no
\* other, one neighbour on a shortest path, at the cost of the path.  Multi
\* path routing takes every neighbour a way leads over that does not come back
\* here, at the cost of the shortest such way.  The order LSAs came in, and
\* LSAs that only one side has (routing-table-calculator.cpp:71-100), make no
\* difference.  As all costs are positive, single paths of routers with the same
\* LSAs lead nearer with every hop; nothing of the kind is said of multi paths.
RoutesAreShortest ==
  \A self \in Listed :
    LET single == SinglePath(adjLsdb, self)
        multi  == MultiPath(adjLsdb, self)
    IN \A r \in Routers \ {self} :
         LET ways == Ways(self, r)
         IN /\ multi[r] = ways
            /\ IF DOMAIN ways = {} THEN DOMAIN single[r] = {}
               ELSE \E n \in DOMAIN ways : /\ single[r] = [h \in {n} |-> ways[n]]
                                           /\ \A h \in DOMAIN ways : ways[n] <= ways[h]

Turned(k) == [r \in DOMAIN coordinates |->
                [coordinates[r] EXCEPT !.angle = (@ + k) % (2 * HalfTurn)]]

WithinTurn == \A r \in DOMAIN coordinates : coordinates[r].angle \in 0..2 * HalfTurn - 1

\* Hyperbolic routing of a neighbour and a router depends on how they lie to
\* each other only: turning all coordinates changes nothing, wherever the
\* angles wrap (routing-table-calculator.cpp:458), as long as each was given
\* within a turn, and both are equally far from each other in any case.
HyperbolicIsRelative ==
  DOMAIN coordinates # {} =>
  \A self \in Listed, active \in SUBSET Routers :
    LET paths(c) == HyperbolicPaths(adjLsdb, c, active, self)
    IN /\ WithinTurn => paths(coordinates) = paths(Turned(1))
       /\ \A n, r \in active \ {self} :
            n \in DOMAIN paths(coordinates)[r] <=> r \in DOMAIN paths(coordinates)[n]
===============================================================================
