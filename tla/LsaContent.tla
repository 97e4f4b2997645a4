------------------------------ MODULE LsaContent ------------------------------
(***************************************************************************)
(* What a LSA carries and how: getData writes it as tokens between "|",    *)
(* initializeFromContent reads them, isEqualContent decides whether a LSA  *)
(* that replaces another changes anything.  Here a router builds its       *)
(* Adjacency LSA from its AdjacencyList over and over, keeps it and sends  *)
(* it to another router.                                                   *)
(*                                                                         *)
(* Costs of links are counted in halves: the configuration takes           *)
(* fractions, and getLinkCost rounds up.                                   *)
(***************************************************************************)
EXTENDS Integers, Sequences, FiniteSets, SequencesExt

CONSTANTS
  Self, NeighborNames,
  HalfCosts,     \* the costs links may have, in halves
  Junk,          \* what may follow the content in memory
  MaxBuilds      \* bound: LSAs built

ASSUME HalfCostAssumption == HalfCosts \subseteq Nat /\ MaxBuilds \in Nat

ASSUME NeighborAssumption == NeighborNames \subseteq Int /\ IsFiniteSet(NeighborNames)

VARIABLES
  adjacencies,   \* AdjacencyList: cost and status by neighbour
  builds,        \* sequence number of the last LSA
  kept, held,    \* adjacents of the LSA in the database here and there
  calculates     \* whether the last LSA made the other router calculate

lsaVars == <<adjacencies, builds, kept, held, calculates>>

-----------------------------------------------------------------------------
(* Adjacents.  A list of adjacents is a sequence of name and cost.         *)

RoundUp(half) == (half + 1) \div 2

\* The cost of one, as it is, against the cost of the other rounded up.
SameAdjacent(a, b) == a.name = b.name /\ a.half = 2 * RoundUp(b.half)

NamesOf(list) == {list[i].name : i \in DOMAIN list}

\* The k-th of some names is the one that k - 1 others come before.
InOrder(names) ==
  [k \in 1..Cardinality(names) |-> CHOOSE n \in names : Cardinality({m \in names : m < n}) = k - 1]

\* A list has no name twice.
Sorted(list) ==
  [k \in DOMAIN list |-> list[CHOOSE i \in DOMAIN list : list[i].name = InOrder(NamesOf(list))[k]]]

\* Both lists are put in order first.
SameAdjacencies(list, other) ==
  /\ Len(list) = Len(other)
  /\ \A i \in DOMAIN list : SameAdjacent(Sorted(list)[i], Sorted(other)[i])

\* One whose name is there already is not added.
AddAdjacents(list, more) ==
  LET added[i \in 0..Len(more)] ==
        IF i = 0 THEN list
        ELSE IF more[i].name \in NamesOf(added[i - 1]) THEN added[i - 1]
        ELSE Append(added[i - 1], more[i])
  IN added[Len(more)]

\* An Adjacency LSA has the ACTIVE adjacents.
ActiveAdjacents ==
  LET names == InOrder({n \in NeighborNames : adjacencies[n].active})
  IN [i \in DOMAIN names |-> [name |-> names[i], half |-> adjacencies[names[i]].half]]

-----------------------------------------------------------------------------
(* Content.  It ends with a separator: what follows it in memory, where    *)
(* the reader looks for the end of the string (lsdb.cpp:1069), makes       *)
(* tokens of its own.                                                      *)

\* Name and cost of one adjacent after the other.
LinkTokens(adl) ==
  [k \in 1..2 * Len(adl) |-> IF k % 2 = 1 THEN adl[(k + 1) \div 2].name ELSE RoundUp(adl[k \div 2].half)]

Mut_GetDataUnclosed(lsa) ==
  [tokens |-> <<lsa.orig, lsa.seq, Len(lsa.adl)>> \o LinkTokens(lsa.adl), closed |-> FALSE]

GetData(lsa) ==
  [tokens |-> <<lsa.orig, lsa.seq, Len(lsa.adl)>> \o LinkTokens(lsa.adl), closed |-> TRUE]

InMemory(data, junk) ==
  IF data.closed \/ junk = <<>> THEN data.tokens \o junk
  ELSE SubSeq(data.tokens, 1, Len(data.tokens) - 1) \o junk

Unreadable == [orig |-> Self, seq |-> 0, adl |-> <<>>]

\* Tokens are taken from the front, as many as the count among them says.
InitializeFromContent(tokens) ==
  LET Number(i) == i <= Len(tokens) /\ tokens[i] \in Nat
      count == tokens[3]
      At(i) == 3 + 2 * (i - 1)
  IN IF ~Number(2) \/ ~Number(3) THEN Unreadable
     ELSE IF \E i \in 1..count : ~Number(At(i) + 2) THEN Unreadable
     ELSE [orig |-> tokens[1], seq |-> tokens[2],
           adl |-> AddAdjacents(<<>>, [i \in 1..count |->
                     [name |-> tokens[At(i) + 1], half |-> 2 * tokens[At(i) + 2]]])]

\* The other two types, with the names and with the two coordinates.
GetNameData(lsa) ==
  [tokens |-> <<lsa.orig, lsa.seq, Len(lsa.names)>> \o lsa.names, closed |-> TRUE]

GetCoordinateData(lsa) ==
  [tokens |-> <<lsa.orig, lsa.seq, lsa.radius, lsa.theta>>, closed |-> TRUE]

InitializeNames(tokens) ==
  IF ~({tokens[2], tokens[3]} \subseteq Nat) THEN Unreadable
  ELSE [orig |-> tokens[1], seq |-> tokens[2], names |-> SubSeq(tokens, 4, 3 + tokens[3])]

InitializeCoordinates(tokens) ==
  IF ~({tokens[2], tokens[3], tokens[4]} \subseteq Nat) THEN Unreadable
  ELSE [orig |-> tokens[1], seq |-> tokens[2], radius |-> tokens[3], theta |-> tokens[4]]

-----------------------------------------------------------------------------

LsaInit ==
  /\ adjacencies = [n \in NeighborNames |-> [half |-> 2, active |-> FALSE]]
  /\ builds = 0 /\ kept = <<>> /\ held = <<>> /\ calculates = FALSE

\* HELLO Data and time-outs change the status, updateAdjacentLinkCost the cost.
ChangeNeighbor(n) ==
  /\ \E half \in HalfCosts, active \in BOOLEAN :
       adjacencies' = [adjacencies EXCEPT ![n] = [half |-> half, active |-> active]]
  /\ UNCHANGED <<builds, kept, held, calculates>>

\* What installAdjLsa does to the LSA that is there.
Installed(there, adl) == IF SameAdjacencies(there, adl) THEN there ELSE AddAdjacents(<<>>, adl)

BuildAndSend ==
  /\ builds < MaxBuilds
  /\ \E junk \in {<<>>, <<Junk>>} :
       LET lsa == [orig |-> Self, seq |-> builds + 1, adl |-> ActiveAdjacents]
           received == InitializeFromContent(InMemory(GetData(lsa), junk))
       IN /\ builds' = builds + 1
          /\ kept' = Installed(kept, lsa.adl)
          /\ held' = IF received.seq > 0 THEN Installed(held, received.adl) ELSE held
          /\ calculates' = (received.seq > 0 /\ ~SameAdjacencies(held, received.adl))
  /\ UNCHANGED adjacencies

LsaNext == BuildAndSend \/ \E n \in NeighborNames : ChangeNeighbor(n)

LsaContentSpec == LsaInit /\ [][LsaNext]_lsaVars

-----------------------------------------------------------------------------
(* Properties.                                                             *)

AsSet(list) == {list[i] : i \in DOMAIN list}
WholeCosts(list) == {[name |-> a.name, half |-> 2 * RoundUp(a.half)] : a \in AsSet(list)}

\* Names in any order, and coordinates, are read as they were written.
OthersTold(number) ==
  \A junk \in {<<>>, <<Junk>>} :
    /\ \A names \in UNION {SetToSeqs(S) : S \in SUBSET NeighborNames} :
         LET lsa == [orig |-> Self, seq |-> number, names |-> names]
         IN InitializeNames(InMemory(GetNameData(lsa), junk)) = lsa
    /\ \A radius, theta \in HalfCosts :
         LET lsa == [orig |-> Self, seq |-> number, radius |-> radius, theta |-> theta]
         IN InitializeCoordinates(InMemory(GetCoordinateData(lsa), junk)) = lsa

\* Whatever a router builds, the other one holds the same links at the costs
\* rounded up (lsa.cpp:262-315), whatever lies behind the content in memory,
\* and calculates its routing table exactly when one of them has changed
\* (lsdb.cpp:631).  Its names and coordinates are told as they are.
ReceiverFollowsLinks ==
  [][builds' # builds =>
       /\ AsSet(held') = WholeCosts(kept')
       /\ calculates' <=> AsSet(held') # AsSet(held)
       /\ OthersTold(builds')]_lsaVars
===============================================================================
