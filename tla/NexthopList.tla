----------------------------- MODULE NexthopList -----------------------------
(***************************************************************************)
(* Lists of next hops.  A list has one hop to a face at most, so it is a   *)
(* function from the faces it leads to, to their costs; the order matters  *)
(* where the cheapest hops are chosen, and there the list is sorted first. *)
(*                                                                         *)
(* Costs are kept finer than NFD takes them: Scale steps make one unit.  A *)
(* hop of hyperbolic routing is rounded to a unit, any other is truncated. *)
(***************************************************************************)
EXTENDS Naturals, FiniteSets

CONSTANTS
  Faces,        \* the faces, numbered in the order of their URIs
  Costs,        \* the costs a next hop may have
  Scale,        \* steps that make a unit of cost for NFD
  Hyperbolic,   \* whether hops are marked as hyperbolic
  MaxFaces      \* max-faces-per-prefix, 0 for no limit

ASSUME FaceAssumption ==
  /\ Faces \subseteq Nat /\ IsFiniteSet(Faces)
  /\ Costs \subseteq Nat
  /\ Scale \in Nat \ {0} /\ Hyperbolic \in BOOLEAN /\ MaxFaces \in Nat

Hops == UNION {[F -> Costs] : F \in SUBSET Faces}
NoHops == [f \in {} |-> 0]

Smaller(c, d) == IF c < d THEN c ELSE d

\* A hop to a face that is in the list already only counts if it is cheaper.
AddNextHop(hops, f, c) ==
  [g \in DOMAIN hops \union {f} |->
     IF g # f THEN hops[g] ELSE IF f \in DOMAIN hops THEN Smaller(c, hops[f]) ELSE c]

\* What all hops of several lists make, added one after the other.
AddAll(lists) ==
  [f \in UNION {DOMAIN h : h \in lists} |->
     CHOOSE c \in {h[f] : h \in {k \in lists : f \in DOMAIN k}} :
       \A h \in lists : f \in DOMAIN h => c <= h[f]]

AdjustedInteger(c) == (IF Hyperbolic THEN c + Scale \div 2 ELSE c) \div Scale

\* The order of the list: by the cost that NFD will see, then by face.
Before(hops, f, g) ==
  \/ AdjustedInteger(hops[f]) < AdjustedInteger(hops[g])
  \/ AdjustedInteger(hops[f]) = AdjustedInteger(hops[g]) /\ f < g

NumberOfFacesForName(hops) ==
  IF MaxFaces = 0 THEN Cardinality(DOMAIN hops) ELSE MaxFaces

\* The first of the sorted list, as many as a name may have.
HopsToAdd(hops) ==
  LET Chosen == {f \in DOMAIN hops :
        Cardinality({g \in DOMAIN hops : Before(hops, g, f)}) < NumberOfFacesForName(hops)}
  IN [f \in Chosen |-> hops[f]]

\* The hops with the costs NFD takes.
ForNfd(hops) == [f \in DOMAIN hops |-> AdjustedInteger(hops[f])]

\* An entry's hops after an update: what was added, and a hop the entry had
\* before is only changed by a lower cost.
Merged(entry, added) == [f \in DOMAIN added |-> AddNextHop(entry, f, added[f])[f]]
==============================================================================
