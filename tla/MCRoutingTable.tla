---- MODULE MCRoutingTable ----
EXTENDS RoutingTable, TLC
CONSTANTS r1, r2, n1, n2

\* Two routers; costs 2 and 3 are the same for NFD, 4 is more.  The last result
\* makes the only hop of the second one dearer.
Two == {r1, r2}
SomeResults ==
  { (r1 :> NoHops @@ r2 :> NoHops),
    (r1 :> (1 :> 3) @@ r2 :> NoHops),
    (r1 :> (1 :> 4 @@ 2 :> 2) @@ r2 :> (1 :> 2)),
    (r1 :> (1 :> 4) @@ r2 :> NoHops) }
====
