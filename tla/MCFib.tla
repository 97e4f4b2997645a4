---- MODULE MCFib ----
EXTENDS Fib, TLC
CONSTANTS n1

\* One face, the other one as well and the first at another cost, or no hop.
TwoFaces == {NoHops, 1 :> 1, 1 :> 2 @@ 2 :> 1}

\* The first face may be created anew.
Ids == 1 :> 2 @@ 2 :> 1
====
