------------------------------- MODULE MCLsdb -------------------------------
(* Lsdb on small instances: one other router, a few numbers of each type.   *)
EXTENDS Lsdb

CONSTANTS r1, p1, c1, c2
OneRouter == {r1}
OneName == {p1}
\* A router may list our own prefix among its names.
NameAndOwn == {p1, Self}
OneContent == {c1}
TwoContents == {c1, c2}

OneEach == [t \in Types |-> 1]
NameAndAdj == [t \in Types |-> IF t = "COR" THEN 1 ELSE 2]
TwoAdj == [t \in Types |-> IF t = "ADJ" THEN 2 ELSE 1]
=============================================================================
