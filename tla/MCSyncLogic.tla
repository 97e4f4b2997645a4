---------------------------- MODULE MCSyncLogic ----------------------------
(* Two routers that publish once each, at the same time or one after the    *)
(* other, or one that publishes twice.                                      *)
EXTENDS SyncLogic, TLC

CONSTANTS r1, r2

Two == {r1, r2}
OneEach == [Two -> 0..1]
TwoOfOne == [r \in Two |-> IF r = r1 THEN 2 ELSE 0]
OneEachOrTwoOfOne == OneEach \union {TwoOfOne}

\* One interest at a time.
One == [h \in Histories, r \in Two |-> 1]

\* A router that has published twice may wait for both interests.
OneOfEachState == [h \in Histories, r \in Two |-> IF h[r] = 2 THEN 2 ELSE 1]

\* The other one may keep both; and the first, before it has published, those
\* of before and after the other's publication.
TwoKept ==
  [h \in Histories, r \in Two |->
     IF (r = r1 /\ h[r1] = 0 /\ h[r2] = 1) \/ (r = r2 /\ h = TwoOfOne) THEN 2 ELSE 1]

Symmetry == Permutations(Two)
=============================================================================
