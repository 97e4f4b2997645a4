------------------------------- MODULE LsaSpec -------------------------------
(***************************************************************************)
(* What the dissemination of LSAs promises.  Routers issue LSAs under       *)
(* growing numbers.  What a router holds of another was issued; a held LSA *)
(* is replaced by a newer one or dropped.                                   *)
(***************************************************************************)
EXTENDS Naturals

CONSTANTS Lsas

VARIABLES
  issued,   \* the number last given to each LSA, 0 for none
  held      \* the number of the LSA a receiver holds, 0 for none

\* One or several LSAs of a router are built anew.
Issue ==
  /\ \A l \in Lsas : issued'[l] >= issued[l]
  /\ issued' = [l \in Lsas |-> issued'[l]]
  /\ UNCHANGED held

Install(l) ==
  /\ held'[l] \in held[l]+1..issued[l]
  /\ held' = [held EXCEPT ![l] = held'[l]]
  /\ UNCHANGED issued

Drop(l) ==
  /\ held[l] # 0
  /\ held' = [held EXCEPT ![l] = 0]
  /\ UNCHANGED issued

Init ==
  /\ issued \in [Lsas -> {0, 1}]
  /\ held = [l \in Lsas |-> 0]

Next == Issue \/ \E l \in Lsas : Install(l) \/ Drop(l)

Spec == Init /\ [][Next]_<<issued, held>>
==============================================================================
