------------------------------ MODULE SyncSpec ------------------------------
(***************************************************************************)
(* What the synchronisation of sequence numbers promises: a router knows   *)
(* of every other router a number that was published, and while it lives   *)
(* it only gets to know newer ones.                                        *)
(***************************************************************************)
EXTENDS Naturals

CONSTANTS Routers

VARIABLES
  published,  \* the number each router published last
  known       \* known[r][p]: the number of p that r knows, 0 for none

Publish(r) ==
  /\ published'[r] > published[r]
  /\ published' = [published EXCEPT ![r] = published'[r]]
  /\ known' = [known EXCEPT ![r][r] = published'[r]]

\* r catches up with some of what has been published.
Learn(r) ==
  /\ \A p \in Routers : known'[r][p] \in known[r][p]..published[p]
  /\ known' = [known EXCEPT ![r] = known'[r]]
  /\ UNCHANGED published

\* r comes back knowing nothing.
Restart(r) ==
  /\ known' = [known EXCEPT ![r] = [p \in Routers |-> 0]]
  /\ UNCHANGED published

Init ==
  /\ published = [r \in Routers |-> 0]
  /\ known = [r \in Routers |-> [p \in Routers |-> 0]]

Next == \E r \in Routers : Publish(r) \/ Learn(r) \/ Restart(r)

Spec == Init /\ [][Next]_<<published, known>>
=============================================================================
