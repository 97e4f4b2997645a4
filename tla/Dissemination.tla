---------------------------- MODULE Dissemination ----------------------------
(***************************************************************************)
(* How the LSAs of other routers reach this one.  An origin gives its LSAs *)
(* new numbers and publishes all of them at once; nsync lets this router   *)
(* know of some later publication, as SyncSpec promises; this router asks  *)
(* for what it does not have, asks again, validates, validates again, and  *)
(* installs what it got.  Interests and data may be lost or late, data may *)
(* come out of caches, origins crash and come back, LSAs run out.          *)
(*                                                                         *)
(* A LSA is told by its number.  A fetch is the chain of callbacks that    *)
(* one call of Lsdb::expressInterest sets off: it always is in exactly one *)
(* of three phases.                                                        *)
(***************************************************************************)
EXTENDS Naturals, Sequences, FiniteSets

CONSTANTS
  Others,       \* the other routers
  Types,        \* the types of LSA that are looked at
  Jump,         \* added to the numbers read back after a restart
  MaxUpdates,   \* bound: publications of one router
  MaxCopies     \* bound: fetches of the same LSA and number at a time

ASSUME TypeAssumption  == Types \subseteq {"NAME", "ADJ", "COR"}
ASSUME BoundAssumption == Jump \in Nat /\ MaxUpdates \in Nat /\ MaxCopies \in Nat \ {0}

Lsas == Others \X Types
Phases == {"asking", "validating", "waiting"}
Fetches == [lsa : Lsas, seq : Nat, copy : 1..MaxCopies, phase : Phases, late : BOOLEAN]

VARIABLES
  \* the origins
  up,         \* the routers that are running
  seqNo,      \* the number of each LSA, 0 for none yet
  serving,    \* the LSAs their origin holds
  updates,    \* what each router has published, all numbers at a time
  \* the network
  known,      \* how far into updates nsync has told this router
  data,       \* data packets that were sent: in a cache, or on their way
  \* this router
  held,       \* the number of each LSA in the database, 0 for none
  highest,    \* m_highestSeqNo, 0 for none
  fetches,
  \* history
  best,       \* the newest number ever held
  abandoned   \* numbers given up, at the deadline or for content that does not decode

originVars == <<up, seqNo, serving, updates>>
history == <<best, abandoned>>
vars == <<originVars, known, data, held, highest, fetches, history>>

FirstNumber(t) == IF t = "ADJ" THEN 0 ELSE 1
Blank == [l \in Lsas |-> 0]

\* Every origin has built its first Name and Coordinate LSA, and this router
\* has created its sync socket.
Init ==
  /\ up = Others
  /\ seqNo = [l \in Lsas |-> FirstNumber(l[2])]
  /\ serving = {l \in Lsas : l[2] # "ADJ"}
  /\ updates = [r \in Others |-> <<>>]
  /\ known = [r \in Others |-> 0]
  /\ data = {}
  /\ held = Blank
  /\ highest = Blank
  /\ fetches = {}
  /\ best = Blank
  /\ abandoned = {}

-----------------------------------------------------------------------------
(* The origins.                                                            *)

Mut_PublishSameNumber(l) ==
  /\ l[1] \in up
  /\ Len(updates[l[1]]) < MaxUpdates
  /\ serving' = serving \union {l}
  /\ updates' = [updates EXCEPT ![l[1]] = Append(@, [t \in Types |-> seqNo[<<l[1], t>>]])]
  /\ UNCHANGED <<up, seqNo, known, data, held, highest, fetches, history>>

\* A LSA is built, or refreshed, under its next number, and all numbers are
\* published, also that of an Adjacency LSA there is not.
Publish(l) ==
  /\ l[1] \in up
  /\ Len(updates[l[1]]) < MaxUpdates
  /\ seqNo' = [seqNo EXCEPT ![l] = @ + 1]
  /\ serving' = serving \union {l}
  /\ updates' = [updates EXCEPT ![l[1]] = Append(@, [t \in Types |-> seqNo'[<<l[1], t>>]])]
  /\ UNCHANGED <<up, known, data, held, highest, fetches, history>>

\* The last neighbour is gone: the Adjacency LSA is removed and nothing is
\* published.
RemoveAdjLsa(r) ==
  /\ r \in up
  /\ <<r, "ADJ">> \in serving
  /\ serving' = serving \ {<<r, "ADJ">>}
  /\ UNCHANGED <<up, seqNo, updates, known, data, held, highest, fetches, history>>

Crash(r) ==
  /\ r \in up
  /\ up' = up \ {r}
  /\ serving' = {l \in serving : l[1] # r}
  /\ UNCHANGED <<seqNo, updates, known, data, held, highest, fetches, history>>

\* What was published last is in the file; without a file numbers start over.
NumberAfterRestart(r, t) ==
  IF updates[r] = <<>> THEN FirstNumber(t)
  ELSE updates[r][Len(updates[r])][t] + Jump + FirstNumber(t)

Restart(r) ==
  /\ r \in Others \ up
  /\ up' = up \union {r}
  /\ seqNo' = [l \in Lsas |-> IF l[1] = r THEN NumberAfterRestart(r, l[2]) ELSE seqNo[l]]
  /\ serving' = serving \union {l \in Lsas : l[1] = r /\ l[2] # "ADJ"}
  /\ UNCHANGED <<updates, known, data, held, highest, fetches, history>>

\* An interest for number s is answered when that is the number held.
Serves(l, s) == l \in serving /\ seqNo[l] = s

\* Another router asks for a number it was told of, and the data stays in the
\* caches.
AnotherRouterAsks(l) ==
  /\ l \in serving
  /\ updates[l[1]] # <<>> /\ seqNo[l] = updates[l[1]][Len(updates[l[1]])][l[2]]
  /\ data' = data \union {<<l, seqNo[l]>>}
  /\ UNCHANGED <<originVars, known, held, highest, fetches, history>>

-----------------------------------------------------------------------------
(* This router.                                                            *)

\* Any number is new for a LSA that is not held, also 0, which an origin
\* announces before its first Adjacency LSA and no LSA ever has.
IsLsaNew(l, s) == held[l] = 0 \/ held[l] < s

Twins(l, s) == {f \in fetches : f.lsa = l /\ f.seq = s}

FreeCopies(l, s) == (1..MaxCopies) \ {f.copy : f \in Twins(l, s)}

NewFetch(l, s) ==
  [lsa |-> l, seq |-> s, phase |-> "asking", late |-> FALSE,
   copy |-> CHOOSE c \in FreeCopies(l, s) : TRUE]

Mut_WantedOnlyFirst(r, k) ==
  {l \in {r} \X Types : IsLsaNew(l, updates[r][k][l[2]]) /\ highest[l] = 0}

\* The LSAs of r to ask for when its publication k becomes known; numbers
\* below the highest known one are not asked for.
Wanted(r, k) ==
  {l \in {r} \X Types : IsLsaNew(l, updates[r][k][l[2]])
                        /\ updates[r][k][l[2]] >= highest[l]}

\* nsync reports a publication: every LSA that is new by it is asked for.
\* Fetches of earlier numbers, or of the same one, are not stopped.
OnNsyncUpdate(r, k) ==
  /\ k \in known[r]+1..Len(updates[r])
  /\ \A l \in Wanted(r, k) : FreeCopies(l, updates[r][k][l[2]]) # {}
  /\ known' = [known EXCEPT ![r] = k]
  /\ highest' = [l \in Lsas |-> IF l \in Wanted(r, k) THEN updates[r][k][l[2]] ELSE highest[l]]
  /\ fetches' = fetches \union {NewFetch(l, updates[r][k][l[2]]) : l \in Wanted(r, k)}
  /\ UNCHANGED <<originVars, data, held, history>>

StillNewest(f) == highest[f.lsa] = f.seq

Mut_GoesOnPastDeadline(f) == StillNewest(f)

\* Neither the deadline nor a newer number has overtaken the fetch.
GoesOn(f) == ~f.late /\ StillNewest(f)

EndFetch(f) ==
  /\ fetches' = fetches \ {f}
  /\ abandoned' = IF StillNewest(f) /\ f.late THEN abandoned \union {<<f.lsa, f.seq>>}
                  ELSE abandoned

SetPhase(f, p) == fetches' = (fetches \ {f}) \union {[f EXCEPT !.phase = p]}

\* The interest is expressed again, with the deadline it had, or never again.
ProcessInterestTimedOut(f) ==
  /\ f.phase = "asking"
  /\ \/ GoesOn(f) /\ UNCHANGED <<fetches, abandoned>>
     \/ ~GoesOn(f) /\ EndFetch(f)
  /\ UNCHANGED <<originVars, known, data, held, highest, best>>

\* Data comes from the origin or from a cache, and goes to the validator.
OnContent(f) ==
  /\ f.phase = "asking"
  /\ <<f.lsa, f.seq>> \in data \/ Serves(f.lsa, f.seq)
  /\ data' = data \union {<<f.lsa, f.seq>>}
  /\ SetPhase(f, "validating")
  /\ UNCHANGED <<originVars, known, held, highest, history>>

Mut_OnContentValidatedAlways(f) ==
  /\ f.phase = "validating"
  /\ fetches' = fetches \ {f}
  /\ held' = [held EXCEPT ![f.lsa] = f.seq]
  /\ best' = [best EXCEPT ![f.lsa] = IF f.seq > @ THEN f.seq ELSE @]
  /\ UNCHANGED <<originVars, known, data, highest, abandoned>>

\* The LSA is installed if it still is newer than what is held, be it the
\* newest or not, and if its content can be decoded; otherwise that is logged,
\* and nobody asks again.
ProcessContent(l, s) ==
  \/ /\ IsLsaNew(l, s)
     /\ held' = [held EXCEPT ![l] = s]
     /\ best' = [best EXCEPT ![l] = IF s > @ THEN s ELSE @]
     /\ UNCHANGED abandoned
  \/ /\ IsLsaNew(l, s)
     /\ abandoned' = abandoned \union {<<l, s>>}
     /\ UNCHANGED <<held, best>>
  \/ ~IsLsaNew(l, s) /\ UNCHANGED <<held, history>>

OnContentValidated(f) ==
  /\ f.phase = "validating"
  /\ fetches' = fetches \ {f}
  /\ ProcessContent(f.lsa, f.seq)
  /\ UNCHANGED <<originVars, known, data, highest>>

Mut_OnContentValidationFailedForGood(f) ==
  /\ f.phase = "validating"
  /\ EndFetch(f)
  /\ UNCHANGED <<originVars, known, data, held, highest, best>>

\* The same data is validated again later; it is not asked for anew.
OnContentValidationFailed(f) ==
  /\ f.phase = "validating"
  /\ \/ GoesOn(f) /\ SetPhase(f, "waiting") /\ UNCHANGED abandoned
     \/ ~GoesOn(f) /\ EndFetch(f)
  /\ UNCHANGED <<originVars, known, data, held, highest, best>>

RetryContentValidation(f) ==
  /\ f.phase = "waiting"
  /\ SetPhase(f, "validating")
  /\ UNCHANGED <<originVars, known, data, held, highest, history>>

DeadlinePasses(f) ==
  /\ ~f.late
  /\ fetches' = (fetches \ {f}) \union {[f EXCEPT !.late = TRUE]}
  /\ UNCHANGED <<originVars, known, data, held, highest, history>>

\* A LSA runs out.  An origin that is alive gives it a new number before:
\* the configuration must have router-dead-interval above lsa-refresh-time.
Expire(l) ==
  /\ held[l] # 0
  /\ ~Serves(l, held[l])
  /\ held' = [held EXCEPT ![l] = 0]
  /\ UNCHANGED <<originVars, known, data, highest, fetches, history>>

FetchStep(f) ==
  \/ ProcessInterestTimedOut(f)
  \/ OnContent(f)
  \/ OnContentValidated(f)
  \/ OnContentValidationFailed(f)
  \/ RetryContentValidation(f)
  \/ DeadlinePasses(f)

Next ==
  \/ \E l \in Lsas : Publish(l) \/ AnotherRouterAsks(l) \/ Expire(l)
  \/ \E r \in Others : RemoveAdjLsa(r) \/ Crash(r) \/ Restart(r)
  \/ \E r \in Others : \E k \in 1..MaxUpdates : OnNsyncUpdate(r, k)
  \/ \E f \in fetches : FetchStep(f)

Spec == Init /\ [][Next]_vars

\* The fetch of the newest number known makes its next step.
NewestArrives(l) ==
  \E f \in fetches : f.lsa = l /\ StillNewest(f) /\ Serves(l, f.seq) /\ OnContent(f)
NewestValidated(l) ==
  \E f \in fetches : f.lsa = l /\ StillNewest(f) /\ OnContentValidated(f)

\* An interest for what the origin serves is answered in the end, good data
\* validates in the end; the validator answers, timers fire, time goes by.
FairSpec ==
  /\ Spec
  /\ \A l \in Lsas :
       /\ WF_vars(NewestArrives(l))
       /\ SF_vars(NewestValidated(l))
       /\ WF_vars(\E f \in fetches : f.lsa = l /\ RetryContentValidation(f))
       /\ WF_vars(\E f \in fetches : f.lsa = l /\ DeadlinePasses(f))
       /\ WF_vars(\E f \in fetches : f.lsa = l /\ ProcessInterestTimedOut(f))
       /\ WF_vars(\E f \in fetches :
            f.lsa = l /\ (OnContentValidated(f) \/ OnContentValidationFailed(f)))
       /\ WF_vars(Expire(l))

-----------------------------------------------------------------------------
(* Properties.                                                             *)

\* Types of the variables.  No data has number 0, so that 0 can stand for none
\* in held.
TypeOK ==
  /\ up \subseteq Others
  /\ seqNo \in [Lsas -> Nat]
  /\ serving \subseteq Lsas
  /\ updates \in [Others -> Seq([Types -> Nat])]
  /\ known \in [Others -> Nat]
  /\ data \subseteq Lsas \X (Nat \ {0})
  /\ held \in [Lsas -> Nat]
  /\ highest \in [Lsas -> Nat]
  /\ fetches \subseteq Fetches
  /\ best \in [Lsas -> Nat]
  /\ abandoned \subseteq Lsas \X Nat

\* The number by which nsync last told of a LSA.
Announced(l) == IF known[l[1]] = 0 THEN 0 ELSE updates[l[1]][known[l[1]]][l[2]]

\* The newest number nsync has told of is never lost sight of: it was
\* installed, or a fetch of it is under way, or it was given up at its
\* deadline or because it does not decode.  No stale timeout, failed validation or overtaking fetch
\* (lsdb.cpp:842-849, 1117, 1181) ends the last one.
NewestIsFetched ==
  \A l \in Lsas :
    \/ best[l] >= Announced(l)
    \/ Twins(l, Announced(l)) # {}
    \/ <<l, Announced(l)>> \in abandoned

\* The detailed protocol keeps what dissemination promises: only LSAs that
\* were issued are held, and only a newer one takes the place of another
\* (lsdb.cpp:1128, 1143, 1158).
Promise == INSTANCE LsaSpec WITH issued <- seqNo
RefinesLsaSpec == Promise!Spec

\* A LSA whose origin goes on serving the newest announced number is held
\* under that number in the end and from then on, whatever else is fetched,
\* lost or retried meanwhile, unless the deadline of its fetch went by or its
\* content did not decode.
NewestInstalled ==
  \A l \in Lsas :
    <>[](Serves(l, Announced(l)) /\ <<l, Announced(l)>> \notin abandoned)
      => <>[](held[l] = Announced(l))

\* The LSAs of a router that is gone for good are neither held nor asked for in
\* the end: caches do not bring them back again and again (lsdb.cpp:893), nor is
\* a number nobody serves asked for without end (lsdb.cpp:1177).  A router that
\* is alive and has removed its Adjacency LSA goes on announcing the number of
\* it with each Name LSA, and nothing of the kind holds of that one.
DeadRouterForgotten ==
  \A l \in Lsas :
    <>[](l[1] \notin up) => <>[](held[l] = 0 /\ \A f \in fetches : f.lsa # l)
==============================================================================
