-------------------------------- MODULE Lsdb --------------------------------
(***************************************************************************)
(* The link-state database of one router: its own LSAs and those of other  *)
(* routers, of all three types; the timers that refresh the former and     *)
(* expire the latter; and what the database drives, the Name Prefix Table, *)
(* the scheduling of the routing table calculation and the publication of  *)
(* the own sequence numbers.                                               *)
(*                                                                         *)
(* Time is abstracted: a scheduled event may fire at any moment, so two    *)
(* pending events about the same LSA and number are as good as one.        *)
(* Whatever the network brings may be late, old or repeated.               *)
(***************************************************************************)
EXTENDS Naturals

CONSTANTS
  Self,          \* this router's prefix
  Others,        \* the other routers' prefixes
  Names,         \* names a router may advertise
  Contents,      \* what an Adjacency or Coordinate LSA may say
  MaxSeq,        \* bound: largest sequence number of each type
  HyperbolicOn   \* hyperbolic routing is on or in a dry run

Types == {"NAME", "ADJ", "COR"}
Routers == Others \union {Self}

ASSUME RouterAssumption  == Self \notin Others
ASSUME BoundAssumption   == MaxSeq \in [Types -> Nat \ {0}]
ASSUME ContentAssumption == Contents # {}
ASSUME StateAssumption   == HyperbolicOn \in BOOLEAN

VARIABLES
  lsSeqNo,        \* sequence number of each LSA held, 0 for none
  names,          \* what the Name LSAs say
  content,        \* what the Adjacency and Coordinate LSAs say
  storedTimer,    \* pending event an LSA knows by m_expiringEventId, 0 for none
  looseTimers,    \* pending events whose id is kept nowhere
  seqManager,     \* the SequencingManager's counters
  published,      \* the counters as last given to nsync
  namePrefixList, \* the names this router advertises
  npt,            \* Name Prefix Table: pairs of a name and a router to reach it by
  calcScheduled   \* a routing table calculation is scheduled

lsaVars == <<lsSeqNo, names, content>>
timerVars == <<storedTimer, looseTimers>>
ownVars == <<seqManager, published, namePrefixList>>
vars == <<lsaVars, timerVars, ownVars, npt, calcScheduled>>

Zero == [t \in Types |-> 0]
Blank == CHOOSE c \in Contents : TRUE

\* Nlsr::initialize has built the own Name and Coordinate LSAs, published
\* nothing, and scheduled the first refresh of each.
Init ==
  /\ namePrefixList \in SUBSET Names
  /\ lsSeqNo = [t \in Types |-> [r \in Routers |-> IF r = Self /\ t # "ADJ" THEN 1 ELSE 0]]
  /\ names = [r \in Routers |-> IF r = Self THEN namePrefixList ELSE {}]
  /\ content = [t \in Types |-> [r \in Routers |-> Blank]]
  /\ storedTimer = [t \in Types |-> [r \in Routers |-> 0]]
  /\ looseTimers = {<<"NAME", Self, 1>>, <<"COR", Self, 1>>}
  /\ seqManager = [t \in Types |-> IF t = "ADJ" THEN 0 ELSE 1]
  /\ published = Zero
  /\ npt = {}
  /\ calcScheduled = HyperbolicOn

-----------------------------------------------------------------------------
(* Helpers.                                                                *)

Held(t, r) == lsSeqNo[t][r] # 0

IsLsaNew(t, r, s) == lsSeqNo[t][r] < s

Mut_NptEntriesOwnPrefixToo(S, r) == {<<n, r>> : n \in S}

\* Name Prefix Table entries by which names S lead to router r.  Names equal
\* to this router's own prefix are passed over.
NptEntries(S, r) == {<<n, r>> : n \in S \ {Self}}

Mut_UpdatedNptKeepsOldNames(r, S) == npt \union NptEntries(S \ names[r], r)

\* The Name Prefix Table when the Name LSA held of r comes to list S.
UpdatedNpt(r, S) ==
  (npt \union NptEntries(S \ names[r], r)) \ NptEntries(names[r] \ S, r)

\* Types whose LSAs are the input of the routing table calculation.
DrivesRouting(t) == t = "ADJ" \/ (t = "COR" /\ HyperbolicOn)

Mut_ScheduleCalculationAdjOnly(t) == calcScheduled' = (calcScheduled \/ t = "ADJ")

ScheduleCalculation(t) == calcScheduled' = (calcScheduled \/ DrivesRouting(t))

\* The LSA takes number s and says S (names) or c (the other types).
SetLsa(t, r, s, S, c) ==
  /\ lsSeqNo' = [lsSeqNo EXCEPT ![t][r] = s]
  /\ names' = IF t = "NAME" THEN [names EXCEPT ![r] = S] ELSE names
  /\ content' = IF t = "NAME" THEN content ELSE [content EXCEPT ![t][r] = c]

\* A LSA the database does not hold yet.  The LSA was copied into the list
\* before its expiry was scheduled, so the copy never learns the event's id.
AddLsa(t, r, s, S, c) ==
  /\ SetLsa(t, r, s, S, c)
  /\ npt' = IF r = Self THEN npt
            ELSE npt \union NptEntries({r} \union (IF t = "NAME" THEN S ELSE {}), r)
  /\ ScheduleCalculation(t)
  /\ looseTimers' = looseTimers \union {<<t, r, s>>}
  /\ UNCHANGED storedTimer

Mut_RescheduleCancelsLast(t, r, s) == storedTimer' = [storedTimer EXCEPT ![t][r] = 0]

\* The event the LSA knows of is cancelled and a new one scheduled.
Reschedule(t, r, s) == storedTimer' = [storedTimer EXCEPT ![t][r] = s]

\* A newer LSA replaces the one held.
UpdateLsa(t, r, s, S, c) ==
  /\ SetLsa(t, r, s, S, c)
  /\ npt' = IF r = Self \/ t # "NAME" THEN npt ELSE UpdatedNpt(r, S)
  /\ IF t # "NAME" /\ c # content[t][r] THEN ScheduleCalculation(t)
     ELSE UNCHANGED calcScheduled
  /\ Reschedule(t, r, s)
  /\ UNCHANGED looseTimers

Install(t, r, s, S, c) ==
  \/ ~Held(t, r) /\ AddLsa(t, r, s, S, c)
  \/ Held(t, r) /\ IsLsaNew(t, r, s) /\ UpdateLsa(t, r, s, S, c)

\* The LSA leaves the database and its entries the Name Prefix Table.
RemoveLsa(t, r) ==
  /\ SetLsa(t, r, 0, {}, Blank)
  /\ npt' = IF r = Self THEN npt
            ELSE npt \ NptEntries({r} \union (IF t = "NAME" THEN names[r] ELSE {}), r)

\* An event id that is overwritten or lost with its LSA: the event stays.
Loosened(t, r) ==
  IF storedTimer[t][r] = 0 THEN {} ELSE {<<t, r, storedTimer[t][r]>>}

PublishRoutingUpdate == published' = seqManager'

-----------------------------------------------------------------------------
(* The own LSAs.                                                           *)

BuildAndInstallOwnLsa(t, S, c) ==
  /\ seqManager[t] < MaxSeq[t]
  /\ seqManager' = [seqManager EXCEPT ![t] = @ + 1]
  /\ Install(t, Self, seqManager[t] + 1, S, c)

\* An accepted command to advertise n, or to withdraw it.
UpdateNamePrefixList(n) ==
  /\ namePrefixList' = IF n \in namePrefixList THEN namePrefixList \ {n}
                       ELSE namePrefixList \union {n}
  /\ BuildAndInstallOwnLsa("NAME", namePrefixList', Blank)
  /\ PublishRoutingUpdate

\* buildAdjLsa with ACTIVE neighbours, and without.
BuildAdjLsa(c) ==
  /\ BuildAndInstallOwnLsa("ADJ", {}, c)
  /\ PublishRoutingUpdate
  /\ UNCHANGED namePrefixList

RemoveOwnAdjLsa ==
  /\ IF Held("ADJ", Self)
     THEN /\ RemoveLsa("ADJ", Self)
          /\ looseTimers' = looseTimers \union Loosened("ADJ", Self)
          /\ storedTimer' = [storedTimer EXCEPT !["ADJ"][Self] = 0]
     ELSE UNCHANGED <<lsaVars, timerVars, npt>>
  /\ ScheduleCalculation("ADJ")
  /\ UNCHANGED ownVars

-----------------------------------------------------------------------------
(* LSAs of other routers, and the timers.                                  *)

\* A LSA was fetched and validated: processContent..Lsa.
ProcessContent(t, r, s, S, c) ==
  /\ IsLsaNew(t, r, s)
  /\ Install(t, r, s, S, c)
  /\ UNCHANGED ownVars

Mut_RefreshOwnLsaUnpublished(t) ==
  LET s == lsSeqNo[t][Self] + 1 IN
  /\ s <= MaxSeq[t]
  /\ lsSeqNo' = [lsSeqNo EXCEPT ![t][Self] = s]
  /\ seqManager' = [seqManager EXCEPT ![t] = s]
  /\ UNCHANGED <<names, content, npt, namePrefixList, published>>

\* The same contents under the next number.
RefreshOwnLsa(t) ==
  LET s == lsSeqNo[t][Self] + 1 IN
  /\ s <= MaxSeq[t]
  /\ lsSeqNo' = [lsSeqNo EXCEPT ![t][Self] = s]
  /\ seqManager' = [seqManager EXCEPT ![t] = s]
  /\ PublishRoutingUpdate
  /\ UNCHANGED <<names, content, npt, namePrefixList>>

\* The event still is about the LSA the database holds.
IsCurrent(t, r, s) == Held(t, r) /\ lsSeqNo[t][r] = s

\* The event for number s of an LSA fires; pendingStored and pendingLoose are
\* the events that remain.  A refreshed LSA is given a new event.
ExpireOrRefresh(t, r, s, pendingStored, pendingLoose) ==
  \/ /\ ~IsCurrent(t, r, s)
     /\ storedTimer' = [storedTimer EXCEPT ![t][r] = pendingStored]
     /\ looseTimers' = pendingLoose
     /\ UNCHANGED <<lsaVars, ownVars, npt, calcScheduled>>
  \/ /\ IsCurrent(t, r, s)
     /\ looseTimers' = pendingLoose \union
                         (IF pendingStored = 0 THEN {} ELSE {<<t, r, pendingStored>>})
     /\ IF r = Self
        THEN /\ RefreshOwnLsa(t)
             /\ storedTimer' = [storedTimer EXCEPT ![t][r] = lsSeqNo[t][r] + 1]
        ELSE /\ RemoveLsa(t, r)
             /\ storedTimer' = [storedTimer EXCEPT ![t][r] = 0]
             /\ UNCHANGED ownVars
     /\ ScheduleCalculation(t)

StoredTimerFires(t, r) ==
  /\ storedTimer[t][r] # 0
  /\ ExpireOrRefresh(t, r, storedTimer[t][r], 0, looseTimers)

LooseTimerFires(t, r, s) ==
  /\ <<t, r, s>> \in looseTimers
  /\ ExpireOrRefresh(t, r, s, storedTimer[t][r], looseTimers \ {<<t, r, s>>})

\* RoutingTable::calculate takes the flag back whether it calculates or not.
Calculate ==
  /\ calcScheduled
  /\ calcScheduled' = FALSE
  /\ UNCHANGED <<lsaVars, timerVars, ownVars, npt>>

Next ==
  \/ \E n \in Names : UpdateNamePrefixList(n)
  \/ \E c \in Contents : BuildAdjLsa(c)
  \/ RemoveOwnAdjLsa
  \/ \E r \in Others, S \in SUBSET Names : \E s \in 1..MaxSeq["NAME"] :
       ProcessContent("NAME", r, s, S, Blank)
  \/ \E t \in {"ADJ", "COR"}, r \in Others, c \in Contents : \E s \in 1..MaxSeq[t] :
       ProcessContent(t, r, s, {}, c)
  \/ \E t \in Types, r \in Routers :
       \/ StoredTimerFires(t, r)
       \/ \E s \in 1..MaxSeq[t] : LooseTimerFires(t, r, s)
  \/ Calculate

Spec == Init /\ [][Next]_vars

\* The scheduler runs every event in the end.
FairSpec ==
  /\ Spec
  /\ \A t \in Types, r \in Others :
       /\ WF_vars(StoredTimerFires(t, r))
       /\ \A s \in 1..MaxSeq[t] : WF_vars(LooseTimerFires(t, r, s))

-----------------------------------------------------------------------------
(* Properties.                                                             *)

LsaTypeOK ==
  /\ lsSeqNo \in [Types -> [Routers -> Nat]]
  /\ \A t \in Types, r \in Routers : lsSeqNo[t][r] <= MaxSeq[t]
  /\ names \in [Routers -> SUBSET Names]
  /\ content \in [Types -> [Routers -> Contents]]
  /\ storedTimer \in [Types -> [Routers -> Nat]]
  /\ looseTimers \subseteq Types \X Routers \X Nat
  /\ npt \subseteq ((Names \union Others) \ {Self}) \X Others
  /\ calcScheduled \in BOOLEAN

OwnTypeOK ==
  /\ seqManager \in [Types -> Nat]
  /\ published \in [Types -> Nat]
  /\ namePrefixList \subseteq Names

\* Types of the variables; the Name Prefix Table never leads to this router's
\* own prefix, nor any name to this router itself.
TypeOK == LsaTypeOK /\ OwnTypeOK

\* No LSA is held without an event that will refresh or expire it under the
\* number it has now: neither the cancellation on an update
\* (lsdb.cpp:228, 417, 641) nor the ids that are never stored
\* (lsdb.cpp:175, 393, 619) leave one behind for ever.
TimerForEveryLsa ==
  \A t \in Types, r \in Routers : Held(t, r) =>
    storedTimer[t][r] = lsSeqNo[t][r] \/ <<t, r, lsSeqNo[t][r]>> \in looseTimers

\* What this router tells the others to fetch it can serve: after the first
\* publication every own LSA has the number last published
\* (processInterestFor..Lsa answers for that number only, lsdb.cpp:961, 983,
\* 1005).  An Adjacency LSA may be gone for want of neighbours.
PublishedCanBeFetched ==
  published # Zero =>
    \A t \in Types : lsSeqNo[t][Self] = published[t] \/ (t = "ADJ" /\ ~Held(t, Self))

\* Own numbers are handed out in two ways, from the manager (a new LSA) and
\* from the LSA (a refresh, lsdb.cpp:733, 767, 804): they never part, so no
\* number is given to two LSAs.
ManagerMatchesLsas ==
  \A t \in Types : lsSeqNo[t][Self] = seqManager[t] \/ (t = "ADJ" /\ ~Held(t, Self))

\* The Name Prefix Table has a name by a router exactly when the Name LSA held
\* of that router lists it, whatever updates, removals and timers came by.
NamesFollowLsas ==
  \A r \in Others, n \in Names \ (Routers) :
    <<n, r>> \in npt <=> Held("NAME", r) /\ n \in names[r]

\* A LSA is never replaced by an older one, and the own numbers never go back,
\* not even when the own Adjacency LSA has been away.
NeverBackwards ==
  [][\A t \in Types :
       /\ seqManager'[t] >= seqManager[t]
       /\ \A r \in Routers : lsSeqNo'[t][r] # 0 => lsSeqNo'[t][r] >= lsSeqNo[t][r]]_vars

\* What the LSAs held contribute to the routing table calculation.
Topology ==
  [t \in {u \in Types : DrivesRouting(u)} |->
     [r \in Routers |-> IF Held(t, r) THEN {content[t][r]} ELSE {}]]

\* Whatever changes the topology in the database (a new, different, expired or
\* removed LSA of a type that is calculated from; lsdb.cpp:389, 411, 524, 615,
\* 635, 784, 821) leaves a calculation scheduled.
TopologyChangeSchedules == [][Topology' # Topology => calcScheduled']_vars

\* A LSA of another router is not held for ever under the same number: unless
\* its origin refreshes it, it expires.
EveryLsaRunsOut ==
  \A t \in Types, r \in Others : \A s \in 1..MaxSeq[t] :
    lsSeqNo[t][r] = s ~> lsSeqNo[t][r] # s

\* NamePrefixTable::removeEntry (name-prefix-table.cpp:100-102): when a router
\* prefix has left the table, the Adjacency or Coordinate LSA of that router
\* has been removed from the database.
RouterPrefixGoneOnlyWithLsa ==
  \A r \in Others : <<r, r>> \notin npt => ~(Held("ADJ", r) /\ Held("COR", r))
=============================================================================
